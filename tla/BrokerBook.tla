----------------------------- MODULE BrokerBook -----------------------------
(***************************************************************************)
(* The broker, as the adapters of src/backend/app use it: it receives an   *)
(* order late or never, fills it unit by unit, may cancel what rests, and  *)
(* finds orders by client order id. It does not deduplicate them: the id   *)
(* is only a label of the order (UpstoxBrokerAdapter sends it as "tag").   *)
(***************************************************************************)
EXTENDS OrderIdentity, Naturals

CONSTANTS
  Quantity,    \* quantity of the order of each client order id
  NoClient     \* the client order id of an unused broker order id

ASSUME BookAssumption ==
  /\ Quantity \in [ClientIds -> Nat \ {0}]
  /\ NoClient \notin ClientIds

VARIABLE orders   \* the broker's order book, and requests on their way to it

BookStatuses == {"NEW", "PARTIALLY_FILLED", "FILLED", "REJECTED", "CANCELLED"}
LiveStatuses == {"inflight", "NEW", "PARTIALLY_FILLED"}

Order == [client: ClientIds \cup {NoClient},
          status: {"unused", "inflight", "lost"} \cup BookStatuses,
          filled: Nat]

NoOrder == [client |-> NoClient, status |-> "unused", filled |-> 0]

BookInit == orders = [b \in BrokerIds |-> NoOrder]

Sent(b) == orders[b].status # "unused"
Visible(b) == orders[b].status \in BookStatuses
Live(b) == orders[b].status \in LiveStatuses

\* Mutants: the lookup ignores the client id; it also sees unanswered requests.
MatchesAnyClient(c) == {b \in BrokerIds : Visible(b) /\ c \in ClientIds}
MatchesInFlight(c) == {b \in BrokerIds : Live(b) /\ orders[b].client = c}

\* What find_order_by_client_id matches.
Matches(c) == {b \in BrokerIds : Visible(b) /\ orders[b].client = c}

\* Every request that ever left for the broker for a client order id.
OrdersOf(c) == {b \in BrokerIds : Sent(b) /\ orders[b].client = c}

Remaining(b) == Quantity[orders[b].client] - orders[b].filled

SetOrder(b, s) == orders' = [orders EXCEPT ![b].status = s]

\* submit_order leaves for the broker.
Send(b, c) ==
  /\ ~Sent(b)
  /\ orders' = [orders EXCEPT ![b] = [client |-> c, status |-> "inflight", filled |-> 0]]

\* A request in flight reaches the broker, or never does.
Receive(b) ==
  /\ orders[b].status = "inflight"
  /\ \E s \in {"NEW", "REJECTED", "lost"} : SetOrder(b, s)

FillOne(b) ==
  /\ orders[b].status \in {"NEW", "PARTIALLY_FILLED"}
  /\ orders' = [orders EXCEPT ![b] =
                  [client |-> orders[b].client,
                   status |-> IF Remaining(b) = 1 THEN "FILLED" ELSE "PARTIALLY_FILLED",
                   filled |-> orders[b].filled + 1]]

Cancel(b) ==
  /\ orders[b].status \in {"NEW", "PARTIALLY_FILLED"}
  /\ SetOrder(b, "CANCELLED")

BookStep(b) == Receive(b) \/ FillOne(b) \/ Cancel(b)

-----------------------------------------------------------------------------
\* At most one request per client order id ever leaves for the broker, across
\* timeouts, retries, crashes and restarts (PROJECT_PROGRESS.md:34).
AtMostOneOrder ==
  \A b, d \in BrokerIds :
    Sent(b) /\ Sent(d) /\ orders[b].client = orders[d].client => b = d
=============================================================================
