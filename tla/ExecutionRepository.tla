------------------------- MODULE ExecutionRepository -------------------------
(***************************************************************************)
(* The execution database of transactional_execution_repository.py: the    *)
(* orders, the positions of each account scope, the events applied, the    *)
(* sequence cursors, the identities bound to broker orders and the outbox. *)
(* Every operation is one SQLite transaction under the repository's lock;  *)
(* one that raises is rolled back and changes nothing.                     *)
(*                                                                         *)
(* A scope is a broker account with its route. The symbol of a position is *)
(* fixed by the scope and the price is dropped: no guard depends on them.  *)
(***************************************************************************)
EXTENDS Integers, Sequences, FiniteSets

CONSTANTS Orders,       \* ids of internal orders
          BrokerOrders, \* ids the broker gives to its orders
          Scopes,       \* broker accounts with their routes
          EventIds,     \* ids of execution events
          NoBroker,     \* an order that is not bound
          NoHolder,     \* an outbox row that is not claimed
          ScopeOf,      \* [Orders -> Scopes]
          Total,        \* [Orders -> Nat \ {0}], the quantity ordered
          IsBuy         \* [Orders -> BOOLEAN]

ASSUME RepositoryAssumption ==
  /\ NoBroker \notin BrokerOrders
  /\ ScopeOf \in [Orders -> Scopes]
  /\ Total \in [Orders -> Nat \ {0}]
  /\ IsBuy \in [Orders -> BOOLEAN]

VARIABLES order,      \* the row of each order
          positions,  \* the quantity held in each scope
          events,     \* the events applied
          cursor,     \* the sequence number last consumed by each order
          identity,   \* the broker order each order is bound to
          outbox      \* the messages to publish, in the order of their commit

repository == <<order, positions, events, cursor, identity, outbox>>

NoSeq == -1

OrderStatuses == {"none", "CREATED", "SUBMITTED", "PARTIALLY_FILLED",
                  "FILLED", "CANCELLED", "REJECTED"}

Kinds == {"SUBMITTED", "FILL", "CANCELLED", "REJECTED"}

\* An event as the caller of apply_event gives it and as its row keeps it.
Event == [id: EventIds, order: Orders, kind: Kinds, quantity: Nat,
          scope: Scopes, seq: Nat \cup {NoSeq}]

RepositoryInit ==
  /\ order = [o \in Orders |-> [status |-> "none", filled |-> 0]]
  /\ positions = [s \in Scopes |-> 0]
  /\ events = {}
  /\ cursor = [o \in Orders |-> NoSeq]
  /\ identity = [o \in Orders |-> NoBroker]
  /\ outbox = <<>>

Exists(o) == order[o].status # "none"

InsertOrder(o) ==
  /\ ~Exists(o)
  /\ order' = [order EXCEPT ![o].status = "CREATED"]
  /\ UNCHANGED <<positions, events, cursor, identity, outbox>>

-----------------------------------------------------------------------------
(* Identities.                                                              *)

\* The checks of _bind_identity_tx: the order exists in this scope, is not bound
\* to another broker order, and no other order holds this one.
CanBind(o, b, s) ==
  /\ Exists(o) /\ ScopeOf[o] = s
  /\ identity[o] \in {NoBroker, b}
  /\ \A p \in Orders : identity[p] = b /\ ScopeOf[p] = s => p = o

\* get_identity_by_broker: the order bound to a broker order, at most one.
OrdersBoundTo(b, s) == {o \in Orders : identity[o] = b /\ ScopeOf[o] = s}

-----------------------------------------------------------------------------
(* Applying an event.                                                       *)

\* Mutant of Seen: the lookup of the event id is left out.
NeverSeen(e) == FALSE

\* An event id that was applied before, with the same content or another.
Seen(e) == \E x \in events : x.id = e.id

\* A sequence number that is not above the last one is refused, and so is one that
\* is: the new cursor is inserted beside the old row, whose key it repeats.
CursorAdmits(o, seq) == seq = NoSeq \/ cursor[o] = NoSeq

FillFits(o, q) == q > 0 /\ order[o].filled + q <= Total[o]

\* Every check of _apply_event_tx that raises.
Applicable(e) ==
  /\ Exists(e.order) /\ ScopeOf[e.order] = e.scope
  /\ ~Seen(e)
  /\ CursorAdmits(e.order, e.seq)
  /\ e.kind = "FILL" => FillFits(e.order, e.quantity)

\* The row after the event. An event other than a fill sets the status, whatever
\* it was.
RowAfter(row, e) ==
  CASE e.kind = "FILL" ->
         [filled |-> row.filled + e.quantity,
          status |-> IF row.filled + e.quantity = Total[e.order]
                     THEN "FILLED" ELSE "PARTIALLY_FILLED"]
    [] OTHER -> [row EXCEPT !.status = e.kind]

Delta(e) == IF e.kind # "FILL" THEN 0
            ELSE IF IsBuy[e.order] THEN e.quantity ELSE -e.quantity

NewMessage(e) == [event |-> e.id, state |-> "pending", holder |-> NoHolder]

\* One transaction: the order, the position, the event, the cursor, the outbox.
ApplyEvent(e) ==
  /\ Applicable(e)
  /\ order' = [order EXCEPT ![e.order] = RowAfter(@, e)]
  /\ positions' = [positions EXCEPT ![e.scope] = @ + Delta(e)]
  /\ events' = events \cup {e}
  /\ cursor' = [cursor EXCEPT ![e.order] = IF e.seq = NoSeq THEN @ ELSE e.seq]
  /\ outbox' = Append(outbox, NewMessage(e))

\* apply_event: applied, or a repetition (the answer is False), or refused.
TryEvent(e) ==
  \/ ApplyEvent(e)
  \/ ~Applicable(e) /\ UNCHANGED <<order, positions, events, cursor, outbox>>

-----------------------------------------------------------------------------
(* The outbox. A claim is good until its lease runs out; the row keeps the  *)
(* token until another publisher claims it.                                 *)

OutboxStates == {"pending", "claimed", "lapsed", "published"}

\* Mutant of Claimable: a claim whose lease has run out is never given away.
ClaimableOnce(i) == outbox[i].state = "pending"

Claimable(i) == outbox[i].state \in {"pending", "lapsed"}

ClaimRows(rows, p) ==
  outbox' = [i \in DOMAIN outbox |->
               IF i \in rows THEN [outbox[i] EXCEPT !.state = "claimed", !.holder = p]
               ELSE outbox[i]]

\* mark_published compares the token and not the time.
OwnsRow(i, p) == outbox[i].state \in {"claimed", "lapsed"} /\ outbox[i].holder = p

MarkPublished(i) ==
  outbox' = [outbox EXCEPT ![i].state = "published", ![i].holder = NoHolder]

RepositoryTypeOK ==
  /\ order \in [Orders -> [status: OrderStatuses, filled: Nat]]
  /\ positions \in [Scopes -> Int]
  /\ events \subseteq Event
  /\ cursor \in [Orders -> Nat \cup {NoSeq}]
  /\ identity \in [Orders -> BrokerOrders \cup {NoBroker}]
  /\ \A i \in DOMAIN outbox :
       outbox[i].event \in EventIds /\ outbox[i].state \in OutboxStates
=============================================================================
