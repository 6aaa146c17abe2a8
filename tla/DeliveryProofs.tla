---------------------------- MODULE DeliveryProofs ----------------------------
(***************************************************************************)
(* Proofs about what is delivered and what is made of it: the execution    *)
(* events of EventDelivery, the alerts of HealthAlerts, the candles that    *)
(* the jobs of HistoryFetch are asked for and that CandleBuilding makes of *)
(* ticks, what ChartStructure draws on a chart of them and what            *)
(* ModelTraining learns from them, for any number of threads, publishers,  *)
(* orders, events, feeds, faults, bars and ticks.                          *)
(***************************************************************************)
EXTENDS EventDelivery, HealthAlerts, HistoryFetch, ChartStructure, ModelTraining,
        CandleBuilding, SumTheorems

-----------------------------------------------------------------------------
(* Positions.                                                               *)

USE RepositoryAssumption, DeliveryAssumption

OrderRow == [status : OrderStatuses, filled : Nat]

\* What the fills of a set of events add, and the quantities they are of.
Deltas == [e \in Event |-> Delta(e)]
Quantities == [e \in Event |-> e.quantity]

EventsOf(s) == {e \in events : e.scope = s}
FillsOf(o) == {e \in events : e.order = o /\ e.kind = "FILL"}

\* A callback that will apply an event holds one the broker sent, and its order.
CallbackOK(c) ==
  /\ c.step \in {"resolved", "checked"} => c.message \in Feed /\ c.order \in Orders
  /\ c.step = "checked" => c.order = c.message.client

PositionsInv ==
  /\ order \in [Orders -> OrderRow]
  /\ positions \in [Scopes -> Int]
  /\ events \subseteq Event /\ IsFiniteSet(events)
  /\ callback = [t \in Threads |-> callback[t]]
  /\ \A t \in Threads : CallbackOK(callback[t])
  /\ \A s \in Scopes : positions[s] = SumFunctionOnSet(Deltas, EventsOf(s))
  /\ \A o \in Orders : /\ order[o].filled = SumFunctionOnSet(Quantities, FillsOf(o))
                       /\ order[o].filled <= Total[o]

LEMMA EventSums ==
  /\ \A e \in Event : Deltas[e] \in Int /\ Quantities[e] \in Int /\ Quantities[e] = e.quantity
  /\ \A e \in Event : Deltas[e] = Delta(e)
<1>1. \A e \in Event : Delta(e) \in Int /\ e.quantity \in Nat
  BY DEF Event, Delta
<1>2. QED
  BY <1>1 DEF Deltas, Quantities

LEMMA PositionsInitially == Init => PositionsInv
<1> SUFFICES ASSUME Init PROVE PositionsInv
  OBVIOUS
<1>1. events = {} /\ IsFiniteSet(events)
  BY FS_EmptySet DEF Init, RepositoryInit
<1>2. \A s \in Scopes : EventsOf(s) = {}
  BY <1>1 DEF EventsOf
<1>3. \A o \in Orders : FillsOf(o) = {}
  BY <1>1 DEF FillsOf
<1>4. order \in [Orders -> OrderRow] /\ positions \in [Scopes -> Int]
  BY DEF Init, RepositoryInit, OrderRow, OrderStatuses
<1>5. /\ callback = [t \in Threads |-> callback[t]]
      /\ \A t \in Threads : CallbackOK(callback[t])
  BY DEF Init, CallbackOK, Idle
<1>6. \A s \in Scopes : positions[s] = SumFunctionOnSet(Deltas, EventsOf(s))
  BY <1>2, SumEmpty DEF Init, RepositoryInit
<1>7. \A o \in Orders : /\ order[o].filled = SumFunctionOnSet(Quantities, FillsOf(o))
                        /\ order[o].filled <= Total[o]
  <2>1. \A o \in Orders : order[o].filled = 0 /\ 0 <= Total[o]
    BY DEF Init, RepositoryInit
  <2>2. QED
    BY <1>3, <2>1, SumEmpty
<1>8. QED
  BY <1>1, <1>4, <1>5, <1>6, <1>7 DEF PositionsInv

\* One event applied: the position of its scope moves by what it adds, the order is filled
\* by its quantity, and nothing else changes.
LEMMA AppliedKeepsPositions ==
  ASSUME PositionsInv, NEW e \in Event, ApplyEvent(e),
         callback' = [t \in Threads |-> callback'[t]],
         \A t \in Threads : CallbackOK(callback'[t])
  PROVE  PositionsInv'
<1> DEFINE o == e.order
           s == e.scope
           q == IF e.kind = "FILL" THEN e.quantity ELSE 0
<1>1. o \in Orders /\ s \in Scopes /\ e.quantity \in Nat /\ q \in Nat /\ Delta(e) \in Int
  BY DEF Event, Delta
<1>2. e \notin events
  BY DEF ApplyEvent, Applicable, Seen
<1>3. events' = events \cup {e} /\ IsFiniteSet(events') /\ events' \subseteq Event
  BY FS_AddElement DEF ApplyEvent, PositionsInv
<1>4. order[o] \in OrderRow /\ positions[s] \in Int
  BY <1>1 DEF PositionsInv
<1>5. RowAfter(order[o], e) \in OrderRow /\ RowAfter(order[o], e).filled = order[o].filled + q
  BY <1>1, <1>4 DEF RowAfter, OrderRow, OrderStatuses, Event, Kinds
<1>6. /\ order' \in [Orders -> OrderRow]
      /\ order'[o].filled = order[o].filled + q
      /\ \A p \in Orders \ {o} : order'[p] = order[p]
  BY <1>1, <1>5 DEF ApplyEvent, PositionsInv
<1>7. /\ positions' \in [Scopes -> Int]
      /\ positions'[s] = positions[s] + Delta(e)
      /\ \A z \in Scopes \ {s} : positions'[z] = positions[z]
  BY <1>1, <1>4 DEF ApplyEvent, PositionsInv
<1>8. order[o].filled + q <= Total[o]
  BY <1>1, <1>4 DEF ApplyEvent, Applicable, FillFits, PositionsInv, OrderRow
<1>9. ASSUME NEW z \in Scopes PROVE positions'[z] = SumFunctionOnSet(Deltas, EventsOf(z)')
  <2>1. CASE z = s
    <3>1. EventsOf(z)' = EventsOf(z) \cup {e} /\ e \notin EventsOf(z)
      BY <1>2, <1>3, <2>1 DEF EventsOf
    <3>2. IsFiniteSet(EventsOf(z)) /\ EventsOf(z) \subseteq Event
      BY FS_Subset DEF PositionsInv, EventsOf
    <3>3. SumFunctionOnSet(Deltas, EventsOf(z) \cup {e})
            = Deltas[e] + SumFunctionOnSet(Deltas, EventsOf(z))
      BY <3>1, <3>2, EventSums, SumAdds
    <3>4. positions[z] = SumFunctionOnSet(Deltas, EventsOf(z)) /\ positions[z] \in Int
      BY DEF PositionsInv
    <3>5. QED
      BY <1>1, <1>7, <2>1, <3>1, <3>3, <3>4, EventSums
  <2>2. CASE z # s
    <3>1. EventsOf(z)' = EventsOf(z)
      BY <1>3, <2>2 DEF EventsOf
    <3>2. QED
      BY <1>7, <2>2, <3>1 DEF PositionsInv
  <2>3. QED
    BY <2>1, <2>2
<1>10. ASSUME NEW p \in Orders
       PROVE  /\ order'[p].filled = SumFunctionOnSet(Quantities, FillsOf(p)')
              /\ order'[p].filled <= Total[p]
  <2>1. /\ order[p].filled = SumFunctionOnSet(Quantities, FillsOf(p))
        /\ order[p].filled <= Total[p] /\ order[p].filled \in Nat
    BY DEF PositionsInv, OrderRow
  <2>2. CASE p = o /\ e.kind = "FILL"
    <3>1. FillsOf(p)' = FillsOf(p) \cup {e} /\ e \notin FillsOf(p)
      BY <1>2, <1>3, <2>2 DEF FillsOf
    <3>2. IsFiniteSet(FillsOf(p)) /\ FillsOf(p) \subseteq Event
      BY FS_Subset DEF PositionsInv, FillsOf
    <3>3. SumFunctionOnSet(Quantities, FillsOf(p) \cup {e})
            = Quantities[e] + SumFunctionOnSet(Quantities, FillsOf(p))
      BY <3>1, <3>2, EventSums, SumAdds
    <3>4. Quantities[e] = q /\ order'[p].filled = order[p].filled + q
      BY <1>6, <2>2, EventSums
    <3>5. QED
      BY <1>1, <1>8, <2>1, <2>2, <3>1, <3>3, <3>4
  <2>3. CASE ~(p = o /\ e.kind = "FILL")
    <3>1. FillsOf(p)' = FillsOf(p)
      BY <1>3, <2>3 DEF FillsOf
    <3>2. order'[p].filled = order[p].filled
      BY <1>6, <2>1, <2>3
    <3>3. QED
      BY <2>1, <3>1, <3>2
  <2>4. QED
    BY <2>2, <2>3
<1> HIDE DEF o, s, q
<1>11. QED
  BY <1>3, <1>6, <1>7, <1>9, <1>10 DEF PositionsInv

LEMMA KeptPositions ==
  ASSUME PositionsInv, UNCHANGED <<positions, events>>,
         order' \in [Orders -> OrderRow],
         \A o \in Orders : order'[o].filled = order[o].filled,
         callback' = [t \in Threads |-> callback'[t]],
         \A t \in Threads : CallbackOK(callback'[t])
  PROVE  PositionsInv'
BY DEF PositionsInv, EventsOf, FillsOf

LEMMA TriedEvent ==
  ASSUME PositionsInv, NEW e \in Event, TryEvent(e),
         callback' = [t \in Threads |-> callback'[t]],
         \A t \in Threads : CallbackOK(callback'[t])
  PROVE  PositionsInv'
<1>1. CASE ApplyEvent(e)
  BY <1>1, AppliedKeepsPositions
<1>2. CASE UNCHANGED <<order, positions, events, cursor, outbox>>
  BY <1>2, KeptPositions DEF PositionsInv
<1>3. QED
  BY <1>1, <1>2 DEF TryEvent

\* A thread that turns to c leaves the others as they are.
LEMMA CallbackTurns ==
  ASSUME PositionsInv, NEW t \in Threads, NEW c, CallbackOK(c),
         callback' = [callback EXCEPT ![t] = c]
  PROVE  /\ callback' = [u \in Threads |-> callback'[u]]
         /\ \A u \in Threads : CallbackOK(callback'[u])
<1>1. /\ callback' = [u \in Threads |-> IF u = t THEN c ELSE callback[u]]
      /\ \A u \in Threads : CallbackOK(callback[u])
  BY DEF PositionsInv
<1>2. QED
  BY <1>1

LEMMA IdleIsOK == CallbackOK(Idle)
BY DEF CallbackOK, Idle

LEMMA CallbackPositions ==
  ASSUME PositionsInv, NEW t \in Threads, CallbackStep(t) PROVE PositionsInv'
<1> DEFINE Turned == /\ callback' = [u \in Threads |-> callback'[u]]
                     /\ \A u \in Threads : CallbackOK(callback'[u])
<1>1. ASSUME NEW m \in Feed, NEW path, Resolve(t, m, path) PROVE PositionsInv'
  <2>1. \E c : CallbackOK(c) /\ callback' = [callback EXCEPT ![t] = c]
    BY <1>1 DEF Resolve, CallbackOK, OrdersBoundTo
  <2>2. Turned
    BY <2>1, CallbackTurns
  <2>3. QED
    BY <1>1, <2>2, KeptPositions DEF Resolve, repository, PositionsInv
<1>2. ASSUME NEW m \in Feed, BridgeCheck(t, m) PROVE PositionsInv'
  <2>1. \E c : CallbackOK(c) /\ callback' = [callback EXCEPT ![t] = c]
    BY <1>2 DEF BridgeCheck, CallbackOK
  <2>2. Turned
    BY <2>1, CallbackTurns
  <2>3. QED
    BY <1>2, <2>2, KeptPositions DEF BridgeCheck, repository, PositionsInv
<1>3. ASSUME Quarantine(t) \/ DropCallback(t) PROVE PositionsInv'
  <2>1. Turned
    BY <1>3, CallbackTurns, IdleIsOK DEF Quarantine, DropCallback
  <2>2. QED
    BY <1>3, <2>1, KeptPositions DEF Quarantine, DropCallback, repository, PositionsInv
<1>4. ASSUME Dispatch(t) PROVE PositionsInv'
  <2>1. Turned
    BY <1>4, CallbackTurns, IdleIsOK DEF Dispatch
  <2>2. callback[t].message \in Feed /\ callback[t].order \in Orders
    BY <1>4 DEF Dispatch, PositionsInv, CallbackOK
  <2>3. Dispatched(callback[t].message, callback[t].order) \in Event
    BY <2>2 DEF Dispatched, Event, EventKind, Kinds
  <2>4. CASE TryEvent(Dispatched(callback[t].message, callback[t].order))
    BY <2>1, <2>3, <2>4, TriedEvent
  <2>5. CASE UNCHANGED <<order, positions, events, cursor, outbox>>
    BY <2>1, <2>5, KeptPositions DEF PositionsInv
  <2>6. QED
    BY <1>4, <2>4, <2>5 DEF Dispatch
<1>5. ASSUME BridgeApply(t) PROVE PositionsInv'
  <2>1. Turned
    BY <1>5, CallbackTurns, IdleIsOK DEF BridgeApply
  <2>2. callback[t].message \in Feed /\ callback[t].message.client \in Orders
    BY <1>5 DEF BridgeApply, PositionsInv, CallbackOK
  <2>3. Sequenced(callback[t].message) \in Event
    BY <2>2 DEF Sequenced, Dispatched, Event, EventKind, Kinds
  <2>4. QED
    BY <1>5, <2>1, <2>3, TriedEvent DEF BridgeApply
<1>6. QED
  BY <1>1, <1>2, <1>3, <1>4, <1>5 DEF CallbackStep

LEMMA PositionsPreserved == PositionsInv /\ [Next]_vars => PositionsInv'
<1> SUFFICES ASSUME PositionsInv, [Next]_vars PROVE PositionsInv'
  OBVIOUS
<1>1. ASSUME NEW o \in Orders, CreateOrder(o) PROVE PositionsInv'
  <2>1. order' = [order EXCEPT ![o].status = "CREATED"] /\ order[o] \in OrderRow
    BY <1>1 DEF CreateOrder, InsertOrder, PositionsInv
  <2>2. [order[o] EXCEPT !.status = "CREATED"] \in OrderRow
    BY <2>1 DEF OrderRow, OrderStatuses
  <2>3. order' \in [Orders -> OrderRow] /\ \A p \in Orders : order'[p].filled = order[p].filled
    BY <2>1, <2>2 DEF PositionsInv, OrderRow
  <2>4. QED
    BY <1>1, <2>3, KeptPositions DEF CreateOrder, InsertOrder, PositionsInv
<1>2. ASSUME NEW t \in Threads, CallbackStep(t) PROVE PositionsInv'
  BY <1>2, CallbackPositions
<1>3. CASE UNCHANGED <<order, positions, events, callback>>
  BY <1>3, KeptPositions DEF PositionsInv
<1>4. ASSUME NEW p \in Publishers,
             PublisherStep(p) \/ PublisherStops(p) \/ PublisherDiesInHandler(p)
      PROVE  UNCHANGED <<order, positions, events, callback>>
  BY <1>4 DEF PublisherStep, PublisherStops, PublisherDiesInHandler, Claim, Publish, Mark,
     repository
<1>5. Drain => UNCHANGED <<order, positions, events, callback>>
  BY DEF Drain, repository
<1>6. \A i \in DOMAIN outbox :
        LeaseRunsOut(i) \/ LeaseTooShort(i) => UNCHANGED <<order, positions, events, callback>>
  BY DEF LeaseRunsOut, LeaseTooShort
<1>7. \A o, b : Bind(o, b) => UNCHANGED <<order, positions, events, callback>>
  BY DEF Bind
<1>8. UNCHANGED vars => UNCHANGED <<order, positions, events, callback>>
  BY DEF vars, repository
<1>9. QED
  BY <1>1, <1>2, <1>3, <1>4, <1>5, <1>6, <1>7, <1>8 DEF Next

LEMMA InvGivesPositions == PositionsInv => PositionsAreTheFills
<1> SUFFICES ASSUME PositionsInv PROVE PositionsAreTheFills
  OBVIOUS
<1> DEFINE deltas == [e \in events |-> Delta(e)]
           quantities == [e \in events |-> e.quantity]
<1>1. \A S \in SUBSET events : IsFiniteSet(S)
  BY FS_Subset DEF PositionsInv
<1>2. ASSUME NEW S \in SUBSET events
      PROVE  /\ SumFunctionOnSet(deltas, S) = SumFunctionOnSet(Deltas, S)
             /\ SumFunctionOnSet(quantities, S) = SumFunctionOnSet(Quantities, S)
  <2>1. \A e \in S : /\ Deltas[e] \in Int /\ deltas[e] = Deltas[e]
                     /\ Quantities[e] \in Int /\ quantities[e] = Quantities[e]
    BY EventSums DEF PositionsInv
  <2> HIDE DEF deltas, quantities
  <2>2. QED
    BY <1>1, <2>1, SumOfEqual
<1>3. /\ \A s \in Scopes : EventsOf(s) \in SUBSET events
      /\ \A o \in Orders : FillsOf(o) \in SUBSET events
  BY DEF EventsOf, FillsOf
<1> HIDE DEF deltas, quantities
<1>4. /\ \A s \in Scopes : positions[s] = SumFunctionOnSet(deltas, EventsOf(s))
      /\ \A o \in Orders : /\ order[o].filled = SumFunctionOnSet(quantities, FillsOf(o))
                           /\ order[o].filled <= Total[o]
  BY <1>2, <1>3 DEF PositionsInv
<1>5. QED
  BY <1>4 DEF PositionsAreTheFills, deltas, quantities, EventsOf, FillsOf

\* However often, in whatever order and on whatever path any number of threads deliver the
\* events of a broker, positions are the sums of the fills recorded, and no order is filled
\* beyond its quantity (_apply_event_tx of transactional_execution_repository.py).
THEOREM PositionsAreTheFillsCorrect == Spec => []PositionsAreTheFills
<1>1. Spec => []PositionsInv
  BY PositionsInitially, PositionsPreserved, PTL DEF Spec
<1>2. QED
  BY <1>1, InvGivesPositions, PTL

-----------------------------------------------------------------------------
(* Acknowledgements and effects.                                            *)

Message == [event : EventIds, state : OutboxStates, holder : Publishers \cup {NoHolder}]

\* What publisher r has claimed and not yet acknowledged is in the outbox, and the message
\* it is about to acknowledge has been consumed.
PublisherOK(r, box, eaten) ==
  /\ r.batch \subseteq DOMAIN box
  /\ r.step # "idle" => r.batch # {}
  /\ r.step = "mark" => box[Min(r.batch)].event \in eaten

\* A callback holds a message the broker sent, or none.
Holds(c) ==
  /\ c.step \in {"resolved", "checked"} => c.message \in Feed
  /\ c.message \in Feed \cup {NoMessage}

CallbacksOK(cb) ==
  /\ cb = [t \in Threads |-> cb[t]]
  /\ \A t \in Threads : Holds(cb[t])

ConsumerInv ==
  /\ outbox \in Seq(Message)
  /\ effects \in [EventIds -> Nat] /\ repeats \in [EventIds -> Nat]
  /\ publisher = [p \in Publishers |-> publisher[p]]
  /\ \A p \in Publishers : PublisherOK(publisher[p], outbox, consumed)
  /\ CallbacksOK(callback)
  /\ ConsumerSeesEachEventOnce

\* Counting what is not counted changes nothing.
LEMMA SameUnlessThere ==
  ASSUME NEW f \in [EventIds -> Nat], NEW e, e \notin EventIds
  PROVE  [f EXCEPT ![e] = @ + 1] = f
OBVIOUS

\* The least of a set of numbers is one of them.
LEMMA LeastIsIn == ASSUME NEW S, S \subseteq Nat, S # {} PROVE Min(S) \in S
BY LeastNumber DEF Min

\* Messages only join the outbox, and keep their events.
OutboxKeeps ==
  /\ outbox' \in Seq(Message)
  /\ DOMAIN outbox \subseteq DOMAIN outbox'
  /\ \A i \in DOMAIN outbox : outbox'[i].event = outbox[i].event

\* No message is acknowledged in this step.
NoneAcknowledged ==
  \A i \in DOMAIN outbox' :
    outbox'[i].state = "published" => i \in DOMAIN outbox /\ outbox'[i] = outbox[i]

LEMMA PublisherStays ==
  ASSUME ConsumerInv, OutboxKeeps, consumed \subseteq consumed', NEW p \in Publishers
  PROVE  PublisherOK(publisher[p], outbox', consumed')
<1>1. DOMAIN outbox \subseteq Nat /\ PublisherOK(publisher[p], outbox, consumed)
  BY DEF ConsumerInv
<1>2. publisher[p].step = "mark" => Min(publisher[p].batch) \in DOMAIN outbox
  BY <1>1, LeastIsIn DEF PublisherOK
<1>3. QED
  BY <1>1, <1>2 DEF PublisherOK, OutboxKeeps

\* A publisher that turns to r leaves the others as they are.
LEMMA PublisherTurns ==
  ASSUME ConsumerInv, OutboxKeeps, consumed \subseteq consumed',
         NEW p \in Publishers, NEW r, publisher' = [publisher EXCEPT ![p] = r],
         PublisherOK(r, outbox', consumed')
  PROVE  /\ publisher' = [q \in Publishers |-> publisher'[q]]
         /\ \A q \in Publishers : PublisherOK(publisher'[q], outbox', consumed')
<1>1. \A q \in Publishers : publisher'[q] = IF q = p THEN r ELSE publisher[q]
  BY DEF ConsumerInv
<1>2. \A q \in Publishers : PublisherOK(publisher[q], outbox', consumed')
  BY PublisherStays
<1>3. publisher' = [q \in Publishers |-> publisher'[q]]
  BY DEF ConsumerInv
<1>4. QED
  BY <1>1, <1>2, <1>3

\* Steps that leave the consumer's database alone, and acknowledge what it holds.
LEMMA ConsumerRests ==
  ASSUME ConsumerInv, OutboxKeeps, UNCHANGED consumed,
         \A i \in DOMAIN outbox' : outbox'[i].state = "published" =>
           outbox'[i].event \in consumed,
         effects' \in [EventIds -> Nat], repeats' \in [EventIds -> Nat],
         \A e \in EventIds : effects'[e] - repeats'[e] = effects[e] - repeats[e],
         publisher' = [p \in Publishers |-> publisher'[p]],
         \A p \in Publishers : PublisherOK(publisher'[p], outbox', consumed'),
         CallbacksOK(callback')
  PROVE  ConsumerInv'
<1>1. ConsumerSeesEachEventOnce'
  BY DEF ConsumerInv, ConsumerSeesEachEventOnce
<1>2. QED
  BY <1>1 DEF ConsumerInv, OutboxKeeps

\* What a publisher does is all that changes.
LEMMA SameOutbox == ASSUME ConsumerInv, UNCHANGED outbox PROVE OutboxKeeps
BY DEF ConsumerInv, OutboxKeeps

LEMMA AppendKeeps ==
  ASSUME ConsumerInv, NEW m \in Message, outbox' = Append(outbox, m), m.state # "published"
  PROVE  OutboxKeeps /\ NoneAcknowledged
<1>1. outbox \in Seq(Message) /\ outbox' \in Seq(Message)
  BY DEF ConsumerInv
<1>2. DOMAIN outbox = 1 .. Len(outbox) /\ DOMAIN outbox' = 1 .. Len(outbox) + 1
  BY <1>1
<1>3. /\ \A i \in DOMAIN outbox : outbox'[i] = outbox[i]
      /\ outbox'[Len(outbox) + 1] = m
  BY <1>1, <1>2
<1>4. QED
  BY <1>1, <1>2, <1>3 DEF OutboxKeeps, NoneAcknowledged

\* Rows whose state and holder change keep their places.
LEMMA RowsKeep ==
  ASSUME ConsumerInv, NEW S, S \subseteq DOMAIN outbox,
         outbox' = [i \in DOMAIN outbox |-> IF i \in S THEN outbox'[i] ELSE outbox[i]],
         \A i \in S : outbox'[i] \in Message /\ outbox'[i].event = outbox[i].event
  PROVE  OutboxKeeps /\ DOMAIN outbox' = DOMAIN outbox
<1>1. outbox \in Seq(Message) /\ Len(outbox) \in Nat /\ DOMAIN outbox = 1 .. Len(outbox)
  BY DEF ConsumerInv
<1>2. \A i \in DOMAIN outbox : outbox'[i] \in Message
  BY <1>1
<1>3. outbox' \in [1 .. Len(outbox) -> Message]
  BY <1>1, <1>2
<1>4. outbox' \in Seq(Message)
  BY <1>1, <1>3
<1>5. QED
  BY <1>1, <1>3, <1>4 DEF OutboxKeeps

LEMMA CallbackConsumer ==
  ASSUME ConsumerInv, NEW t \in Threads, CallbackStep(t) PROVE ConsumerInv'
<1>1. UNCHANGED <<publisher, consumed, effects, repeats>>
  BY DEF CallbackStep, Resolve, BridgeCheck, Quarantine, Dispatch, BridgeApply, DropCallback,
     delivery
<1>2. CallbacksOK(callback')
  <2>1. \E c : Holds(c) /\ callback' = [callback EXCEPT ![t] = c]
    <3>1. ASSUME NEW m \in Feed, NEW path, Resolve(t, m, path)
          PROVE  \E c : Holds(c) /\ callback' = [callback EXCEPT ![t] = c]
      BY <3>1 DEF Resolve, Holds
    <3>2. ASSUME NEW m \in Feed, BridgeCheck(t, m)
          PROVE  \E c : Holds(c) /\ callback' = [callback EXCEPT ![t] = c]
      BY <3>2 DEF BridgeCheck, Holds
    <3>3. Holds(Idle)
      BY DEF Idle, Holds
    <3>4. QED
      BY <3>1, <3>2, <3>3 DEF CallbackStep, Quarantine, Dispatch, BridgeApply, DropCallback
  <2>2. PICK c : Holds(c) /\ callback' = [callback EXCEPT ![t] = c]
    BY <2>1
  <2>3. CallbacksOK(callback)
    BY DEF ConsumerInv
  <2>4. \A u \in Threads : callback'[u] = IF u = t THEN c ELSE callback[u]
    BY <2>2, <2>3 DEF CallbacksOK
  <2>5. callback' = [u \in Threads |-> callback'[u]]
    BY <2>2, <2>3 DEF CallbacksOK
  <2>6. QED
    BY <2>2, <2>3, <2>4, <2>5 DEF CallbacksOK
<1>3. UNCHANGED outbox \/ \E e \in EventIds : outbox' = Append(outbox, [event |-> e, state |-> "pending", holder |-> NoHolder])
  <2>1. CASE Dispatch(t)
    <3>1. callback[t].message.id \in EventIds
      BY <2>1 DEF Dispatch, ConsumerInv, CallbacksOK, Holds
    <3>2. QED
      BY <2>1, <3>1 DEF Dispatch, TryEvent, ApplyEvent, NewMessage, Dispatched
  <2>2. CASE BridgeApply(t)
    <3>1. callback[t].message.id \in EventIds
      BY <2>2 DEF BridgeApply, ConsumerInv, CallbacksOK, Holds
    <3>2. QED
      BY <2>2, <3>1 DEF BridgeApply, TryEvent, ApplyEvent, NewMessage, Sequenced, Dispatched
  <2>3. CASE UNCHANGED repository
    BY <2>3 DEF repository
  <2>4. QED
    BY <2>1, <2>2, <2>3 DEF CallbackStep, Resolve, BridgeCheck, Quarantine, DropCallback
<1>4. OutboxKeeps /\ NoneAcknowledged
  <2>1. CASE UNCHANGED outbox
    BY <2>1, SameOutbox DEF NoneAcknowledged
  <2>2. ASSUME NEW e \in EventIds,
               outbox' = Append(outbox, [event |-> e, state |-> "pending", holder |-> NoHolder])
        PROVE  OutboxKeeps /\ NoneAcknowledged
    <3>1. [event |-> e, state |-> "pending", holder |-> NoHolder] \in Message
      BY DEF Message, OutboxStates
    <3>2. QED
      BY <2>2, <3>1, AppendKeeps
  <2>3. QED
    BY <1>3, <2>1, <2>2
<1>5. \A i \in DOMAIN outbox' : outbox'[i].state = "published" => outbox'[i].event \in consumed
  BY <1>4 DEF ConsumerInv, ConsumerSeesEachEventOnce, NoneAcknowledged
<1>6. \A p \in Publishers : PublisherOK(publisher'[p], outbox', consumed')
  BY <1>1, <1>4, PublisherStays
<1>7. QED
  BY <1>1, <1>2, <1>4, <1>5, <1>6, ConsumerRests DEF ConsumerInv

LEMMA ClaimConsumer == ASSUME ConsumerInv, NEW p \in Publishers, Claim(p) PROVE ConsumerInv'
<1> DEFINE rows == {i \in DOMAIN outbox : Claimable(i)}
<1>1. /\ rows \subseteq DOMAIN outbox /\ rows # {}
      /\ outbox' = [i \in DOMAIN outbox |->
               IF i \in rows THEN [outbox[i] EXCEPT !.state = "claimed", !.holder = p]
               ELSE outbox[i]]
      /\ publisher' = [publisher EXCEPT ![p] = [step |-> "publish", batch |-> rows]]
      /\ UNCHANGED <<callback, consumed, effects, repeats>>
  BY DEF Claim, ClaimRows, GoPublish
<1> HIDE DEF rows
<1>2. \A i \in rows : /\ outbox'[i] = [outbox[i] EXCEPT !.state = "claimed", !.holder = p]
                      /\ outbox[i] \in Message
  <2>1. outbox \in Seq(Message) /\ rows \subseteq DOMAIN outbox
    BY <1>1 DEF ConsumerInv
  <2>2. \A i \in DOMAIN outbox : outbox[i] \in Message
    BY <2>1
  <2>3. QED
    BY <1>1, <2>1, <2>2
<1>3. \A i \in rows : /\ outbox'[i] \in Message /\ outbox'[i].event = outbox[i].event
                      /\ outbox'[i].state = "claimed"
  <2>1. ASSUME NEW i \in rows
        PROVE  /\ outbox'[i] \in Message /\ outbox'[i].event = outbox[i].event
               /\ outbox'[i].state = "claimed"
    <3>1. /\ outbox'[i] = [outbox[i] EXCEPT !.state = "claimed", !.holder = p]
          /\ outbox[i] \in Message
      BY <1>2
    <3>2. QED
      BY <3>1 DEF Message, OutboxStates
  <2>2. QED
    BY <2>1
<1>4. OutboxKeeps /\ DOMAIN outbox' = DOMAIN outbox
  <2>1. outbox' = [i \in DOMAIN outbox |-> IF i \in rows THEN outbox'[i] ELSE outbox[i]]
    BY <1>1
  <2>2. QED
    BY <1>1, <1>3, <2>1, RowsKeep
<1>5. \A i \in DOMAIN outbox' : outbox'[i].state = "published" => outbox'[i].event \in consumed
  BY <1>1, <1>3, <1>4 DEF ConsumerInv, ConsumerSeesEachEventOnce
<1>6. PublisherOK([step |-> "publish", batch |-> rows], outbox', consumed')
  BY <1>1, <1>4 DEF PublisherOK
<1>7. /\ publisher' = [q \in Publishers |-> publisher'[q]]
      /\ \A q \in Publishers : PublisherOK(publisher'[q], outbox', consumed')
  BY <1>1, <1>4, <1>6, PublisherTurns
<1>8. QED
  BY <1>1, <1>4, <1>5, <1>7, ConsumerRests DEF ConsumerInv

\* The consumer takes an event: its handler runs when the id is new.
LEMMA ConsumeOnce ==
  ASSUME ConsumerInv, NEW e, Consume(e), UNCHANGED <<outbox, repeats, callback>>,
         publisher' = [p \in Publishers |-> publisher'[p]],
         \A p \in Publishers : PublisherOK(publisher'[p], outbox', consumed')
  PROVE  ConsumerInv'
<1>1. effects' \in [EventIds -> Nat] /\ consumed' = consumed \cup {e}
  <2>1. effects \in [EventIds -> Nat]
    BY DEF ConsumerInv
  <2>2. CASE e \in EventIds
    BY <2>1, <2>2 DEF Consume
  <2>3. CASE e \notin EventIds
    BY <2>1, <2>3, SameUnlessThere DEF Consume
  <2>4. QED
    BY <2>2, <2>3
<1>2. ASSUME NEW d \in EventIds
      PROVE  effects'[d] = repeats'[d] + (IF d \in consumed' THEN 1 ELSE 0)
  <2>1. /\ effects[d] = repeats[d] + (IF d \in consumed THEN 1 ELSE 0)
        /\ effects[d] \in Nat /\ repeats[d] \in Nat
    BY DEF ConsumerInv, ConsumerSeesEachEventOnce
  <2>2. effects'[d] = IF d = e /\ e \notin consumed THEN effects[d] + 1 ELSE effects[d]
    BY DEF Consume, ConsumerInv
  <2>3. QED
    BY <1>1, <2>1, <2>2
<1>3. \A i \in DOMAIN outbox' : outbox'[i].state = "published" => outbox'[i].event \in consumed'
  BY <1>1 DEF ConsumerInv, ConsumerSeesEachEventOnce
<1>4. QED
  BY <1>1, <1>2, <1>3 DEF ConsumerInv, ConsumerSeesEachEventOnce

LEMMA PublishConsumer == ASSUME ConsumerInv, NEW p \in Publishers, Publish(p) PROVE ConsumerInv'
<1>1. /\ Consume(outbox[Current(p)].event) /\ UNCHANGED <<outbox, repeats, callback>>
      /\ publisher' = [publisher EXCEPT ![p] = [step |-> "mark", batch |-> publisher[p].batch]]
      /\ publisher[p].step = "publish"
  BY DEF Publish, GoPublish, repository
<1>2. consumed' = consumed \cup {outbox[Current(p)].event}
  BY <1>1 DEF Consume
<1>3. PublisherOK([step |-> "mark", batch |-> publisher[p].batch], outbox', consumed')
  BY <1>1, <1>2 DEF PublisherOK, ConsumerInv, Current
<1>4. QED
  BY <1>1, <1>2, <1>3, SameOutbox, PublisherTurns, ConsumeOnce

LEMMA DrainConsumer == ASSUME ConsumerInv, Drain PROVE ConsumerInv'
<1>1. PICK e : Consume(e) /\ UNCHANGED <<outbox, publisher, repeats, callback>>
  BY DEF Drain, repository
<1>2. consumed \subseteq consumed'
  BY <1>1 DEF Consume
<1>3. \A p \in Publishers : PublisherOK(publisher'[p], outbox', consumed')
  BY <1>1, <1>2, SameOutbox, PublisherStays
<1>4. QED
  BY <1>1, <1>3, ConsumeOnce DEF ConsumerInv

LEMMA MarkConsumer == ASSUME ConsumerInv, NEW p \in Publishers, Mark(p) PROVE ConsumerInv'
<1> DEFINE i == Current(p)
           rest == publisher[p].batch \ {i}
<1>1. /\ publisher[p].step = "mark" /\ UNCHANGED <<callback, consumed, effects, repeats>>
      /\ \/ /\ outbox' = [outbox EXCEPT ![i].state = "published", ![i].holder = NoHolder]
            /\ publisher' = [publisher EXCEPT ![p] =
                 [step |-> IF rest = {} THEN "idle" ELSE "publish", batch |-> rest]]
         \/ /\ UNCHANGED outbox
            /\ publisher' = [publisher EXCEPT ![p] = [step |-> "idle", batch |-> {}]]
  BY DEF Mark, MarkPublished, GoPublish
<1>2. /\ publisher[p].batch \subseteq DOMAIN outbox /\ publisher[p].batch # {}
      /\ outbox[i].event \in consumed
  BY <1>1 DEF ConsumerInv, PublisherOK, Current
<1>3. i \in DOMAIN outbox /\ rest \subseteq DOMAIN outbox
  <2>1. DOMAIN outbox \subseteq Nat
    BY DEF ConsumerInv
  <2>2. QED
    BY <1>2, <2>1, LeastIsIn DEF Current
<1> HIDE DEF i, rest
<1>4. CASE UNCHANGED outbox /\ publisher' = [publisher EXCEPT ![p] = [step |-> "idle", batch |-> {}]]
  <2>1. PublisherOK([step |-> "idle", batch |-> {}], outbox', consumed')
    BY DEF PublisherOK
  <2>2. /\ publisher' = [q \in Publishers |-> publisher'[q]]
        /\ \A q \in Publishers : PublisherOK(publisher'[q], outbox', consumed')
    BY <1>1, <1>4, <2>1, SameOutbox, PublisherTurns
  <2>3. \A j \in DOMAIN outbox' : outbox'[j].state = "published" => outbox'[j].event \in consumed
    BY <1>4 DEF ConsumerInv, ConsumerSeesEachEventOnce
  <2>4. QED
    BY <1>1, <1>4, <2>2, <2>3, SameOutbox, ConsumerRests DEF ConsumerInv
<1>5. CASE /\ outbox' = [outbox EXCEPT ![i].state = "published", ![i].holder = NoHolder]
           /\ publisher' = [publisher EXCEPT ![p] =
                [step |-> IF rest = {} THEN "idle" ELSE "publish", batch |-> rest]]
  <2>1. outbox[i] \in Message /\ outbox \in Seq(Message)
    BY <1>3 DEF ConsumerInv
  <2>2. outbox'[i] = [outbox[i] EXCEPT !.state = "published", !.holder = NoHolder]
    BY <1>3, <1>5, <2>1
  <2>3. outbox'[i] \in Message /\ outbox'[i].event = outbox[i].event
    BY <2>1, <2>2 DEF Message, OutboxStates
  <2>4. outbox' = [j \in DOMAIN outbox |-> IF j \in {i} THEN outbox'[j] ELSE outbox[j]]
    BY <1>3, <1>5, <2>1
  <2>5. OutboxKeeps /\ DOMAIN outbox' = DOMAIN outbox
    BY <1>3, <2>3, <2>4, RowsKeep
  <2>6. \A j \in DOMAIN outbox' : outbox'[j].state = "published" => outbox'[j].event \in consumed
    BY <1>2, <2>3, <2>4, <2>5 DEF ConsumerInv, ConsumerSeesEachEventOnce
  <2>7. PublisherOK([step |-> IF rest = {} THEN "idle" ELSE "publish", batch |-> rest],
                    outbox', consumed')
    BY <1>3, <2>5 DEF PublisherOK
  <2>8. /\ publisher' = [q \in Publishers |-> publisher'[q]]
        /\ \A q \in Publishers : PublisherOK(publisher'[q], outbox', consumed')
    BY <1>1, <1>5, <2>5, <2>7, PublisherTurns
  <2>9. QED
    BY <1>1, <2>5, <2>6, <2>8, ConsumerRests DEF ConsumerInv
<1>6. QED
  BY <1>1, <1>4, <1>5

LEMMA StopConsumer ==
  ASSUME ConsumerInv, NEW p \in Publishers, PublisherStops(p) \/ PublisherDiesInHandler(p)
  PROVE  ConsumerInv'
<1>1. /\ publisher' = [publisher EXCEPT ![p] = [step |-> "idle", batch |-> {}]]
      /\ UNCHANGED <<outbox, callback, consumed>>
      /\ \/ UNCHANGED <<effects, repeats>>
         \/ \E e : /\ effects' = [effects EXCEPT ![e] = @ + 1]
                   /\ repeats' = [repeats EXCEPT ![e] = @ + 1]
  BY DEF PublisherStops, PublisherDiesInHandler, GoPublish, repository
<1>2. /\ effects' \in [EventIds -> Nat] /\ repeats' \in [EventIds -> Nat]
      /\ \A e \in EventIds : effects'[e] - repeats'[e] = effects[e] - repeats[e]
  <2>1. effects \in [EventIds -> Nat] /\ repeats \in [EventIds -> Nat]
    BY DEF ConsumerInv
  <2>2. ASSUME NEW e \in EventIds, effects' = [effects EXCEPT ![e] = @ + 1],
               repeats' = [repeats EXCEPT ![e] = @ + 1]
        PROVE  /\ effects' \in [EventIds -> Nat] /\ repeats' \in [EventIds -> Nat]
               /\ \A d \in EventIds : effects'[d] - repeats'[d] = effects[d] - repeats[d]
    BY <2>1, <2>2
  <2>3. QED
    BY <1>1, <2>1, <2>2, SameUnlessThere
<1>3. PublisherOK([step |-> "idle", batch |-> {}], outbox', consumed')
  BY DEF PublisherOK
<1>4. /\ publisher' = [q \in Publishers |-> publisher'[q]]
      /\ \A q \in Publishers : PublisherOK(publisher'[q], outbox', consumed')
  BY <1>1, <1>3, SameOutbox, PublisherTurns
<1>5. \A j \in DOMAIN outbox' : outbox'[j].state = "published" => outbox'[j].event \in consumed
  BY <1>1 DEF ConsumerInv, ConsumerSeesEachEventOnce
<1>6. QED
  BY <1>1, <1>2, <1>4, <1>5, SameOutbox, ConsumerRests DEF ConsumerInv

LEMMA LapseConsumer ==
  ASSUME ConsumerInv, NEW i \in DOMAIN outbox, LeaseRunsOut(i) \/ LeaseTooShort(i)
  PROVE  ConsumerInv'
<1>1. /\ outbox' = [outbox EXCEPT ![i].state = "lapsed"]
      /\ UNCHANGED <<publisher, callback, consumed, effects, repeats>>
  BY DEF LeaseRunsOut, LeaseTooShort, Lapse, delivery
<1>2. outbox[i] \in Message /\ outbox \in Seq(Message)
  BY DEF ConsumerInv
<1>3. outbox'[i] = [outbox[i] EXCEPT !.state = "lapsed"]
  BY <1>1, <1>2
<1>4. outbox'[i] \in Message /\ outbox'[i].event = outbox[i].event /\ outbox'[i].state = "lapsed"
  BY <1>2, <1>3 DEF Message, OutboxStates
<1>5. outbox' = [j \in DOMAIN outbox |-> IF j \in {i} THEN outbox'[j] ELSE outbox[j]]
  BY <1>1, <1>2
<1>6. OutboxKeeps /\ DOMAIN outbox' = DOMAIN outbox
  BY <1>4, <1>5, RowsKeep
<1>7. \A j \in DOMAIN outbox' : outbox'[j].state = "published" => outbox'[j].event \in consumed
  BY <1>4, <1>5, <1>6 DEF ConsumerInv, ConsumerSeesEachEventOnce
<1>8. \A q \in Publishers : PublisherOK(publisher'[q], outbox', consumed')
  BY <1>1, <1>6, PublisherStays
<1>9. QED
  BY <1>1, <1>6, <1>7, <1>8, ConsumerRests DEF ConsumerInv

LEMMA ConsumerPreserved == ConsumerInv /\ [Next]_vars => ConsumerInv'
<1> SUFFICES ASSUME ConsumerInv, [Next]_vars PROVE ConsumerInv'
  OBVIOUS
<1>1. ASSUME UNCHANGED <<outbox, callback, publisher, consumed, effects, repeats>>
      PROVE  ConsumerInv'
  <2>1. \A q \in Publishers : PublisherOK(publisher'[q], outbox', consumed')
    BY <1>1 DEF ConsumerInv
  <2>2. ConsumerSeesEachEventOnce'
    BY <1>1 DEF ConsumerInv, ConsumerSeesEachEventOnce
  <2>3. QED
    BY <1>1, <2>1, <2>2 DEF ConsumerInv
<1>2. ASSUME NEW t \in Threads, CallbackStep(t) PROVE ConsumerInv'
  BY <1>2, CallbackConsumer
<1>3. ASSUME NEW p \in Publishers,
             PublisherStep(p) \/ PublisherStops(p) \/ PublisherDiesInHandler(p)
      PROVE  ConsumerInv'
  BY <1>3, ClaimConsumer, PublishConsumer, MarkConsumer, StopConsumer DEF PublisherStep
<1>4. CASE \E o \in Orders : CreateOrder(o) \/ \E b \in BrokerOrders : Bind(o, b)
  BY <1>1, <1>4 DEF CreateOrder, InsertOrder, Bind, delivery
<1>5. CASE UNCHANGED vars
  BY <1>1, <1>5 DEF vars, repository
<1>6. QED
  BY <1>2, <1>3, <1>4, <1>5, DrainConsumer, LapseConsumer DEF Next

LEMMA ConsumerInitially == Init => ConsumerInv
<1> SUFFICES ASSUME Init PROVE ConsumerInv
  OBVIOUS
<1>1. outbox = <<>> /\ outbox \in Seq(Message)
  BY DEF Init, RepositoryInit
<1>2. \A p \in Publishers : PublisherOK(publisher[p], outbox, consumed)
  BY DEF Init, PublisherOK
<1>3. CallbacksOK(callback)
  BY DEF Init, CallbacksOK, Holds, Idle
<1>4. ConsumerSeesEachEventOnce
  BY <1>1 DEF Init, ConsumerSeesEachEventOnce
<1>5. QED
  BY <1>1, <1>2, <1>3, <1>4 DEF ConsumerInv, Init

\* Whichever publisher dies, fails, is slow or loses its claim to another: an acknowledged
\* message was consumed, and the consumer's handler ran once for an event, but for the
\* crashes between the handler and its commit (durable_execution_consumer.py).
THEOREM ConsumerSeesEachEventOnceCorrect == Spec => []ConsumerSeesEachEventOnce
<1>1. ConsumerInv => ConsumerSeesEachEventOnce
  BY DEF ConsumerInv
<1>2. QED
  BY <1>1, ConsumerInitially, ConsumerPreserved, PTL DEF Spec

HIDE RepositoryAssumption
HIDE DeliveryAssumption

-----------------------------------------------------------------------------
(* Health alerts.                                                           *)

USE HealthAlertsAssumption

HealthOf == [status : {"HEALTHY", "DEGRADED", "CRITICAL"},
             reasons : SUBSET {"BROKER_FAILURE", "BROKER_LATENCY_HIGH",
                               "RECOVERY_LATENCY_HIGH", "QUARANTINE_RATE_HIGH"}]

HookOf == [step : {"idle", "snapshot", "evaluate", "decide"}, snapshot : HealthOf,
           at : Int, previous : Int]

\* What is remembered as sent was sent, and it was sent before now.
SentOK(sent, alerts, now) ==
  \A f \in DOMAIN sent : sent[f] \in 0..now /\ [fingerprint |-> f, at |-> sent[f]] \in alerts

\* A hook in its decision read the clock and the time of an alert like its own.
HookOK(hook, sent, alerts, now) ==
  hook.step = "decide" =>
    /\ hook.at \in 0..now /\ hook.snapshot.status # "HEALTHY"
    /\ hook.previous # -1 => /\ hook.previous \in 0..now
                             /\ [fingerprint |-> hook.snapshot, at |-> hook.previous] \in alerts

\* An alert with a health that is recent enough for the last metric.
Alerted(alerts, health, since) ==
  \E alert \in alerts :
    /\ alert.fingerprint = health
    /\ alert.at > since - AlertCooldown \/ alert.at >= since

\* A hook that will see the metrics as they are, or saw them and is to decide.
Due(hook, health, since) ==
  \/ hook.step = "snapshot"
  \/ hook.step = "evaluate" /\ hook.snapshot = health
  \/ hook.step = "decide" /\ hook.snapshot = health /\ hook.at >= since

HealthInv ==
  /\ alertNow \in Nat /\ measuredAt \in 0..alertNow
  /\ hooks \in [HookThreads -> HookOf]
  /\ \A t \in HookThreads : hooks[t].step = "idle" => hooks[t] = NoHook
  /\ SentOK(lastSent, raised, alertNow)
  /\ \A t \in HookThreads : HookOK(hooks[t], lastSent, raised, alertNow)
  /\ Health.status # "HEALTHY" =>
       \/ Alerted(raised, Health, measuredAt)
       \/ \E t \in HookThreads : Due(hooks[t], Health, measuredAt)

LEMMA HealthIsOf == Health \in HealthOf
<1> DEFINE reasons ==
        {reason \in {"BROKER_FAILURE", "BROKER_LATENCY_HIGH", "RECOVERY_LATENCY_HIGH",
                     "QUARANTINE_RATE_HIGH"} :
           CASE reason = "BROKER_FAILURE" -> metrics.failures > 0
             [] reason = "BROKER_LATENCY_HIGH" ->
                  AverageReaches(metrics.brokerTotal, metrics.brokerSamples, 5)
             [] reason = "RECOVERY_LATENCY_HIGH" ->
                  AverageReaches(metrics.recoveryTotal, metrics.recoverySamples, 5)
             [] reason = "QUARANTINE_RATE_HIGH" -> RateReaches(5)}
           critical == \/ metrics.failures > 0 \/ RateReaches(20)
                       \/ AverageReaches(metrics.brokerTotal, metrics.brokerSamples, 10)
<1>1. reasons \in SUBSET {"BROKER_FAILURE", "BROKER_LATENCY_HIGH", "RECOVERY_LATENCY_HIGH",
                          "QUARANTINE_RATE_HIGH"}
  OBVIOUS
<1>2. Health = [status |-> IF critical THEN "CRITICAL" ELSE IF reasons # {} THEN "DEGRADED"
                           ELSE "HEALTHY",
                reasons |-> reasons]
  BY DEF Health
<1> HIDE DEF reasons, critical
<1>3. QED
  BY <1>1, <1>2 DEF HealthOf

LEMMA HealthInvInit == HealthInit => HealthInv
<1> SUFFICES ASSUME HealthInit PROVE HealthInv
  OBVIOUS
<1>1. Health.status = "HEALTHY"
  <2>1. ~(metrics.failures > 0) /\ ~RateReaches(5) /\ ~RateReaches(20)
    BY DEF HealthInit, NoMetrics, RateReaches
  <2>2. \A limit : /\ ~AverageReaches(metrics.brokerTotal, metrics.brokerSamples, limit)
                   /\ ~AverageReaches(metrics.recoveryTotal, metrics.recoverySamples, limit)
    BY DEF HealthInit, NoMetrics, AverageReaches
  <2>3. {reason \in {"BROKER_FAILURE", "BROKER_LATENCY_HIGH", "RECOVERY_LATENCY_HIGH",
                     "QUARANTINE_RATE_HIGH"} :
           CASE reason = "BROKER_FAILURE" -> metrics.failures > 0
             [] reason = "BROKER_LATENCY_HIGH" ->
                  AverageReaches(metrics.brokerTotal, metrics.brokerSamples, 5)
             [] reason = "RECOVERY_LATENCY_HIGH" ->
                  AverageReaches(metrics.recoveryTotal, metrics.recoverySamples, 5)
             [] reason = "QUARANTINE_RATE_HIGH" -> RateReaches(5)} = {}
    BY <2>1, <2>2
  <2>4. QED
    BY <2>1, <2>2, <2>3, Zenon DEF Health
<1>2. NoHook \in HookOf
  BY DEF NoHook, HookOf, Healthy, HealthOf
<1>3. QED
  BY <1>1, <1>2 DEF HealthInit, HealthInv, SentOK, HookOK, NoHook

LEMMA HealthInvStep == HealthInv /\ [HealthNext]_healthVars => HealthInv'
<1> SUFFICES ASSUME HealthInv, [HealthNext]_healthVars PROVE HealthInv'
  OBVIOUS
<1> USE HealthIsOf
<1>0. NoHook \in HookOf
  BY DEF NoHook, HookOf, Healthy, HealthOf
<1>1. ASSUME NEW t \in HookThreads, NEW m \in Measured, Measure(t, m)
      PROVE  HealthInv'
  <2> DEFINE hook == [NoHook EXCEPT !.step = "snapshot"]
  <2>1. hook \in HookOf /\ hook.step = "snapshot"
    BY <1>0 DEF NoHook, HookOf
  <2> HIDE DEF hook
  <2>2. hooks' = [hooks EXCEPT ![t] = hook] /\ measuredAt' = alertNow
        /\ UNCHANGED <<lastSent, raised, alertNow>>
    BY <1>1 DEF Measure, Hook, hook
  <2>3. Due(hooks'[t], Health', measuredAt')
    BY <2>1, <2>2 DEF Due, HealthInv
  <2>4. hooks' \in [HookThreads -> HookOf]
    BY <2>1, <2>2 DEF HealthInv
  <2>5. ASSUME NEW u \in HookThreads
        PROVE  /\ hooks'[u].step = "idle" => hooks'[u] = NoHook
               /\ HookOK(hooks'[u], lastSent', raised', alertNow')
    BY <2>1, <2>2 DEF HealthInv, HookOK
  <2>6. QED
    BY <2>2, <2>3, <2>4, <2>5 DEF HealthInv
<1>2. ASSUME metrics' = metrics
      PROVE  Health' = Health
  BY <1>2 DEF Health, AverageReaches, RateReaches
\* A step of one hook that leaves the metrics as they are.
<1>3. ASSUME NEW t \in HookThreads, NEW hook \in HookOf, Hook(t, hook),
             UNCHANGED <<metrics, measuredAt, alertNow>>,
             hook.step = "idle" => hook = NoHook,
             raised \subseteq raised',
             SentOK(lastSent', raised', alertNow),
             HookOK(hook, lastSent', raised', alertNow),
             Health.status # "HEALTHY" /\ Due(hooks[t], Health, measuredAt) =>
               Due(hook, Health, measuredAt) \/ Alerted(raised', Health, measuredAt)
      PROVE  HealthInv'
  <2>1. hooks' = [hooks EXCEPT ![t] = hook] /\ hooks' \in [HookThreads -> HookOf]
    BY <1>3 DEF Hook, HealthInv
  <2>2. hooks'[t] = hook
    BY <2>1 DEF HealthInv
  <2>3. \A u \in HookThreads \ {t} : hooks'[u] = hooks[u]
    BY <2>1 DEF HealthInv
  <2>4. \A u \in HookThreads \ {t} : HookOK(hooks'[u], lastSent', raised', alertNow')
    BY <1>3, <2>3 DEF HealthInv, HookOK
  <2>5. Alerted(raised, Health, measuredAt) => Alerted(raised', Health, measuredAt)
    BY <1>3 DEF Alerted
  <2>6. Health' = Health /\ measuredAt' = measuredAt /\ alertNow' = alertNow
    BY <1>2, <1>3
  <2>7. Health.status # "HEALTHY" =>
          \/ Alerted(raised', Health, measuredAt)
          \/ \E u \in HookThreads : Due(hooks'[u], Health, measuredAt)
    <3>1. SUFFICES ASSUME Health.status # "HEALTHY",
                          ~Alerted(raised', Health, measuredAt)
                   PROVE  \E u \in HookThreads : Due(hooks'[u], Health, measuredAt)
      OBVIOUS
    <3>2. PICK u \in HookThreads : Due(hooks[u], Health, measuredAt)
      BY <2>5, <3>1 DEF HealthInv
    <3>3. CASE u = t
      BY <1>3, <2>2, <3>1, <3>2, <3>3
    <3>4. CASE u # t
      BY <2>3, <3>2, <3>4
    <3>5. QED
      BY <3>3, <3>4
  <2>8. \A u \in HookThreads : hooks'[u].step = "idle" => hooks'[u] = NoHook
    BY <1>3, <2>2, <2>3 DEF HealthInv
  <2>9. \A u \in HookThreads : HookOK(hooks'[u], lastSent', raised', alertNow')
    BY <1>3, <2>2, <2>4, <2>6
  <2>10. SentOK(lastSent', raised', alertNow')
    BY <1>3, <2>6
  <2>11. QED
    BY <2>1, <2>6, <2>7, <2>8, <2>9, <2>10 DEF HealthInv
<1>4. ASSUME NEW t \in HookThreads, SnapshotHealth(t)
      PROVE  HealthInv'
  <2> DEFINE hook == [hooks[t] EXCEPT !.step = "evaluate", !.snapshot = Health]
  <2>1. hooks[t] \in HookOf
    BY DEF HealthInv
  <2>2. hook \in HookOf /\ hook.step = "evaluate" /\ hook.snapshot = Health
    BY <2>1 DEF HookOf
  <2>3. Hook(t, hook) /\ UNCHANGED <<metrics, lastSent, raised, measuredAt, alertNow>>
    BY <1>4 DEF SnapshotHealth
  <2> HIDE DEF hook
  <2>4. HookOK(hook, lastSent', raised', alertNow) /\ Due(hook, Health, measuredAt)
    BY <2>2 DEF HookOK, Due
  <2>5. QED
    BY <1>3, <2>2, <2>3, <2>4 DEF HealthInv
<1>5. ASSUME NEW t \in HookThreads, EvaluateHealthy(t)
      PROVE  HealthInv'
  <2>1. Hook(t, NoHook) /\ UNCHANGED <<metrics, lastSent, raised, measuredAt, alertNow>>
    BY <1>5 DEF EvaluateHealthy
  <2>2. HookOK(NoHook, lastSent', raised', alertNow)
    BY DEF HookOK, NoHook
  <2>3. Health.status # "HEALTHY" => ~Due(hooks[t], Health, measuredAt)
    BY <1>5 DEF EvaluateHealthy, Due
  <2>4. QED
    BY <1>0, <1>3, <2>1, <2>2, <2>3 DEF HealthInv
<1>6. ASSUME NEW t \in HookThreads, ReadPrevious(t)
      PROVE  HealthInv'
  <2> DEFINE was == IF hooks[t].snapshot \in DOMAIN lastSent THEN lastSent[hooks[t].snapshot]
                    ELSE -1
             hook == [hooks[t] EXCEPT !.step = "decide", !.at = alertNow, !.previous = was]
  <2>1. hooks[t] \in HookOf /\ hooks[t].step = "evaluate"
        /\ hooks[t].snapshot.status # "HEALTHY"
    BY <1>6 DEF HealthInv, ReadPrevious
  <2>2. was \in Int /\ (was # -1 => /\ was \in 0..alertNow
                                    /\ [fingerprint |-> hooks[t].snapshot, at |-> was] \in raised)
    BY DEF HealthInv, SentOK
  <2>3. Hook(t, hook) /\ UNCHANGED <<metrics, lastSent, raised, measuredAt, alertNow>>
    BY <1>6 DEF ReadPrevious
  <2> HIDE DEF was
  <2>4. /\ hook \in HookOf /\ hook.step = "decide" /\ hook.snapshot = hooks[t].snapshot
        /\ hook.at = alertNow /\ hook.previous = was
    <3>1. alertNow \in Int
      BY DEF HealthInv
    <3>2. /\ hook.step = "decide" /\ hook.snapshot = hooks[t].snapshot
          /\ hook.at = alertNow /\ hook.previous = was
      BY <2>1 DEF HookOf
    <3>3. hook \in HookOf
      BY <2>1, <2>2, <3>1 DEF HookOf
    <3>4. QED
      BY <3>2, <3>3
  <2> HIDE DEF hook
  <2>5. HookOK(hook, lastSent', raised', alertNow)
    BY <2>1, <2>2, <2>3, <2>4 DEF HookOK, HealthInv
  <2>6. Due(hooks[t], Health, measuredAt) => Due(hook, Health, measuredAt)
    BY <2>1, <2>4 DEF Due, HealthInv
  <2>7. QED
    BY <1>3, <2>3, <2>4, <2>5, <2>6 DEF HealthInv
<1>7. ASSUME NEW t \in HookThreads, JudgeAlert(t)
      PROVE  HealthInv'
  <2> DEFINE hook == hooks[t]
             alert == [fingerprint |-> hook.snapshot, at |-> hook.at]
  <2>1. hook \in HookOf /\ hook.step = "decide" /\ HookOK(hook, lastSent, raised, alertNow)
    BY <1>7 DEF HealthInv, JudgeAlert
  <2>2. hook.at \in 0..alertNow
    BY <2>1 DEF HookOK
  <2>3. Hook(t, NoHook) /\ UNCHANGED <<metrics, measuredAt, alertNow>>
        /\ lastSent' = SentAfter(hook)
        /\ raised' = IF Suppressed(hook) THEN raised ELSE raised \cup {alert}
    BY <1>7 DEF JudgeAlert
  <2>4. HookOK(NoHook, lastSent', raised', alertNow)
    BY DEF HookOK, NoHook
  <2> HIDE DEF hook
  <2>5. CASE Suppressed(hook)
    <3>1. UNCHANGED <<raised, lastSent>>
      BY <2>3, <2>5 DEF SentAfter
    <3>2. hook.previous >= 0 /\ hook.at - hook.previous < AlertCooldown
      BY <2>5 DEF Suppressed
    <3>3. /\ hook.previous \in 0..alertNow
          /\ [fingerprint |-> hook.snapshot, at |-> hook.previous] \in raised
      BY <2>1, <3>2 DEF HookOK
    <3>4. Due(hook, Health, measuredAt) => Alerted(raised, Health, measuredAt)
      <4>1. SUFFICES ASSUME Due(hook, Health, measuredAt)
                     PROVE  Alerted(raised, Health, measuredAt)
        OBVIOUS
      <4>2. hook.snapshot = Health /\ hook.at >= measuredAt
        BY <2>1, <4>1 DEF Due
      <4>3. hook.previous > measuredAt - AlertCooldown
        BY <2>2, <3>2, <3>3, <4>2 DEF HealthInv
      <4>4. QED
        BY <3>3, <4>2, <4>3 DEF Alerted
    <3>5. SentOK(lastSent', raised', alertNow)
      BY <3>1 DEF HealthInv
    <3>6. QED
      BY <1>0, <1>3, <2>3, <2>4, <3>1, <3>4, <3>5 DEF hook
  <2>6. CASE ~Suppressed(hook)
    <3>1. lastSent' = SentAt(hook) /\ raised' = raised \cup {alert}
      BY <2>3, <2>6 DEF SentAfter
    <3>2. SentOK(lastSent', raised', alertNow)
      BY <2>2, <3>1 DEF SentOK, SentAt, HealthInv
    <3>3. Due(hook, Health, measuredAt) => Alerted(raised', Health, measuredAt)
      <4>1. alert \in raised' /\ alert.fingerprint = hook.snapshot /\ alert.at = hook.at
        BY <3>1
      <4>2. ASSUME Due(hook, Health, measuredAt)
            PROVE  hook.snapshot = Health /\ hook.at >= measuredAt
        BY <2>1, <4>2 DEF Due
      <4> HIDE DEF alert
      <4>3. QED
        BY <4>1, <4>2 DEF Alerted
    <3>4. QED
      BY <1>0, <1>3, <2>3, <2>4, <3>1, <3>2, <3>3 DEF hook
  <2>7. QED
    BY <2>5, <2>6
<1>8. ASSUME AlertTime
      PROVE  HealthInv'
  <2>1. alertNow' = alertNow + 1 /\ UNCHANGED <<metrics, hooks, lastSent, raised, measuredAt>>
    BY <1>8 DEF AlertTime
  <2>2. SentOK(lastSent', raised', alertNow')
    BY <2>1 DEF SentOK, HealthInv
  <2>3. \A t \in HookThreads : HookOK(hooks'[t], lastSent', raised', alertNow')
    BY <2>1 DEF HookOK, HealthInv
  <2>4. Health' = Health
    BY <1>2, <2>1
  <2>5. QED
    BY <2>1, <2>2, <2>3, <2>4 DEF HealthInv
<1>9. ASSUME UNCHANGED healthVars
      PROVE  HealthInv'
  <2>1. UNCHANGED <<metrics, hooks, lastSent, lastStatus, raised, measuredAt, alertNow>>
    BY <1>9 DEF healthVars
  <2>2. Health' = Health
    BY <1>2, <2>1
  <2>3. QED
    BY <2>1, <2>2 DEF HealthInv
<1>10. QED
  BY <1>1, <1>4, <1>5, <1>6, <1>7, <1>8, <1>9 DEF HealthNext

\* Once every hook has returned, an execution that is not healthy was alerted with just its
\* status and reasons, less than the cooldown before the last metric or since; for any
\* number of hooks that overtake one another (ExecutionAlertPolicy.evaluate).
THEOREM UnhealthIsAlertedCorrect == HealthSpec => []UnhealthIsAlerted
<1>1. HealthInv => UnhealthIsAlerted
  <2>1. SUFFICES ASSUME HealthInv PROVE UnhealthIsAlerted
    OBVIOUS
  <2>2. ASSUME \A t \in HookThreads : hooks[t] = NoHook
        PROVE  \A t \in HookThreads : ~Due(hooks[t], Health, measuredAt)
    BY <2>2 DEF Due, NoHook
  <2>3. QED
    BY <2>1, <2>2 DEF HealthInv, UnhealthIsAlerted, Alerted, SentOK
<1>2. QED
  BY <1>1, HealthInvInit, HealthInvStep, PTL DEF HealthSpec

Metrics == {"submissions", "failures", "quarantined", "brokerTotal", "brokerSamples",
            "recoveryTotal", "recoverySamples", "recorded"}

\* The recorded values are numbers, and no health but the healthy one is without a reason.
HealthTypes ==
  /\ metrics \in [Metrics -> Nat] /\ alertNow \in 0..MaxAlertTime
  /\ lastStatus \in {"none", "HEALTHY", "DEGRADED", "CRITICAL"}
  /\ \A t \in HookThreads :
       hooks[t].snapshot.status # "HEALTHY" => hooks[t].snapshot.reasons # {}
  /\ \A alert \in raised : alert.fingerprint.reasons # {} /\ alert.at \in 0..MaxAlertTime

LEMMA UnhealthHasReasons ==
  ASSUME metrics \in [Metrics -> Nat]
  PROVE  Health.status # "HEALTHY" => Health.reasons # {}
<1> DEFINE reasons ==
        {reason \in {"BROKER_FAILURE", "BROKER_LATENCY_HIGH", "RECOVERY_LATENCY_HIGH",
                     "QUARANTINE_RATE_HIGH"} :
           CASE reason = "BROKER_FAILURE" -> metrics.failures > 0
             [] reason = "BROKER_LATENCY_HIGH" ->
                  AverageReaches(metrics.brokerTotal, metrics.brokerSamples, 5)
             [] reason = "RECOVERY_LATENCY_HIGH" ->
                  AverageReaches(metrics.recoveryTotal, metrics.recoverySamples, 5)
             [] reason = "QUARANTINE_RATE_HIGH" -> RateReaches(5)}
           critical == \/ metrics.failures > 0 \/ RateReaches(20)
                       \/ AverageReaches(metrics.brokerTotal, metrics.brokerSamples, 10)
<1>1. Health = [status |-> IF critical THEN "CRITICAL" ELSE IF reasons # {} THEN "DEGRADED"
                           ELSE "HEALTHY",
                reasons |-> reasons]
  BY DEF Health
<1>2. metrics.failures > 0 => "BROKER_FAILURE" \in reasons
  OBVIOUS
<1>3. AverageReaches(metrics.brokerTotal, metrics.brokerSamples, 5) =>
        "BROKER_LATENCY_HIGH" \in reasons
  OBVIOUS
<1>4. RateReaches(5) => "QUARANTINE_RATE_HIGH" \in reasons
  OBVIOUS
<1>5. RateReaches(20) => RateReaches(5)
  <2>1. metrics.submissions \in Nat /\ metrics.quarantined \in Nat
    BY DEF Metrics
  <2>2. QED
    BY <2>1 DEF RateReaches
<1>6. AverageReaches(metrics.brokerTotal, metrics.brokerSamples, 10) =>
        AverageReaches(metrics.brokerTotal, metrics.brokerSamples, 5)
  <2>1. metrics.brokerTotal \in Nat /\ metrics.brokerSamples \in Nat
    BY DEF Metrics
  <2>2. QED
    BY <2>1 DEF AverageReaches
<1>7. critical => reasons # {}
  <2> HIDE DEF reasons
  <2> QED
    BY <1>2, <1>3, <1>4, <1>5, <1>6
<1> HIDE DEF reasons, critical
<1>8. QED
  BY <1>1, <1>7

AddTo(values, metric, amount) == [values EXCEPT ![metric] = @ + amount]

LEMMA AddToCounts ==
  ASSUME NEW values \in [Metrics -> Nat], NEW metric, NEW amount \in Nat
  PROVE  AddTo(values, metric, amount) \in [Metrics -> Nat]
<1>1. CASE metric \in Metrics
  <2>1. values[metric] + amount \in Nat
    BY <1>1
  <2>2. QED
    BY <1>1, <2>1 DEF AddTo
<1>2. CASE metric \notin Metrics
  BY <1>2 DEF AddTo
<1>3. QED
  BY <1>1, <1>2

LEMMA HealthTypesStep ==
  HealthInv /\ HealthTypes /\ [HealthNext]_healthVars => HealthTypes'
<1> SUFFICES ASSUME HealthInv, HealthTypes, [HealthNext]_healthVars PROVE HealthTypes'
  OBVIOUS
<1> USE DEF HealthTypes
<1>0. hooks \in [HookThreads -> HookOf]
  BY DEF HealthInv
\* A step of one hook to a state whose snapshot has reasons.
<1>1. ASSUME NEW t \in HookThreads, NEW hook, Hook(t, hook),
             hook.snapshot.status # "HEALTHY" => hook.snapshot.reasons # {}
      PROVE  \A u \in HookThreads :
               hooks'[u].snapshot.status # "HEALTHY" => hooks'[u].snapshot.reasons # {}
  <2>1. hooks' = [hooks EXCEPT ![t] = hook]
    BY <1>1 DEF Hook
  <2>2. \A u \in HookThreads : hooks'[u] = IF u = t THEN hook ELSE hooks[u]
    BY <1>0, <2>1
  <2>3. QED
    BY <1>1, <2>2
<1>2. NoHook.snapshot.status = "HEALTHY"
  BY DEF NoHook, Healthy
<1>3. ASSUME NEW t \in HookThreads, NEW m \in Measured, Measure(t, m)
      PROVE  HealthTypes'
  <2>1. m.amount \in Nat /\ m.metric # "recorded"
    OBVIOUS
  <2>2. metrics' \in [Metrics -> Nat]
    <3>1. CASE m.metric = "broker_latency"
      <4>1. metrics' = [metrics EXCEPT !.brokerTotal = @ + m.amount, !.brokerSamples = @ + 1,
                                       !.recorded = @ + 1]
        BY <1>3, <3>1 DEF Measure
      <4>2. metrics' = AddTo(AddTo(AddTo(metrics, "brokerTotal", m.amount),
                                   "brokerSamples", 1), "recorded", 1)
        BY <4>1 DEF AddTo
      <4>3. QED
        BY <2>1, <4>2, AddToCounts
    <3>2. CASE m.metric = "recovery_latency"
      <4>1. metrics' = [metrics EXCEPT !.recoveryTotal = @ + m.amount,
                                       !.recoverySamples = @ + 1, !.recorded = @ + 1]
        BY <1>3, <3>2 DEF Measure
      <4>2. metrics' = AddTo(AddTo(AddTo(metrics, "recoveryTotal", m.amount),
                                   "recoverySamples", 1), "recorded", 1)
        BY <4>1 DEF AddTo
      <4>3. QED
        BY <2>1, <4>2, AddToCounts
    <3>3. CASE m.metric \notin {"broker_latency", "recovery_latency"}
      <4>1. metrics' = [metrics EXCEPT ![m.metric] = @ + m.amount, !.recorded = @ + 1]
        BY <1>3, <3>3 DEF Measure
      <4>2. metrics' = AddTo(AddTo(metrics, m.metric, m.amount), "recorded", 1)
        BY <2>1, <4>1 DEF AddTo
      <4>3. QED
        BY <2>1, <4>2, AddToCounts
    <3>4. QED
      BY <3>1, <3>2, <3>3
  <2>3. /\ Hook(t, [NoHook EXCEPT !.step = "snapshot"])
        /\ UNCHANGED <<lastStatus, raised, alertNow>>
    BY <1>3 DEF Measure
  <2>4. [NoHook EXCEPT !.step = "snapshot"].snapshot = NoHook.snapshot
    BY DEF NoHook
  <2>5. QED
    BY <1>1, <1>2, <2>2, <2>3, <2>4
<1>4. ASSUME NEW t \in HookThreads, SnapshotHealth(t)
      PROVE  HealthTypes'
  <2> DEFINE hook == [hooks[t] EXCEPT !.step = "evaluate", !.snapshot = Health]
  <2>1. hook.snapshot = Health
    BY <1>0, HealthIsOf DEF HookOf
  <2>2. Hook(t, hook) /\ UNCHANGED <<metrics, lastStatus, raised, alertNow>>
    BY <1>4 DEF SnapshotHealth
  <2> HIDE DEF hook
  <2>3. QED
    BY <1>1, <2>1, <2>2, UnhealthHasReasons
<1>5. ASSUME NEW t \in HookThreads, EvaluateHealthy(t)
      PROVE  HealthTypes'
  <2>1. Hook(t, NoHook) /\ lastStatus' = "HEALTHY" /\ UNCHANGED <<metrics, raised, alertNow>>
    BY <1>5 DEF EvaluateHealthy
  <2>2. QED
    BY <1>1, <1>2, <2>1
<1>6. ASSUME NEW t \in HookThreads, ReadPrevious(t)
      PROVE  HealthTypes'
  <2>1. PICK previous :
          Hook(t, [hooks[t] EXCEPT !.step = "decide", !.at = alertNow, !.previous = previous])
    BY <1>6 DEF ReadPrevious
  <2> DEFINE hook ==
        [hooks[t] EXCEPT !.step = "decide", !.at = alertNow, !.previous = previous]
  <2>2. hook.snapshot = hooks[t].snapshot
    BY <1>0 DEF HookOf
  <2>3. UNCHANGED <<metrics, lastStatus, raised, alertNow>>
    BY <1>6 DEF ReadPrevious
  <2> HIDE DEF hook
  <2>4. QED
    BY <1>1, <2>1, <2>2, <2>3 DEF hook
<1>7. ASSUME NEW t \in HookThreads, JudgeAlert(t)
      PROVE  HealthTypes'
  <2> DEFINE alert == [fingerprint |-> hooks[t].snapshot, at |-> hooks[t].at]
  <2>1. /\ hooks[t].step = "decide" /\ lastStatus' = hooks[t].snapshot.status
        /\ raised' \in {raised, raised \cup {alert}}
        /\ Hook(t, NoHook) /\ UNCHANGED <<metrics, alertNow>>
    BY <1>7 DEF JudgeAlert
  <2>2. hooks[t].at \in 0..alertNow /\ hooks[t].snapshot.status # "HEALTHY"
    BY <2>1 DEF HealthInv, HookOK
  <2>3. hooks[t].snapshot.status \in {"HEALTHY", "DEGRADED", "CRITICAL"}
    BY <1>0 DEF HookOf, HealthOf
  <2>4. alert.fingerprint.reasons # {} /\ alert.at \in 0..MaxAlertTime
    BY <2>2
  <2>5. \A other \in raised' : other.fingerprint.reasons # {} /\ other.at \in 0..MaxAlertTime
    <3> HIDE DEF alert
    <3> QED
      BY <2>1, <2>4
  <2>6. QED
    BY <1>1, <1>2, <2>1, <2>3, <2>5
<1>8. ASSUME AlertTime
      PROVE  HealthTypes'
  BY <1>8 DEF AlertTime
<1>9. ASSUME UNCHANGED healthVars
      PROVE  HealthTypes'
  BY <1>9 DEF healthVars
<1>10. QED
  BY <1>3, <1>4, <1>5, <1>6, <1>7, <1>8, <1>9 DEF HealthNext

\* An alert always names a reason and the time of its reading of the clock, and the policy's
\* last status is one of the three that a snapshot has (ExecutionHealth.snapshot,
\* ExecutionAlertPolicy.evaluate).
THEOREM HealthTypeCorrect == HealthSpec => []HealthTypeOK
<1>1. HealthInit => HealthTypes
  BY DEF HealthInit, HealthTypes, NoMetrics, Metrics, NoHook, Healthy
<1>2. HealthInv /\ HealthTypes => HealthTypeOK
  BY DEF HealthInv, HealthTypes, HealthTypeOK, HookOf
<1>3. QED
  BY <1>1, <1>2, HealthInvInit, HealthInvStep, HealthTypesStep, PTL DEF HealthSpec

HIDE HealthAlertsAssumption

-----------------------------------------------------------------------------
(* Histories.                                                               *)

USE HistoryFetchAssumption

JobRecord ==
  [kind : {"none", "orchestrated", "chunks", "gaps", "load", "pages"},
   step : {"idle", "choose", "call", "store", "verify", "page", "done", "failed"},
   from : Nat, to : Nat, cursor : Int, at : Int, feed : Nat, attempt : Nat,
   rows : SUBSET Int, left : SUBSET (Nat \X Nat), pages : Nat, had : SUBSET Int,
   complete : BOOLEAN]

Circuit == [failures : Nat, openUntil : Nat]

\* What a job does is of its kind.
StepOK(job) ==
  /\ job.step = "choose" => job.kind = "orchestrated"
  /\ job.step \in {"call", "store"} => job.kind \in {"orchestrated", "chunks", "gaps", "load"}
  /\ job.step = "verify" => job.kind \in {"orchestrated", "gaps"}
  /\ job.step = "page" => job.kind = "pages"
  /\ job.kind = "pages" => job.step \in {"page", "done", "failed"}

\* What a job asks for is still shown by every feed it may ask.
ShownOK(job, shown) ==
  /\ job.had \subseteq job.from..job.to
  /\ job.kind \in {"chunks", "gaps", "load", "pages"} => job.feed = 1
  /\ job.kind \in {"chunks", "gaps", "load", "pages"} => job.had \subseteq shown[1]
  /\ job.kind = "orchestrated" => \A f \in FeedNumbers : job.had \subseteq shown[f]
  /\ job.kind = "orchestrated" => job.cursor = job.from /\ job.at = job.to
  /\ job.step \in {"call", "store"} => job.feed \in FeedNumbers

\* A candle is in the archive, or the job will still ask for it.
StillReached(job, b, held) ==
  \/ b \in held
  \/ job.step = "choose"
  \/ job.step = "call" /\ b \in job.cursor..job.at
  \/ job.step = "store" /\ b \in job.rows
  \/ job.step \in {"call", "store"} /\ job.kind = "chunks" /\ b > job.at
  \/ job.step \in {"call", "store"} /\ job.kind = "gaps" /\ \E g \in job.left : b \in g[1]..g[2]

\* The pages so far hold what was shown up to the cursor.
PagesOK(job) ==
  /\ job.step = "page" /\ job.pages > 0 => \A b \in job.had : b <= job.cursor => b \in job.rows
  /\ job.step = "done" => job.had \subseteq job.rows

JobOK(job, held, shown) ==
  /\ StepOK(job) /\ ShownOK(job, shown)
  /\ job.kind # "pages" /\ job.step \notin {"idle", "failed"} =>
       \A b \in job.had : StillReached(job, b, held)
  /\ job.kind = "pages" => PagesOK(job)
  /\ job.complete => job.from..job.to \subseteq held

CircuitsOK ==
  /\ circuits \in [FeedNumbers -> Circuit] /\ feedNow \in Nat
  /\ \A f \in FeedNumbers : circuits[f].failures >= FeedThreshold <=> circuits[f].openUntil > 0

WholeInv ==
  /\ archive \in Archives
  /\ shows \in [FeedNumbers -> SUBSET Int]
  /\ jobs \in [HistoryJobs -> JobRecord]
  /\ \A j \in HistoryJobs : JobOK(jobs[j], barsHeld, shows)
  /\ CircuitsOK

LEMMA FeedsAreNumbers == FeedNumbers \subseteq Nat /\ 1 \in FeedNumbers
BY DEF FeedNumbers

\* What holds of a job holds when the archive and the feeds have more.
LEMMA JobGrows ==
  ASSUME NEW job, NEW held, NEW shown, NEW more, NEW showing, JobOK(job, held, shown),
         held \subseteq more, \A f \in FeedNumbers : shown[f] \subseteq showing[f]
  PROVE  JobOK(job, more, showing)
<1>1. ShownOK(job, showing)
  BY FeedsAreNumbers DEF JobOK, ShownOK
<1>2. \A b \in job.had : StillReached(job, b, held) => StillReached(job, b, more)
  BY DEF StillReached
<1>3. QED
  BY <1>1, <1>2 DEF JobOK

\* A step of one job.
LEMMA JobSteps ==
  ASSUME WholeInv, NEW j \in HistoryJobs, NEW job \in JobRecord, jobs' = [jobs EXCEPT ![j] = job],
         archive' = archive, shows' = shows, barsHeld \subseteq barsHeld', CircuitsOK',
         JobOK(job, barsHeld', shows)
  PROVE  WholeInv'
<1>1. jobs' \in [HistoryJobs -> JobRecord]
  BY DEF WholeInv
<1>2. ASSUME NEW k \in HistoryJobs PROVE JobOK(jobs'[k], barsHeld', shows')
  <2>1. CASE k = j
    BY <2>1 DEF WholeInv
  <2>2. CASE k # j
    <3>1. jobs'[k] = jobs[k] /\ JobOK(jobs[k], barsHeld, shows)
      BY <2>2 DEF WholeInv
    <3>2. QED
      BY <3>1, JobGrows
  <2>3. QED
    BY <2>1, <2>2
<1>3. QED
  BY <1>1, <1>2 DEF WholeInv

\* The least and the greatest of a set of numbers.
LEMMA LeastIs ==
  ASSUME NEW N, N \subseteq Nat, N # {} PROVE Min(N) \in N /\ \A n \in N : Min(N) <= n
BY LeastNumber DEF Min

LEMMA GreatestIs ==
  ASSUME NEW N, NEW from \in Nat, NEW to \in Nat, N \subseteq from..to, N # {}
  PROVE  Max(N) \in N /\ \A n \in N : Max(N) >= n
<1> DEFINE D == {to - n : n \in N}
<1>1. \A n \in N : n \in from..to /\ to - n \in Nat
  OBVIOUS
<1> HIDE DEF D
<1>0. D \subseteq Nat /\ D # {}
  BY <1>1 DEF D
<1>2. PICK d \in D : \A e \in D : d <= e
  BY <1>0, LeastNumber
<1>3. PICK m \in N : d = to - m
  BY <1>2 DEF D
<1>4. ASSUME NEW n \in N PROVE m >= n
  <2>1. to - m <= to - n
    BY <1>2, <1>3 DEF D
  <2>2. QED
    BY <1>1, <2>1
<1>5. QED
  BY <1>4 DEF Max

\* Every missing candle is in an interval that find_gaps reports.
LEMMA GapsCover ==
  ASSUME NEW from \in Nat, NEW to \in Nat, NEW b \in Missing(from, to)
  PROVE  \E g \in MissingIntervals(from, to) : b \in g[1]..g[2]
<1> DEFINE M == Missing(from, to)
           Below == {a \in from..b : a..b \subseteq M}
           Above == {c \in b..to : b..c \subseteq M}
<1>1. M \subseteq from..to /\ b \in M /\ b \in Nat
  BY DEF Missing
<1> HIDE DEF M
<1>2. b \in Below /\ Below \subseteq Nat /\ b \in Above /\ Above \subseteq from..to
  BY <1>1
<1>3. PICK lo \in Below : \A a \in Below : lo <= a
  BY <1>2, LeastNumber
<1>4. PICK hi \in Above : \A c \in Above : hi >= c
  BY <1>2, GreatestIs
<1>5. lo \in from..b /\ hi \in b..to /\ lo..hi \subseteq M
  BY <1>1, <1>3, <1>4
<1>6. lo - 1 \notin M
  <2>1. SUFFICES ASSUME lo - 1 \in M PROVE FALSE
    OBVIOUS
  <2>2. lo - 1 \in from..b /\ (lo - 1)..b \subseteq M
    BY <1>1, <1>3, <2>1
  <2>3. QED
    BY <1>3, <1>5, <2>2
<1>7. hi + 1 \notin M
  <2>1. SUFFICES ASSUME hi + 1 \in M PROVE FALSE
    OBVIOUS
  <2>2. hi + 1 \in b..to /\ b..(hi + 1) \subseteq M
    BY <1>1, <1>4, <2>1
  <2>3. QED
    BY <1>4, <1>5, <2>2
<1>8. <<lo, hi>> \in MissingIntervals(from, to)
  <2>1. <<lo, hi>> \in (from..to) \X (from..to) /\ lo..hi # {}
    BY <1>1, <1>5
  <2>2. {lo - 1, hi + 1} \cap M = {}
    BY <1>6, <1>7
  <2>3. QED
    BY <1>5, <2>1, <2>2 DEF MissingIntervals, M
<1>9. b \in lo..hi
  BY <1>1, <1>5
<1>10. <<lo, hi>>[1] = lo /\ <<lo, hi>>[2] = hi
  OBVIOUS
<1>11. QED
  BY <1>8, <1>9, <1>10, Zenon

LEMMA GapsAreNumbers ==
  ASSUME NEW from \in Nat, NEW to \in Nat
  PROVE  MissingIntervals(from, to) \subseteq Nat \X Nat
BY DEF MissingIntervals

\* The next gap, or nothing: what is in a gap is still to be asked for.
Gapped(job, left, next) ==
  /\ next \in JobRecord /\ next.had = job.had /\ next.from = job.from
  /\ next.to = job.to /\ next.feed = job.feed /\ next.kind = job.kind
  /\ next.complete = job.complete
  /\ next.step \in {"verify", "call"}
  /\ next.step = "verify" => left = {}
  /\ \A b : (\E g \in left : b \in g[1]..g[2]) =>
       /\ next.step = "call"
       /\ b \in next.cursor..next.at \/ \E g \in next.left : b \in g[1]..g[2]

LEMMA TakesGap ==
  ASSUME NEW job \in JobRecord, NEW left, left \subseteq Nat \X Nat,
         NEW next, next = TakeGap(job, left)
  PROVE  Gapped(job, left, next)
<1>1. CASE left = {}
  <2>1. next = [job EXCEPT !.step = "verify", !.left = {}]
    BY <1>1 DEF TakeGap
  <2>2. QED
    BY <1>1, <2>1 DEF JobRecord, Gapped
<1>2. CASE left # {}
  <2> DEFINE least(g) == \A other \in left : g[1] <= other[1]
             gap == CHOOSE g \in left : least(g)
             N == {g[1] : g \in left}
  <2>1. N \subseteq Nat /\ N # {}
    BY <1>2
  <2>2. PICK n \in N : \A m \in N : n <= m
    BY <2>1, LeastNumber
  <2>3. \E g \in left : least(g)
    BY <2>2
  <2>4. gap \in left
    BY <2>3
  <2>5. next = [job EXCEPT !.step = "call", !.cursor = gap[1], !.at = gap[2],
                           !.left = left \ {gap}]
    BY <1>2, Zenon DEF TakeGap
  <2> HIDE DEF gap
  <2>6. gap[1] \in Nat /\ gap[2] \in Nat
    BY <2>4
  <2>7. /\ next \in JobRecord /\ next.step = "call" /\ next.cursor = gap[1]
        /\ next.at = gap[2] /\ next.left = left \ {gap} /\ next.kind = job.kind
        /\ next.had = job.had /\ next.from = job.from /\ next.to = job.to
        /\ next.feed = job.feed /\ next.complete = job.complete
    <3>1. "call" \in {"idle", "choose", "call", "store", "verify", "page", "done", "failed"}
          /\ gap[1] \in Int /\ gap[2] \in Int /\ left \ {gap} \in SUBSET (Nat \X Nat)
      BY <2>6
    <3>2. next \in JobRecord
      BY <2>5, <3>1 DEF JobRecord
    <3>3. QED
      BY <2>5, <3>2 DEF JobRecord
  <2>8. ASSUME NEW b, NEW g \in left, b \in g[1]..g[2]
        PROVE  b \in next.cursor..next.at \/ \E h \in next.left : b \in h[1]..h[2]
    BY <2>7, <2>8
  <2>9. QED
    BY <2>7, <2>8, <1>2 DEF Gapped
<1>3. QED
  BY <1>1, <1>2

\* The next chunk, or the end of the range.
Chunked(job, first, next) ==
  /\ next \in JobRecord /\ next.had = job.had /\ next.from = job.from
  /\ next.to = job.to /\ next.feed = job.feed /\ next.kind = job.kind
  /\ next.complete = job.complete
  /\ next.step \in {"done", "call"}
  /\ next.step = "done" => first > job.to
  /\ \A b \in Int : first <= b /\ b <= job.to =>
       next.step = "call" /\ (b \in next.cursor..next.at \/ b > next.at)

LEMMA TakesChunk ==
  ASSUME NEW job \in JobRecord, NEW first \in Int, NEW next, next = TakeChunk(job, first)
  PROVE  Chunked(job, first, next)
<1>1. job.to \in Nat
  BY DEF JobRecord
<1>2. CASE first > job.to
  <2>1. next = [job EXCEPT !.step = "done"]
    BY <1>2 DEF TakeChunk
  <2>2. next \in JobRecord /\ next.step = "done" /\ next.had = job.had
        /\ next.from = job.from /\ next.to = job.to /\ next.feed = job.feed
        /\ next.kind = job.kind /\ next.complete = job.complete
    BY <2>1 DEF JobRecord
  <2>3. QED
    BY <1>1, <1>2, <2>2 DEF Chunked
<1>3. CASE ~(first > job.to)
  <2> DEFINE last == Min({job.to, first + ChunkBars - 1})
  <2>1. next = [job EXCEPT !.step = "call", !.cursor = first, !.attempt = 0, !.at = last]
    BY <1>3 DEF TakeChunk
  <2>2. last \in {job.to, first + ChunkBars - 1}
    <3>1. \E x \in {job.to, first + ChunkBars - 1} :
             \A y \in {job.to, first + ChunkBars - 1} : x <= y
      BY <1>1
    <3>2. QED
      BY <3>1, Zenon DEF Min
  <2>3. last \in Int
    BY <1>1, <2>2
  <2> HIDE DEF last
  <2>4. next \in JobRecord /\ next.step = "call" /\ next.had = job.had
        /\ next.from = job.from /\ next.to = job.to /\ next.feed = job.feed
        /\ next.kind = job.kind /\ next.complete = job.complete
        /\ next.cursor = first /\ next.at = last
    <3>1. next \in JobRecord
      <4>1. [job EXCEPT !.step = "call", !.cursor = first] \in JobRecord
        BY DEF JobRecord
      <4>2. \A n \in JobRecord : [n EXCEPT !.attempt = 0, !.at = last] \in JobRecord
        BY <2>3 DEF JobRecord
      <4>3. next = [[job EXCEPT !.step = "call", !.cursor = first]
                      EXCEPT !.attempt = 0, !.at = last]
        BY <2>1
      <4>4. QED
        BY <4>1, <4>2, <4>3
    <3>2. QED
      BY <2>1, <3>1 DEF JobRecord
  <2>5. QED
    BY <1>1, <2>3, <2>4 DEF Chunked
<1>4. QED
  BY <1>2, <1>3

\* A job is a record whichever range it is given.
LEMMA JobOfKind ==
  ASSUME NEW job \in JobRecord, NEW kind \in {"orchestrated", "chunks", "gaps", "load", "pages"}
  PROVE  [job EXCEPT !.kind = kind] \in JobRecord
BY DEF JobRecord

LEMMA JobAtStep ==
  ASSUME NEW job \in JobRecord,
         NEW step \in {"idle", "choose", "call", "store", "verify", "page", "done", "failed"}
  PROVE  [job EXCEPT !.step = step] \in JobRecord
BY DEF JobRecord

LEMMA JobOfRange ==
  ASSUME NEW job \in JobRecord, NEW from \in Nat, NEW to \in Nat
  PROVE  /\ [job EXCEPT !.from = from, !.to = to] \in JobRecord
         /\ [job EXCEPT !.cursor = from, !.at = to] \in JobRecord
<1>1. [job EXCEPT !.from = from, !.to = to] \in JobRecord
  BY DEF JobRecord
<1>2. from \in Int /\ to \in Int
  OBVIOUS
<1>3. [job EXCEPT !.cursor = from] \in JobRecord
  BY <1>2 DEF JobRecord
<1>4. \A n \in JobRecord : [n EXCEPT !.at = to] \in JobRecord
  BY <1>2 DEF JobRecord
<1>5. [job EXCEPT !.cursor = from, !.at = to] = [[job EXCEPT !.cursor = from] EXCEPT !.at = to]
  OBVIOUS
<1>6. QED
  BY <1>1, <1>3, <1>4, <1>5

LEMMA WholeStarts == FetchInit => WholeInv
<1> SUFFICES ASSUME FetchInit PROVE WholeInv
  OBVIOUS
<1>1. IdleJob \in JobRecord
  BY DEF IdleJob, JobRecord
<1>2. JobOK(IdleJob, barsHeld, shows)
  BY DEF IdleJob, JobOK, StepOK, ShownOK, PagesOK
<1>3. CircuitsOK
  BY DEF FetchInit, CircuitsOK, Circuit, ClosedCircuit
<1>4. shows \in [FeedNumbers -> SUBSET Int]
  BY DEF FetchInit, FeedNumbers
<1>5. QED
  BY <1>1, <1>2, <1>3, <1>4 DEF FetchInit, WholeInv

LEMMA BeginsWhole ==
  ASSUME WholeInv, NEW j \in HistoryJobs, NEW kind \in KindsFor[archive],
         NEW range \in HistoryRanges, BeginJob(j, kind, range[1], range[2])
  PROVE  WholeInv'
<1> DEFINE from == range[1]
           to == range[2]
           had == Had(kind, from..to)
           job == [IdleJob EXCEPT !.kind = kind, !.from = from, !.to = to, !.cursor = from,
                                  !.at = to, !.had = had]
<1>1. from \in Nat /\ to \in Nat /\ from <= to
  BY DEF BeginJob
<1>2. kind \in {"orchestrated", "chunks", "gaps", "load", "pages"}
  BY DEF WholeInv, KindsFor
<1>3. had \subseteq from..to
  BY DEF Had
<1>4. /\ kind = "orchestrated" => \A f \in FeedNumbers : had \subseteq shows[f]
      /\ kind # "orchestrated" => had \subseteq shows[1]
  BY DEF Had
<1>5. had \subseteq Int
  BY <1>1, <1>3
<1>6. PICK next :
        /\ jobs' = [jobs EXCEPT ![j] = next]
        /\ next = CASE kind = "orchestrated" -> [job EXCEPT !.step = "choose"]
                    [] kind = "chunks" -> TakeChunk(job, from)
                    [] kind = "gaps" -> TakeGap(job, MissingIntervals(from, to))
                    [] kind = "load" -> [job EXCEPT !.step = "call"]
                    [] kind = "pages" -> [job EXCEPT !.step = "page"]
  BY DEF BeginJob, Job
<1> HIDE DEF from, to, had
<1>7. /\ job.kind = kind /\ job.from = from /\ job.to = to /\ job.cursor = from /\ job.at = to
      /\ job.had = had /\ job.feed = 1 /\ job.pages = 0 /\ job.complete = FALSE
      /\ job.step = "idle"
  BY DEF IdleJob
<1>8. job \in JobRecord
  <2>1. IdleJob \in JobRecord
    BY DEF IdleJob, JobRecord
  <2>2. \A n \in JobRecord : [n EXCEPT !.kind = kind] \in JobRecord
    BY <1>2, JobOfKind
  <2>3. \A n \in JobRecord : [n EXCEPT !.from = from, !.to = to] \in JobRecord
    BY <1>1, JobOfRange
  <2>4. \A n \in JobRecord : [n EXCEPT !.cursor = from, !.at = to] \in JobRecord
    BY <1>1, JobOfRange
  <2>5. \A n \in JobRecord : [n EXCEPT !.had = had] \in JobRecord
    BY <1>5 DEF JobRecord
  <2>6. job = [[[[IdleJob EXCEPT !.kind = kind] EXCEPT !.from = from, !.to = to]
                  EXCEPT !.cursor = from, !.at = to] EXCEPT !.had = had]
    OBVIOUS
  <2> HIDE DEF job
  <2>7. QED
    BY <2>1, <2>2, <2>3, <2>4, <2>5, <2>6
<1> HIDE DEF job
<1>9. /\ archive' = archive /\ shows' = shows /\ barsHeld' = barsHeld /\ CircuitsOK'
  BY DEF BeginJob, WholeInv, CircuitsOK
<1>10. next \in JobRecord /\ JobOK(next, barsHeld, shows)
  <2>1. CASE kind = "orchestrated"
    <3>1. next = [job EXCEPT !.step = "choose"]
      BY <1>6, <2>1
    <3>2. next \in JobRecord
      BY <1>8, <3>1 DEF JobRecord
    <3>3. /\ next.kind = kind /\ next.from = from /\ next.to = to /\ next.cursor = from
          /\ next.at = to /\ next.had = had /\ next.complete = FALSE /\ next.step = "choose"
      BY <1>7, <1>8, <3>1 DEF JobRecord
    <3>4. QED
      BY <1>3, <1>4, <2>1, <3>2, <3>3 DEF JobOK, StepOK, ShownOK, StillReached
  <2>2. CASE kind = "chunks"
    <3>1. next = TakeChunk(job, from)
      BY <1>6, <2>2
    <3>2. /\ next \in JobRecord /\ next.had = had /\ next.from = from /\ next.to = to
          /\ next.feed = 1 /\ next.kind = kind /\ next.complete = FALSE
          /\ next.step \in {"done", "call"} /\ (next.step = "done" => from > to)
          /\ \A b \in Int : from <= b /\ b <= to =>
               next.step = "call" /\ (b \in next.cursor..next.at \/ b > next.at)
      <4>1. Chunked(job, from, next)
        BY <1>1, <1>8, <3>1, TakesChunk
      <4>2. QED
        BY <1>1, <1>7, <4>1 DEF Chunked
    <3>3. next.step = "call"
      BY <1>1, <3>2
    <3>4. StepOK(next) /\ ShownOK(next, shows)
      BY <1>3, <1>4, <2>2, <3>2, <3>3, FeedsAreNumbers DEF StepOK, ShownOK
    <3>5. \A b \in had : StillReached(next, b, barsHeld)
      BY <1>1, <1>3, <2>2, <3>2, <3>3 DEF StillReached
    <3>6. QED
      BY <2>2, <3>2, <3>4, <3>5 DEF JobOK
  <2>3. CASE kind = "gaps"
    <3>1. next = TakeGap(job, MissingIntervals(from, to))
      BY <1>6, <2>3
    <3>2. \A b \in had : b \in barsHeld \/ \E g \in MissingIntervals(from, to) : b \in g[1]..g[2]
      BY <1>1, <1>3, GapsCover DEF Missing
    <3>3. MissingIntervals(from, to) \subseteq Nat \X Nat
      BY <1>1, GapsAreNumbers
    <3>4. /\ next \in JobRecord /\ next.had = had /\ next.from = from /\ next.to = to
          /\ next.feed = 1 /\ next.kind = kind /\ next.complete = FALSE
          /\ next.step \in {"verify", "call"}
          /\ \A b : (\E g \in MissingIntervals(from, to) : b \in g[1]..g[2]) =>
               /\ next.step = "call"
               /\ b \in next.cursor..next.at \/ \E g \in next.left : b \in g[1]..g[2]
      <4>1. Gapped(job, MissingIntervals(from, to), next)
        BY <1>8, <3>1, <3>3, TakesGap
      <4>2. QED
        BY <1>7, <4>1 DEF Gapped
    <3>5. StepOK(next) /\ ShownOK(next, shows)
      BY <1>3, <1>4, <2>3, <3>4, FeedsAreNumbers DEF StepOK, ShownOK
    <3>6. \A b \in had : StillReached(next, b, barsHeld)
      BY <2>3, <3>2, <3>4 DEF StillReached
    <3>7. QED
      BY <2>3, <3>4, <3>5, <3>6 DEF JobOK
  <2>4. CASE kind = "load"
    <3>1. next = [job EXCEPT !.step = "call"]
      BY <1>6, <2>4
    <3>2. next \in JobRecord
      BY <1>8, <3>1 DEF JobRecord
    <3>3. /\ next.kind = kind /\ next.from = from /\ next.to = to /\ next.cursor = from
          /\ next.at = to /\ next.had = had /\ next.complete = FALSE /\ next.step = "call"
          /\ next.feed = 1
      BY <1>7, <1>8, <3>1 DEF JobRecord
    <3>4. QED
      BY <1>3, <1>4, <2>4, <3>2, <3>3, FeedsAreNumbers DEF JobOK, StepOK, ShownOK, StillReached
  <2>5. CASE kind = "pages"
    <3>1. next = [job EXCEPT !.step = "page"]
      BY <1>6, <2>5
    <3>2. next \in JobRecord
      BY <1>8, <3>1 DEF JobRecord
    <3>3. /\ next.kind = kind /\ next.from = from /\ next.to = to /\ next.pages = 0
          /\ next.had = had /\ next.complete = FALSE /\ next.step = "page" /\ next.feed = 1
      BY <1>7, <1>8, <3>1 DEF JobRecord
    <3>4. QED
      BY <1>3, <1>4, <2>5, <3>2, <3>3 DEF JobOK, StepOK, ShownOK, PagesOK
  <2>6. QED
    BY <1>2, <2>1, <2>2, <2>3, <2>4, <2>5
<1>11. QED
  BY <1>6, <1>9, <1>10, JobSteps

\* What is known of one job.
LEMMA OfJob ==
  ASSUME WholeInv, NEW j \in HistoryJobs
  PROVE  /\ jobs[j] \in JobRecord /\ StepOK(jobs[j]) /\ ShownOK(jobs[j], shows)
         /\ jobs[j].kind # "pages" /\ jobs[j].step \notin {"idle", "failed"} =>
              \A b \in jobs[j].had : StillReached(jobs[j], b, barsHeld)
         /\ jobs[j].kind = "pages" => PagesOK(jobs[j])
         /\ jobs[j].complete => jobs[j].from..jobs[j].to \subseteq barsHeld
BY DEF WholeInv, JobOK

\* A job that raises.
LEMMA JobFails ==
  ASSUME NEW job \in JobRecord, NEW held, NEW shown, JobOK(job, held, shown)
  PROVE  /\ [job EXCEPT !.step = "failed"] \in JobRecord
         /\ JobOK([job EXCEPT !.step = "failed"], held, shown)
<1> DEFINE next == [job EXCEPT !.step = "failed"]
<1>1. next \in JobRecord
  BY DEF JobRecord
<1>2. /\ next.step = "failed" /\ next.kind = job.kind /\ next.from = job.from
      /\ next.to = job.to /\ next.cursor = job.cursor /\ next.at = job.at
      /\ next.had = job.had /\ next.feed = job.feed /\ next.complete = job.complete
  BY DEF JobRecord
<1> HIDE DEF next
<1>3. JobOK(next, held, shown)
  BY <1>2 DEF JobOK, StepOK, ShownOK, PagesOK
<1>4. QED
  BY <1>1, <1>3 DEF next

LEMMA ChoosesWhole ==
  ASSUME WholeInv, NEW j \in HistoryJobs, ChooseFeed(j) PROVE WholeInv'
<1> DEFINE job == jobs[j]
           others == {f \in FeedNumbers : f >= job.feed /\ Available(f)}
<1>1. /\ job \in JobRecord /\ job.step = "choose" /\ job.kind = "orchestrated"
      /\ JobOK(job, barsHeld, shows)
  BY OfJob DEF ChooseFeed, StepOK, WholeInv
<1>2. /\ archive' = archive /\ shows' = shows /\ barsHeld' = barsHeld /\ CircuitsOK'
  BY DEF ChooseFeed, WholeInv, CircuitsOK
<1>3. CASE others = {}
  <2>1. jobs' = [jobs EXCEPT ![j] = [job EXCEPT !.step = "failed"]]
    BY <1>3 DEF ChooseFeed, Job
  <2>2. QED
    BY <1>1, <1>2, <2>1, JobFails, JobSteps
<1>4. CASE others # {}
  <2> DEFINE feed == Min(others)
             next == [job EXCEPT !.step = "call", !.feed = feed, !.attempt = 0]
  <2>1. jobs' = [jobs EXCEPT ![j] = next]
    BY <1>4 DEF ChooseFeed, Job
  <2>2. feed \in FeedNumbers /\ feed \in Nat
    BY <1>4, FeedsAreNumbers, LeastIs
  <2> HIDE DEF others, feed
  <2>3. next \in JobRecord
    <3>1. [job EXCEPT !.step = "call"] \in JobRecord
      BY <1>1 DEF JobRecord
    <3>2. \A n \in JobRecord : [n EXCEPT !.feed = feed, !.attempt = 0] \in JobRecord
      BY <2>2 DEF JobRecord
    <3>3. next = [[job EXCEPT !.step = "call"] EXCEPT !.feed = feed, !.attempt = 0]
      OBVIOUS
    <3> HIDE DEF next
    <3>4. QED
      BY <3>1, <3>2, <3>3
  <2>4. /\ next.step = "call" /\ next.kind = job.kind /\ next.from = job.from
        /\ next.to = job.to /\ next.cursor = job.cursor /\ next.at = job.at
        /\ next.had = job.had /\ next.feed = feed /\ next.complete = job.complete
    BY <1>1 DEF JobRecord
  <2> HIDE DEF next, job
  <2>5. JobOK(next, barsHeld, shows)
    BY <1>1, <2>2, <2>4 DEF JobOK, StepOK, ShownOK, StillReached
  <2>6. QED
    BY <1>2, <2>1, <2>3, <2>5, JobSteps
<1>5. QED
  BY <1>3, <1>4

LEMMA AnswersWhole ==
  ASSUME WholeInv, NEW j \in HistoryJobs, FeedAnswers(j) PROVE WholeInv'
<1> DEFINE job == jobs[j]
           came == (job.cursor..job.at) \cap shows[job.feed]
           next == [job EXCEPT !.step = "store", !.rows = came]
<1>1. /\ job \in JobRecord /\ job.step = "call" /\ JobOK(job, barsHeld, shows)
      /\ jobs' = [jobs EXCEPT ![j] = next]
      /\ archive' = archive /\ shows' = shows /\ barsHeld' = barsHeld
      /\ job.feed \in FeedNumbers
  BY OfJob DEF FeedAnswers, Job, WholeInv, ShownOK
<1>2. CircuitsOK'
  <2>1. feedNow' = feedNow
        /\ circuits' \in {circuits, [circuits EXCEPT ![job.feed] = ClosedCircuit]}
    BY DEF FeedAnswers
  <2>2. ClosedCircuit \in Circuit /\ ClosedCircuit.failures = 0 /\ ClosedCircuit.openUntil = 0
    BY DEF ClosedCircuit, Circuit
  <2>3. CASE circuits' = circuits
    BY <2>1, <2>3 DEF WholeInv, CircuitsOK
  <2>4. CASE circuits' = [circuits EXCEPT ![job.feed] = ClosedCircuit]
    BY <1>1, <2>1, <2>2, <2>4 DEF WholeInv, CircuitsOK
  <2>5. QED
    BY <2>1, <2>3, <2>4
<1>3. came \subseteq Int
  BY <1>1 DEF WholeInv
<1>4. next \in JobRecord
  BY <1>1, <1>3 DEF JobRecord
<1>5. /\ next.step = "store" /\ next.kind = job.kind /\ next.from = job.from
      /\ next.to = job.to /\ next.cursor = job.cursor /\ next.at = job.at
      /\ next.had = job.had /\ next.feed = job.feed /\ next.complete = job.complete
      /\ next.rows = came /\ next.left = job.left
  BY <1>1 DEF JobRecord
<1>6. \A b \in job.had : b \in job.cursor..job.at => b \in came
  BY <1>1 DEF JobOK, ShownOK, StepOK
<1> HIDE DEF next, job, came
<1>7. StepOK(next) /\ ShownOK(next, shows)
  BY <1>1, <1>5 DEF JobOK, StepOK, ShownOK
<1>8. \A b \in job.had : StillReached(next, b, barsHeld)
  <2>1. \A b \in job.had : StillReached(job, b, barsHeld)
    BY <1>1 DEF JobOK, StepOK
  <2>2. QED
    BY <1>1, <1>5, <1>6, <2>1 DEF StillReached
<1>9. JobOK(next, barsHeld, shows)
  BY <1>1, <1>5, <1>7, <1>8 DEF JobOK, StepOK
<1>10. QED
  BY <1>1, <1>2, <1>4, <1>9, JobSteps

LEMMA FailsWhole ==
  ASSUME WholeInv, NEW j \in HistoryJobs, FeedFails(j) PROVE WholeInv'
<1> DEFINE job == jobs[j]
<1>1. /\ job \in JobRecord /\ job.step = "call" /\ JobOK(job, barsHeld, shows)
      /\ archive' = archive /\ shows' = shows /\ barsHeld' = barsHeld
      /\ job.feed \in FeedNumbers /\ feedNow' = feedNow
  BY OfJob DEF FeedFails, WholeInv, ShownOK
<1>2. CASE circuits' = circuits /\ Job(j, [job EXCEPT !.attempt = @ + 1])
  <2> DEFINE next == [job EXCEPT !.attempt = job.attempt + 1]
  <2>1. next \in JobRecord
    <3>1. job.attempt + 1 \in Nat
      BY <1>1 DEF JobRecord
    <3>2. \A n \in Nat : [job EXCEPT !.attempt = n] \in JobRecord
      BY <1>1 DEF JobRecord
    <3>3. QED
      BY <3>1, <3>2
  <2>2. /\ next.step = job.step /\ next.kind = job.kind /\ next.from = job.from
        /\ next.to = job.to /\ next.cursor = job.cursor /\ next.at = job.at
        /\ next.had = job.had /\ next.feed = job.feed /\ next.complete = job.complete
        /\ next.left = job.left
    BY <1>1 DEF JobRecord
  <2>3. jobs' = [jobs EXCEPT ![j] = next]
    BY <1>2 DEF Job
  <2> HIDE DEF next, job
  <2>4. StepOK(next) /\ ShownOK(next, shows) /\ job.kind # "pages"
    BY <1>1, <2>2 DEF JobOK, StepOK, ShownOK
  <2>5. \A b \in job.had : StillReached(next, b, barsHeld)
    <3>1. \A b \in job.had : StillReached(job, b, barsHeld)
      BY <1>1, <2>4 DEF JobOK
    <3>2. QED
      BY <1>1, <2>2, <3>1 DEF StillReached
  <2>6. JobOK(next, barsHeld, shows)
    BY <1>1, <2>2, <2>4, <2>5 DEF JobOK
  <2>7. CircuitsOK'
    BY <1>1, <1>2 DEF WholeInv, CircuitsOK
  <2>8. QED
    BY <1>1, <2>1, <2>3, <2>6, <2>7, JobSteps
<1>3. CASE /\ job.kind = "orchestrated" /\ Job(j, [job EXCEPT !.step = "choose", !.feed = @ + 1])
           /\ circuits' = [circuits EXCEPT ![job.feed] = Failure(@)]
  <2> DEFINE next == [job EXCEPT !.step = "choose", !.feed = job.feed + 1]
             failed == Failure(circuits[job.feed])
  <2>1. next \in JobRecord
    <3>1. job.feed + 1 \in Nat
      BY <1>1 DEF JobRecord
    <3>2. \A n \in Nat : [job EXCEPT !.step = "choose", !.feed = n] \in JobRecord
      <4>1. [job EXCEPT !.step = "choose"] \in JobRecord
        BY <1>1 DEF JobRecord
      <4>2. \A r \in JobRecord, n \in Nat : [r EXCEPT !.feed = n] \in JobRecord
        BY DEF JobRecord
      <4>3. \A n \in Nat : [job EXCEPT !.step = "choose", !.feed = n]
                               = [[job EXCEPT !.step = "choose"] EXCEPT !.feed = n]
        OBVIOUS
      <4>4. QED
        BY <4>1, <4>2, <4>3
    <3>3. QED
      BY <3>1, <3>2
  <2>2. /\ next.step = "choose" /\ next.kind = job.kind /\ next.from = job.from
        /\ next.to = job.to /\ next.cursor = job.cursor /\ next.at = job.at
        /\ next.had = job.had /\ next.complete = job.complete
    BY <1>1 DEF JobRecord
  <2>3. jobs' = [jobs EXCEPT ![j] = next]
    BY <1>3 DEF Job
  <2>4. circuits' = [circuits EXCEPT ![job.feed] = failed]
    BY <1>3
  <2>5. circuits[job.feed] \in Circuit /\ feedNow \in Nat
        /\ (circuits[job.feed].failures >= FeedThreshold <=> circuits[job.feed].openUntil > 0)
    BY <1>1 DEF WholeInv, CircuitsOK
  <2>6. failed \in Circuit /\ (failed.failures >= FeedThreshold <=> failed.openUntil > 0)
    <3> DEFINE c == circuits[job.feed]
    <3>1. /\ c.failures \in Nat /\ c.openUntil \in Nat /\ feedNow \in Nat
          /\ (c.failures >= FeedThreshold <=> c.openUntil > 0)
      BY <2>5 DEF Circuit
    <3>2. failed = [failures |-> c.failures + 1,
                    openUntil |-> IF c.failures + 1 >= FeedThreshold
                                  THEN feedNow + FeedCooldown ELSE c.openUntil]
      BY DEF Failure
    <3>3. FeedThreshold \in Nat \ {0} /\ FeedCooldown \in Nat \ {0}
      OBVIOUS
    <3> HIDE DEF c, failed
    <3> HIDE HistoryFetchAssumption
    <3>4. /\ failed.failures = c.failures + 1
          /\ failed.openUntil = IF c.failures + 1 >= FeedThreshold
                                THEN feedNow + FeedCooldown ELSE c.openUntil
      BY <3>2
    <3>5. /\ failed.failures \in Nat /\ failed.openUntil \in Nat
          /\ (failed.failures >= FeedThreshold <=> failed.openUntil > 0)
      <4>1. CASE c.failures + 1 >= FeedThreshold
        BY <3>1, <3>3, <3>4, <4>1
      <4>2. CASE ~(c.failures + 1 >= FeedThreshold)
        BY <3>1, <3>3, <3>4, <4>2
      <4>3. QED
        BY <4>1, <4>2
    <3>6. failed \in Circuit
      BY <3>2, <3>4, <3>5 DEF Circuit
    <3>7. QED
      BY <3>5, <3>6
  <2> HIDE DEF next, job, failed
  <2>7. CircuitsOK'
    BY <1>1, <2>4, <2>6 DEF WholeInv, CircuitsOK
  <2>8. JobOK(next, barsHeld, shows)
    BY <1>1, <1>3, <2>2 DEF JobOK, StepOK, ShownOK, StillReached
  <2>9. QED
    BY <1>1, <2>1, <2>3, <2>7, <2>8, JobSteps
<1>4. CASE circuits' = circuits /\ Job(j, GivesUp(job))
  <2>1. jobs' = [jobs EXCEPT ![j] = [job EXCEPT !.step = "failed"]]
    BY <1>4 DEF Job, GivesUp
  <2>2. CircuitsOK'
    BY <1>1, <1>4 DEF WholeInv, CircuitsOK
  <2>3. QED
    BY <1>1, <2>1, <2>2, JobFails, JobSteps
<1>5. QED
  BY <1>2, <1>3, <1>4 DEF FeedFails

LEMMA StoresWhole ==
  ASSUME WholeInv, NEW j \in HistoryJobs, StoreRows(j) PROVE WholeInv'
<1> DEFINE job == jobs[j]
<1>1. /\ job \in JobRecord /\ job.step = "store" /\ JobOK(job, barsHeld, shows)
      /\ archive' = archive /\ shows' = shows /\ barsHeld' = barsHeld \cup job.rows
      /\ job.feed \in FeedNumbers
      /\ job.kind \in {"orchestrated", "chunks", "gaps", "load"}
  BY OfJob DEF StoreRows, Upserted, WholeInv, ShownOK, StepOK
<1>2. CircuitsOK'
  BY DEF StoreRows, WholeInv, CircuitsOK
<1>3. /\ job.had \subseteq job.from..job.to
      /\ job.kind # "orchestrated" => job.feed = 1 /\ job.had \subseteq shows[1]
      /\ job.kind = "orchestrated" =>
           /\ \A f \in FeedNumbers : job.had \subseteq shows[f]
           /\ job.cursor = job.from /\ job.at = job.to
      /\ job.complete => job.from..job.to \subseteq barsHeld'
      /\ \A b \in job.had : StillReached(job, b, barsHeld)
  BY <1>1 DEF JobOK, ShownOK
<1>4. \A b \in job.had :
        \/ b \in barsHeld'
        \/ job.kind = "chunks" /\ b > job.at
        \/ job.kind = "gaps" /\ \E g \in job.left : b \in g[1]..g[2]
  BY <1>1, <1>3 DEF StillReached
<1>5. SUFFICES \E next \in JobRecord : /\ jobs' = [jobs EXCEPT ![j] = next]
                                       /\ JobOK(next, barsHeld', shows)
  BY <1>1, <1>2, JobSteps
<1>6. CASE job.kind = "chunks"
  <2> DEFINE next == TakeChunk(job, job.at + 1)
  <2>1. jobs' = [jobs EXCEPT ![j] = next]
    BY <1>6 DEF StoreRows, Job
  <2>2. job.at \in Int /\ job.from \in Nat /\ job.to \in Nat
    BY <1>1 DEF JobRecord
  <2>3. Chunked(job, job.at + 1, next)
    BY <1>1, <2>2, TakesChunk
  <2> HIDE DEF next, job
  <2>4. StepOK(next) /\ ShownOK(next, shows)
    BY <1>1, <1>3, <1>6, <2>3 DEF Chunked, StepOK, ShownOK
  <2>5. \A b \in job.had : StillReached(next, b, barsHeld')
    <3> TAKE b \in job.had
    <3>1. b \in Int /\ b <= job.to
      BY <1>3, <2>2
    <3>2. CASE b \in barsHeld'
      BY <3>2 DEF StillReached
    <3>3. CASE b > job.at
      <4>1. job.at + 1 <= b
        BY <2>2, <3>1, <3>3
      <4>2. next.step = "call" /\ (b \in next.cursor..next.at \/ b > next.at)
        BY <2>3, <3>1, <4>1 DEF Chunked
      <4>3. QED
        BY <1>6, <2>3, <4>2 DEF StillReached, Chunked
    <3>4. QED
      BY <1>4, <1>6, <3>2, <3>3
  <2>6. next \in JobRecord /\ JobOK(next, barsHeld', shows)
    BY <1>3, <1>6, <2>3, <2>4, <2>5 DEF Chunked, JobOK
  <2>7. QED
    BY <2>1, <2>6
<1>7. CASE job.kind = "gaps"
  <2> DEFINE next == TakeGap(job, job.left)
  <2>1. jobs' = [jobs EXCEPT ![j] = next]
    BY <1>7 DEF StoreRows, Job
  <2>2. job.left \subseteq Nat \X Nat
    BY <1>1 DEF JobRecord
  <2>3. Gapped(job, job.left, next)
    BY <1>1, <2>2, TakesGap
  <2> HIDE DEF next, job
  <2>4. StepOK(next) /\ ShownOK(next, shows)
    BY <1>1, <1>3, <1>7, <2>3 DEF Gapped, StepOK, ShownOK
  <2>5. \A b \in job.had : StillReached(next, b, barsHeld')
    <3> TAKE b \in job.had
    <3>1. CASE b \in barsHeld'
      BY <3>1 DEF StillReached
    <3>2. CASE \E g \in job.left : b \in g[1]..g[2]
      <4>1. next.step = "call"
            /\ (b \in next.cursor..next.at \/ \E g \in next.left : b \in g[1]..g[2])
        BY <2>3, <3>2 DEF Gapped
      <4>2. QED
        BY <1>7, <2>3, <4>1 DEF StillReached, Gapped
    <3>3. QED
      BY <1>4, <1>7, <3>1, <3>2
  <2>6. next \in JobRecord /\ JobOK(next, barsHeld', shows)
    BY <1>3, <1>7, <2>3, <2>4, <2>5 DEF Gapped, JobOK
  <2>7. QED
    BY <2>1, <2>6
<1>8. CASE job.kind \in {"orchestrated", "load"}
  <2> DEFINE step == IF job.kind = "orchestrated" THEN "verify" ELSE "done"
             next == [job EXCEPT !.step = step]
  <2>1. jobs' = [jobs EXCEPT ![j] = next]
    <3>1. CASE job.kind = "orchestrated"
      BY <3>1 DEF StoreRows, Job
    <3>2. CASE job.kind = "load"
      BY <3>2 DEF StoreRows, Job
    <3>3. QED
      BY <1>8, <3>1, <3>2
  <2>2. next \in JobRecord
    <3>1. [job EXCEPT !.step = "verify"] \in JobRecord /\ [job EXCEPT !.step = "done"] \in JobRecord
      BY <1>1 DEF JobRecord
    <3>2. QED
      BY <3>1
  <2>3. /\ next.step = step /\ next.kind = job.kind /\ next.from = job.from
        /\ next.to = job.to /\ next.cursor = job.cursor /\ next.at = job.at
        /\ next.had = job.had /\ next.complete = job.complete /\ next.feed = job.feed
    BY <1>1 DEF JobRecord
  <2> HIDE DEF next, job
  <2>4. \A b \in job.had : b \in barsHeld'
    BY <1>4, <1>8
  <2>5. StepOK(next) /\ ShownOK(next, shows)
    BY <1>1, <1>3, <1>8, <2>3 DEF StepOK, ShownOK
  <2>6. JobOK(next, barsHeld', shows)
    BY <1>3, <1>8, <2>3, <2>4, <2>5 DEF JobOK, StillReached
  <2>7. QED
    BY <2>1, <2>2, <2>6
<1>9. QED
  BY <1>1, <1>6, <1>7, <1>8

LEMMA VerifiesWhole ==
  ASSUME WholeInv, NEW j \in HistoryJobs, Verify(j) PROVE WholeInv'
<1> DEFINE job == jobs[j]
           complete == MissingIntervals(job.from, job.to) = {}
           next == [job EXCEPT !.step = "done", !.complete = complete]
<1>1. /\ job \in JobRecord /\ job.step = "verify" /\ JobOK(job, barsHeld, shows)
      /\ archive' = archive /\ shows' = shows /\ barsHeld' = barsHeld
      /\ jobs' = [jobs EXCEPT ![j] = next]
      /\ job.kind \in {"orchestrated", "gaps"}
  BY OfJob DEF Verify, Job, WholeInv, StepOK
<1>2. CircuitsOK'
  BY DEF Verify, WholeInv, CircuitsOK
<1>3. next \in JobRecord
  <2>1. [job EXCEPT !.step = "done"] \in JobRecord
    BY <1>1 DEF JobRecord
  <2>2. \A r \in JobRecord, n \in BOOLEAN : [r EXCEPT !.complete = n] \in JobRecord
    BY DEF JobRecord
  <2>3. complete \in BOOLEAN /\ next = [[job EXCEPT !.step = "done"] EXCEPT !.complete = complete]
    OBVIOUS
  <2>4. QED
    BY <2>1, <2>2, <2>3, Zenon
<1>4. /\ next.step = "done" /\ next.kind = job.kind /\ next.from = job.from
      /\ next.to = job.to /\ next.cursor = job.cursor /\ next.at = job.at
      /\ next.had = job.had /\ next.feed = job.feed /\ next.complete = complete
  BY <1>1 DEF JobRecord
<1>5. complete => job.from..job.to \subseteq barsHeld
  <2>1. job.from \in Nat /\ job.to \in Nat
    BY <1>1 DEF JobRecord
  <2>2. complete => Missing(job.from, job.to) = {}
    BY <2>1, GapsCover
  <2>3. QED
    BY <2>2 DEF Missing
<1> HIDE DEF complete, next, job
<1>6. \A b \in job.had : b \in barsHeld
  BY <1>1 DEF JobOK, StillReached
<1>7. StepOK(next) /\ ShownOK(next, shows)
  BY <1>1, <1>4 DEF JobOK, StepOK, ShownOK
<1>8. JobOK(next, barsHeld', shows)
  BY <1>1, <1>4, <1>5, <1>6, <1>7 DEF JobOK, StillReached
<1>9. QED
  BY <1>1, <1>2, <1>3, <1>8, JobSteps

\* A page holds the first of what is left: nothing before its last candle is passed over,
\* and an empty page means that nothing is left.
LEMMA PageIsFirst ==
  ASSUME NEW rest, NEW from \in Nat, NEW to \in Nat, rest \subseteq from..to, NEW page,
         page = {b \in rest : Cardinality({c \in rest : c < b}) < PageBars}
  PROVE  /\ page \subseteq rest /\ (page = {} => rest = {})
         /\ \A b \in rest, m \in page : b <= m => b \in page
<1>1. IsFiniteSet(rest)
  <2>1. from \in Int /\ to \in Int
    OBVIOUS
  <2>2. IsFiniteSet(from..to)
    BY <2>1, FS_Interval
  <2>3. QED
    BY <2>2, FS_Subset
<1>2. \A b \in rest : b \in Int
  OBVIOUS
<1>3. ASSUME NEW b \in rest, NEW m \in page, b <= m PROVE b \in page
  <2>1. {c \in rest : c < b} \subseteq {c \in rest : c < m}
    <3>1. m \in rest
      OBVIOUS
    <3>2. ASSUME NEW c \in rest, c < b PROVE c < m
      <4>1. c \in Int /\ b \in Int /\ m \in Int
        BY <1>2, <3>1
      <4>2. QED
        BY <1>3, <3>2, <4>1
    <3>3. QED
      BY <3>2
  <2>2. IsFiniteSet({c \in rest : c < m}) /\ Cardinality({c \in rest : c < m}) < PageBars
    BY <1>1, FS_Subset
  <2>3. /\ Cardinality({c \in rest : c < b}) <= Cardinality({c \in rest : c < m})
        /\ Cardinality({c \in rest : c < b}) \in Nat /\ Cardinality({c \in rest : c < m}) \in Nat
    BY <2>1, <2>2, FS_Subset, FS_CardinalityType
  <2>4. QED
    BY <2>2, <2>3
<1>4. ASSUME rest # {} PROVE page # {}
  <2>1. rest \subseteq Nat
    BY <1>2
  <2>2. PICK least \in rest : \A c \in rest : least <= c
    BY <1>4, <2>1, LeastNumber
  <2>3. {c \in rest : c < least} = {}
    <3>1. ASSUME NEW c \in rest PROVE ~(c < least)
      <4>1. c \in Int /\ least \in Int /\ least <= c
        BY <1>2, <2>2
      <4>2. QED
        BY <4>1
    <3>2. QED
      BY <3>1
  <2>4. Cardinality({c \in rest : c < least}) = 0
    BY <2>3, FS_EmptySet
  <2>5. QED
    BY <2>4
<1>5. QED
  BY <1>3, <1>4

LEMMA PagesWhole ==
  ASSUME WholeInv, NEW j \in HistoryJobs, PageComes(j) PROVE WholeInv'
<1> DEFINE job == jobs[j]
           shown == (job.from..job.to) \cap shows[1]
           more(page) == page # {} /\ \E b \in shown : b > Max(page)
           upTo(page) == IF page = {} THEN job.cursor ELSE Max(page)
           step(page) == IF ~more(page) THEN "done"
                         ELSE IF job.pages + 1 < MaxPages THEN "page" ELSE "failed"
           next(page) == [job EXCEPT !.rows = job.rows \cup page, !.pages = job.pages + 1,
                                     !.cursor = upTo(page), !.step = step(page)]
           rest(again) == {b \in shown : \/ job.pages = 0 \/ b > job.cursor
                                         \/ (again /\ b = job.cursor)}
<1>1. /\ job \in JobRecord /\ job.step = "page" /\ JobOK(job, barsHeld, shows)
      /\ archive' = archive /\ shows' = shows /\ barsHeld' = barsHeld
      /\ job.kind = "pages"
  BY OfJob DEF PageComes, WholeInv, StepOK
<1>2. CircuitsOK'
  BY DEF PageComes, WholeInv, CircuitsOK
<1>3. PICK again \in BOOLEAN :
        jobs' = [jobs EXCEPT ![j] = next(PageFrom(job, again /\ PageBars > 1))]
  BY DEF PageComes, Job
<1> DEFINE once == again /\ PageBars > 1
           page == PageFrom(job, once)
           after == next(page)
<1>4. page = {b \in rest(once) : Cardinality({c \in rest(once) : c < b}) < PageBars}
  BY DEF PageFrom
<1>5. job.from \in Nat /\ job.to \in Nat /\ job.cursor \in Int /\ job.pages \in Nat
      /\ job.rows \subseteq Int
  BY <1>1 DEF JobRecord
<1>6. /\ job.had \subseteq job.from..job.to /\ job.had \subseteq shows[1] /\ job.feed = 1
      /\ (job.pages > 0 => \A b \in job.had : b <= job.cursor => b \in job.rows)
      /\ (job.complete => job.from..job.to \subseteq barsHeld)
  BY <1>1 DEF JobOK, ShownOK, PagesOK
<1>7. rest(once) \subseteq job.from..job.to /\ shown \subseteq job.from..job.to
  OBVIOUS
<1>8. /\ page \subseteq rest(once) /\ (page = {} => rest(once) = {})
      /\ \A b \in rest(once), m \in page : b <= m => b \in page
  <2> DEFINE R == rest(once)
  <2>1. page = {b \in R : Cardinality({c \in R : c < b}) < PageBars}
    BY <1>4
  <2>2. R \subseteq job.from..job.to
    BY <1>7
  <2>0. job.from \in Nat /\ job.to \in Nat
    BY <1>5
  <2> HIDE DEF page, R, job
  <2>3. /\ page \subseteq R /\ (page = {} => R = {})
        /\ \A b \in R, m \in page : b <= m => b \in page
    BY <2>0, <2>1, <2>2, PageIsFirst, Zenon
  <2>4. QED
    BY <2>3 DEF R
<1>9. page \subseteq job.from..job.to
  BY <1>7, <1>8
<1>10. page # {} => Max(page) \in page /\ Max(page) \in Int
  <2> HIDE DEF page, job
  <2> SUFFICES ASSUME page # {} PROVE Max(page) \in page /\ Max(page) \in Int
    OBVIOUS
  <2>1. Max(page) \in page
    BY <1>5, <1>9, GreatestIs
  <2>2. ASSUME NEW b \in page PROVE b \in Int
    <3>1. b \in job.from..job.to
      BY <1>9
    <3>2. QED
      BY <1>5, <3>1
  <2>3. QED
    BY <2>1, <2>2, Zenon
<1>11. \A b \in job.had : b \in rest(once) \/ b \in job.rows
  <2>1. ASSUME NEW b \in job.had, b \notin rest(once) PROVE b \in job.rows
    <3>1. b \in shown /\ b \in Int
      BY <1>5, <1>6
    <3>2. job.pages # 0 /\ ~(b > job.cursor)
      BY <2>1, <3>1
    <3> HIDE DEF job
    <3>3. job.pages > 0 /\ b <= job.cursor
      BY <1>5, <3>1, <3>2
    <3>4. QED
      BY <1>6, <3>3
  <2>2. QED
    BY <2>1
<1>12. page # {} => \A b \in job.had : b <= Max(page) => b \in job.rows \cup page
  <2> HIDE DEF page, rest, job
  <2>1. QED
    BY <1>8, <1>10, <1>11
<1>13. ~more(page) => job.had \subseteq job.rows \cup page
  <2>1. job.had \subseteq shown
    BY <1>6
  <2>2. page # {} /\ ~more(page) => \A b \in job.had : b <= Max(page)
    <3>1. \A b \in job.had : b \in Int
      BY <1>5, <1>6
    <3>2. page # {} /\ ~more(page) => \A b \in shown : ~(b > Max(page))
      OBVIOUS
    <3> HIDE DEF page, rest, job, shown, more
    <3>3. QED
      BY <1>10, <2>1, <3>1, <3>2
  <2> HIDE DEF page, rest, job, shown
  <2>3. QED
    BY <1>8, <1>11, <1>12, <2>2
<1>14. /\ upTo(page) \in Int /\ job.pages + 1 \in Nat /\ job.rows \cup page \in SUBSET Int
       /\ step(page) \in {"done", "page", "failed"}
  BY <1>5, <1>9, <1>10
<1>15. after \in JobRecord
  <2> DEFINE rows == job.rows \cup page
             pages == job.pages + 1
             last == upTo(page)
             then == step(page)
  <2>1. after = [[job EXCEPT !.rows = rows, !.pages = pages]
                   EXCEPT !.cursor = last, !.step = then]
    OBVIOUS
  <2>2. rows \in SUBSET Int /\ pages \in Nat /\ last \in Int /\ then \in {"done", "page", "failed"}
    BY <1>14
  <2> HIDE DEF rows, pages, last, then, job, after
  <2>3. [job EXCEPT !.rows = rows, !.pages = pages] \in JobRecord
    BY <1>1, <2>2 DEF JobRecord
  <2>4. \A n \in JobRecord : [n EXCEPT !.cursor = last] \in JobRecord
    BY <2>2 DEF JobRecord
  <2>5. \A n \in JobRecord : [n EXCEPT !.step = then] \in JobRecord
    <3>1. then \in {"idle", "choose", "call", "store", "verify", "page", "done", "failed"}
      BY <2>2
    <3>2. QED
      BY <3>1, JobAtStep
  <2>6. \A n : [n EXCEPT !.cursor = last, !.step = then]
                 = [[n EXCEPT !.cursor = last] EXCEPT !.step = then]
    OBVIOUS
  <2>7. QED
    BY <2>1, <2>3, <2>4, <2>5, <2>6
<1>16. /\ after.step = step(page) /\ after.kind = job.kind /\ after.from = job.from
       /\ after.to = job.to /\ after.cursor = upTo(page) /\ after.rows = job.rows \cup page
       /\ after.had = job.had /\ after.feed = job.feed /\ after.complete = job.complete
  <2> DEFINE rows == job.rows \cup page
             pages == job.pages + 1
             last == upTo(page)
             then == step(page)
  <2>1. after = [job EXCEPT !.rows = rows, !.pages = pages, !.cursor = last, !.step = then]
    OBVIOUS
  <2> HIDE DEF rows, pages, last, then, job, after
  <2>2. /\ after.step = then /\ after.kind = job.kind /\ after.from = job.from
        /\ after.to = job.to /\ after.cursor = last /\ after.rows = rows
        /\ after.had = job.had /\ after.feed = job.feed /\ after.complete = job.complete
    BY <1>1, <2>1 DEF JobRecord
  <2>3. QED
    BY <2>2 DEF rows, last, then
<1>17. step(page) = "page" => more(page)
  OBVIOUS
<1>18. step(page) = "done" => ~more(page)
  OBVIOUS
<1>19. PagesOK(after)
  <2>1. after.step = "page" => \A b \in after.had : b <= after.cursor => b \in after.rows
    <3>1. step(page) = "page" => page # {} /\ upTo(page) = Max(page)
      BY <1>17
    <3> HIDE DEF after, page, job, upTo, step
    <3>2. QED
      BY <1>12, <1>16, <3>1
  <2>2. after.step = "done" => after.had \subseteq after.rows
    <3> HIDE DEF after, page, job, upTo, step, more
    <3>1. QED
      BY <1>13, <1>16, <1>18
  <2>3. QED
    BY <2>1, <2>2 DEF PagesOK
<1>20. JobOK(after, barsHeld, shows)
  <2> HIDE DEF after, page, job, upTo, step, more
  <2>1. QED
    BY <1>1, <1>6, <1>14, <1>16, <1>19 DEF JobOK, StepOK, ShownOK
<1>21. QED
  <2> HIDE DEF after, job
  <2>1. jobs' = [jobs EXCEPT ![j] = after]
    BY <1>3 DEF after, job
  <2>2. QED
    BY <1>1, <1>2, <1>15, <1>20, <2>1, JobSteps

LEMMA PageFailsWhole ==
  ASSUME WholeInv, NEW j \in HistoryJobs, PageFails(j) PROVE WholeInv'
<1>1. /\ jobs[j] \in JobRecord /\ JobOK(jobs[j], barsHeld, shows)
      /\ archive' = archive /\ shows' = shows /\ barsHeld' = barsHeld
      /\ jobs' = [jobs EXCEPT ![j] = [jobs[j] EXCEPT !.step = "failed"]]
  BY DEF PageFails, Job, WholeInv
<1>2. CircuitsOK'
  BY DEF PageFails, WholeInv, CircuitsOK
<1>3. QED
  BY <1>1, <1>2, JobFails, JobSteps

LEMMA ShowsWhole ==
  ASSUME WholeInv, NEW f \in FeedNumbers, NEW b \in SeriesBars, FeedShows(f, b) PROVE WholeInv'
<1>1. /\ archive' = archive /\ barsHeld' = barsHeld /\ jobs' = jobs
      /\ shows' = [shows EXCEPT ![f] = shows[f] \cup {b}]
  BY DEF FeedShows
<1>2. CircuitsOK'
  BY DEF FeedShows, WholeInv, CircuitsOK
<1>3. shows' \in [FeedNumbers -> SUBSET Int] /\ \A g \in FeedNumbers : shows[g] \subseteq shows'[g]
  BY <1>1 DEF WholeInv, SeriesBars
<1>4. ASSUME NEW k \in HistoryJobs PROVE JobOK(jobs'[k], barsHeld', shows')
  BY <1>1, <1>3, JobGrows DEF WholeInv
<1>5. QED
  BY <1>1, <1>2, <1>3, <1>4 DEF WholeInv

LEMMA TimeWhole == ASSUME WholeInv, FeedTime PROVE WholeInv'
BY DEF FeedTime, WholeInv, CircuitsOK

LEMMA FetchesWhole == WholeInv /\ [FetchNext]_fetchVars => WholeInv'
<1> SUFFICES ASSUME WholeInv, [FetchNext]_fetchVars PROVE WholeInv'
  OBVIOUS
<1>1. CASE UNCHANGED fetchVars
  BY <1>1 DEF fetchVars, WholeInv, CircuitsOK
<1>2. ASSUME NEW j \in HistoryJobs, NEW kind \in KindsFor[archive], NEW range \in HistoryRanges,
             BeginJob(j, kind, range[1], range[2])
      PROVE  WholeInv'
  BY <1>2, BeginsWhole
<1>3. ASSUME NEW j \in HistoryJobs,
             \/ ChooseFeed(j) \/ FeedAnswers(j) \/ FeedFails(j) \/ StoreRows(j) \/ Verify(j)
             \/ PageComes(j) \/ PageFails(j)
      PROVE  WholeInv'
  BY <1>3, ChoosesWhole, AnswersWhole, FailsWhole, StoresWhole, VerifiesWhole, PagesWhole,
     PageFailsWhole
<1>4. ASSUME NEW f \in FeedNumbers, NEW b \in SeriesBars, FeedShows(f, b) PROVE WholeInv'
  BY <1>4, ShowsWhole
<1>5. QED
  BY <1>1, <1>2, <1>3, <1>4, TimeWhole DEF FetchNext

LEMMA WholeIsWhole == WholeInv => HistoryIsWhole
<1> SUFFICES ASSUME WholeInv PROVE HistoryIsWhole
  OBVIOUS
<1>1. ASSUME NEW j \in HistoryJobs, jobs[j].step = "done"
      PROVE  /\ jobs[j].had \subseteq IF jobs[j].kind = "pages" THEN jobs[j].rows ELSE barsHeld
             /\ jobs[j].complete => jobs[j].from..jobs[j].to \subseteq barsHeld
  BY <1>1, OfJob DEF PagesOK, StillReached
<1>2. QED
  BY <1>1 DEF WholeInv, CircuitsOK, HistoryIsWhole

\* A job that ends has every candle its feed showed as it began, whichever of the five ways
\* it fetched them and whatever feeds, retries and other jobs did meanwhile; and a feed is
\* kept out exactly after too many failures in a row.
THEOREM HistoryCorrect == FetchSpec => []HistoryIsWhole
BY WholeStarts, FetchesWhole, WholeIsWhole, PTL DEF FetchSpec

HIDE HistoryFetchAssumption

-----------------------------------------------------------------------------
(* Charts that grow by a bar.                                               *)

USE ChartAssumption

\* d is c and one bar more.
Longer(c, d) ==
  /\ c \in Seq(ChartBars) /\ d \in Seq(ChartBars) /\ Len(d) = Len(c) + 1
  /\ \A i \in 1..Len(c) : d[i] = c[i]

LEMMA LongerBars ==
  ASSUME NEW c, NEW d, Longer(c, d)
  PROVE  /\ Len(c) \in Nat /\ Len(d) = Len(c) + 1
         /\ DOMAIN c = 1..Len(c) /\ DOMAIN d = 1..Len(d)
         /\ \A i \in 1..Len(c) : d[i] = c[i] /\ c[i] \in ChartBars
         /\ \A i \in 1..Len(d) : d[i] \in ChartBars
BY DEF Longer

LEMMA BarTypes ==
  ASSUME NEW b \in ChartBars
  PROVE  /\ b.low \in Int /\ b.high \in Int /\ b.open \in Int /\ b.close \in Int
         /\ \A kind : Level(b, kind) \in Int
BY DEF Level

\* A set of swings that grows by swings at one bar, later than all the others.
Grown(S, T, k) ==
  /\ k \in Int /\ S \subseteq T
  /\ \A t \in T : t.at \in Nat /\ t.at <= k /\ t.kind \in SwingKinds /\ t.price \in Int
  /\ \A s \in S : s.at < k
  /\ \A t \in T \ S : t.at = k

LEMMA StandsStill ==
  ASSUME NEW c, NEW d, Longer(c, d), NEW i \in 1..Len(c),
         NEW around \in SUBSET (1..Len(c)), NEW kind
  PROVE  Stands(d, i, around, kind) <=> Stands(c, i, around, kind)
<1>1. \A j \in 1..Len(c) : d[j] = c[j]
  BY DEF Longer
<1>2. QED
  BY <1>1 DEF Stands

LEMMA SwingsOf ==
  ASSUME NEW c, NEW is, NEW before, NEW after, NEW s
  PROVE  s \in SwingsAt(c, is, before, after) <=>
           \E i \in is, kind \in SwingKinds :
             Stands(c, i, (i - before)..(i + after), kind) /\ s = Swing(c, i, kind)
<1> DEFINE P(i, kind) == Stands(c, i, (i - before)..(i + after), kind)
           N == {p \in is \X SwingKinds : P(p[1], p[2])}
<1>1. SwingsAt(c, is, before, after) = {Swing(c, n[1], n[2]) : n \in N}
  BY DEF SwingsAt
<1> HIDE DEF P
<1>2. ASSUME NEW i \in is, NEW kind \in SwingKinds, P(i, kind)
      PROVE  Swing(c, i, kind) \in {Swing(c, n[1], n[2]) : n \in N}
  <2>1. <<i, kind>> \in N /\ <<i, kind>>[1] = i /\ <<i, kind>>[2] = kind
    BY <1>2
  <2> HIDE DEF N
  <2>2. Swing(c, <<i, kind>>[1], <<i, kind>>[2]) \in {Swing(c, n[1], n[2]) : n \in N}
    BY <2>1
  <2>3. QED
    BY <2>1, <2>2
<1>3. ASSUME NEW t \in {Swing(c, n[1], n[2]) : n \in N}
      PROVE  \E i \in is, kind \in SwingKinds : P(i, kind) /\ t = Swing(c, i, kind)
  <2>1. PICK n \in N : t = Swing(c, n[1], n[2])
    OBVIOUS
  <2>2. n[1] \in is /\ n[2] \in SwingKinds /\ P(n[1], n[2])
    OBVIOUS
  <2>3. QED
    BY <2>1, <2>2
<1>4. s \in SwingsAt(c, is, before, after) <=>
        \E i \in is, kind \in SwingKinds : P(i, kind) /\ s = Swing(c, i, kind)
  BY <1>1, <1>2, <1>3
<1>5. QED
  BY <1>4 DEF P

LEMMA SwingsGrow ==
  ASSUME NEW c, NEW d, Longer(c, d), NEW first \in Nat, NEW before \in Nat,
         NEW after \in Nat, before < first
  PROVE  Grown(SwingsAt(c, first..(Len(c) - after), before, after),
               SwingsAt(d, first..(Len(d) - after), before, after), Len(d) - after)
<1> HIDE ChartAssumption
<1> DEFINE m == Len(c)
           n == Len(d)
           I == first..(m - after)
           J == first..(n - after)
           S == SwingsAt(c, I, before, after)
           T == SwingsAt(d, J, before, after)
           k == n - after
<1>1. /\ m \in Nat /\ n = m + 1
      /\ \A i \in 1..m : d[i] = c[i] /\ c[i] \in ChartBars
      /\ \A i \in 1..n : d[i] \in ChartBars
  BY LongerBars
<1> HIDE DEF m, n
<1>2. /\ \A i \in I : i \in J /\ i \in 1..m /\ i < k
                      /\ (i - before)..(i + after) \in SUBSET (1..m)
      /\ \A i \in J : i \in 1..n /\ i <= k /\ i \in Nat
      /\ \A i \in J \ I : i = k
      /\ k \in Int
  <2>1. ASSUME NEW i \in I
        PROVE  i \in J /\ i \in 1..m /\ i < k /\ (i - before)..(i + after) \in SUBSET (1..m)
    BY <1>1
  <2>2. ASSUME NEW i \in J PROVE i \in 1..n /\ i <= k /\ i \in Nat /\ (i \notin I => i = k)
    BY <1>1
  <2>3. k \in Int
    BY <1>1
  <2>4. QED
    BY <2>1, <2>2, <2>3
<1>3. \A s : s \in S <=> \E i \in I, kind \in SwingKinds :
           Stands(c, i, (i - before)..(i + after), kind) /\ s = Swing(c, i, kind)
  <2> HIDE DEF I
  <2>1. QED
    BY SwingsOf
<1>4. \A s : s \in T <=> \E i \in J, kind \in SwingKinds :
           Stands(d, i, (i - before)..(i + after), kind) /\ s = Swing(d, i, kind)
  <2> HIDE DEF J
  <2>1. QED
    BY SwingsOf
<1> HIDE DEF I, J, S, T, k
<1>5. ASSUME NEW i \in I, NEW kind
      PROVE  /\ Stands(d, i, (i - before)..(i + after), kind)
                  <=> Stands(c, i, (i - before)..(i + after), kind)
             /\ Swing(d, i, kind) = Swing(c, i, kind)
  <2>1. i \in 1..m /\ (i - before)..(i + after) \in SUBSET (1..m)
    BY <1>2
  <2> DEFINE around == (i - before)..(i + after)
  <2> HIDE DEF around
  <2>2. Stands(d, i, around, kind) <=> Stands(c, i, around, kind)
    BY <2>1, StandsStill DEF around, m
  <2>3. Swing(d, i, kind) = Swing(c, i, kind)
    BY <1>1, <2>1 DEF Swing
  <2>4. QED
    BY <2>2, <2>3 DEF around
<1>6. S \subseteq T /\ \A s \in S : s.at < k
  <2>1. SUFFICES ASSUME NEW s \in S PROVE s \in T /\ s.at < k
    OBVIOUS
  <2>2. PICK i \in I, kind \in SwingKinds :
          Stands(c, i, (i - before)..(i + after), kind) /\ s = Swing(c, i, kind)
    BY <1>3
  <2>3. s \in T
    BY <1>2, <1>4, <1>5, <2>2
  <2>4. s.at = i
    BY <2>2 DEF Swing
  <2>5. QED
    BY <1>2, <2>3, <2>4
<1>7. \A t \in T : /\ t.at \in Nat /\ t.at <= k /\ t.kind \in SwingKinds /\ t.price \in Int
                   /\ t \notin S => t.at = k
  <2>1. SUFFICES ASSUME NEW t \in T
                 PROVE  /\ t.at \in Nat /\ t.at <= k /\ t.kind \in SwingKinds /\ t.price \in Int
                        /\ t \notin S => t.at = k
    OBVIOUS
  <2>2. PICK i \in J, kind \in SwingKinds :
          Stands(d, i, (i - before)..(i + after), kind) /\ t = Swing(d, i, kind)
    BY <1>4
  <2>3. t.at = i /\ t.kind = kind /\ t.price = Level(d[i], kind)
    BY <2>2 DEF Swing
  <2>4. t.price \in Int
    BY <1>1, <1>2, <2>3, BarTypes
  <2>5. i \in I => t \in S
    BY <1>3, <1>5, <2>2
  <2>6. QED
    BY <1>2, <2>3, <2>4, <2>5
<1>8. Grown(S, T, k)
  BY <1>2, <1>6, <1>7 DEF Grown
<1>9. QED
  BY <1>8 DEF S, T, I, J, k, m, n

LEMMA AllSwingsGrow ==
  ASSUME NEW c, NEW d, Longer(c, d)
  PROVE  /\ Grown(Swings(c), Swings(d), Len(d) - Pivot)
         /\ Grown(SwingPoints(c), SwingPoints(d), Len(d) - Right)
         /\ Grown(StreamSwings(c), StreamSwings(d), Len(d))
<1>1. Grown(Swings(c), Swings(d), Len(d) - Pivot)
  BY SwingsGrow DEF Swings
<1>2. Grown(SwingPoints(c), SwingPoints(d), Len(d) - Right)
  BY SwingsGrow DEF SwingPoints
<1>3. Grown(StreamSwings(c), StreamSwings(d), Len(d))
  <2>1. Grown(SwingsAt(c, (Pivot + 1)..(Len(c) - 0), Pivot, 0),
              SwingsAt(d, (Pivot + 1)..(Len(d) - 0), Pivot, 0), Len(d) - 0)
    BY SwingsGrow
  <2>2. Len(c) - 0 = Len(c) /\ Len(d) - 0 = Len(d)
    BY LongerBars
  <2>3. QED
    BY <2>1, <2>2 DEF StreamSwings
<1>4. QED
  BY <1>1, <1>2, <1>3

LEMMA OneKindGrows ==
  ASSUME NEW S, NEW T, NEW k, Grown(S, T, k) PROVE OneKind(S) \subseteq OneKind(T)
BY DEF OneKind, Grown

LEMMA LabelsGrow ==
  ASSUME NEW S, NEW T, NEW k, Grown(S, T, k)
  PROVE  StructureLabels(S) \subseteq StructureLabels(T)
<1> DEFINE Before(U, s) == {t \in U : t.kind = s.kind /\ t.at < s.at}
           Label(U, s) == [at |-> s.at, kind |-> s.kind,
                           higher |-> s.price > Latest(Before(U, s)).price]
<1>1. \A s \in S : s \in T /\ Before(T, s) = Before(S, s)
  BY DEF Grown
<1>2. \A U : StructureLabels(U) = {Label(U, s) : s \in {x \in U : Before(U, x) # {}}}
  BY DEF StructureLabels
<1> HIDE DEF Before
<1>3. ASSUME NEW x \in StructureLabels(S) PROVE x \in StructureLabels(T)
  <2>1. PICK s \in S : Before(S, s) # {} /\ x = Label(S, s)
    BY <1>2
  <2>2. s \in T /\ Before(T, s) # {} /\ x = Label(T, s)
    BY <1>1, <2>1
  <2> HIDE DEF Label
  <2>3. QED
    BY <1>2, <2>2
<1>4. QED
  BY <1>3

LEMMA PoolsGrow ==
  ASSUME NEW S, NEW T, NEW k, Grown(S, T, k) PROVE Pools(S) \subseteq Pools(T)
BY DEF Pools, Grown

\* Least and greatest numbers.
LEMMA MinOfNat ==
  ASSUME NEW A, A \subseteq Nat, A # {} PROVE Min(A) \in A /\ \A y \in A : Min(A) <= y
<1>1. \E x \in A : \A y \in A : x <= y
  BY LeastNumber
<1> DEFINE m == CHOOSE x \in A : \A y \in A : x <= y
<1>2. m \in A /\ \A y \in A : m <= y
  BY <1>1, Zenon
<1>3. Min(A) = m
  BY DEF Min
<1>4. QED
  BY <1>2, <1>3

LEMMA MinOfFinite ==
  ASSUME NEW A, IsFiniteSet(A), A \subseteq Int, A # {}
  PROVE  /\ Min(A) \in A /\ \A y \in A : Min(A) <= y
         /\ Max(A) \in A /\ \A y \in A : y <= Max(A)
<1> DEFINE D == {U \in SUBSET A : U # {} => /\ \E x \in U : \A y \in U : x <= y
                                            /\ \E x \in U : \A y \in U : y <= x}
<1>1. {} \in D
  OBVIOUS
<1>2. ASSUME NEW U \in SUBSET A, NEW z \in A \ U, U \in D PROVE U \cup {z} \in D
  <2> DEFINE V == U \cup {z}
  <2>1. z \in Int /\ V \in SUBSET A /\ U \subseteq Int
    OBVIOUS
  <2>2. CASE U = {}
    <3>1. z \in V /\ \A y \in V : z <= y /\ y <= z
      BY <2>1, <2>2
    <3>2. QED
      BY <2>1, <3>1
  <2>3. CASE U # {}
    <3>1. PICK a \in U : \A y \in U : a <= y
      BY <1>2, <2>3
    <3>2. PICK b \in U : \A y \in U : y <= b
      BY <1>2, <2>3
    <3>3. \E x \in V : \A y \in V : x <= y
      <4>1. CASE a <= z
        BY <2>1, <3>1, <4>1
      <4>2. CASE ~(a <= z)
        <5>1. \A y \in V : z <= y
          BY <2>1, <3>1, <4>2
        <5>2. QED
          BY <5>1
      <4>3. QED
        BY <4>1, <4>2
    <3>4. \E x \in V : \A y \in V : y <= x
      <4>1. CASE z <= b
        BY <2>1, <3>2, <4>1
      <4>2. CASE ~(z <= b)
        <5>1. \A y \in V : y <= z
          BY <2>1, <3>2, <4>2
        <5>2. QED
          BY <5>1
      <4>3. QED
        BY <4>1, <4>2
    <3>5. QED
      BY <2>1, <3>3, <3>4
  <2>4. QED
    BY <2>2, <2>3
<1>3. A \in D
  <2> HIDE DEF D
  <2> HIDE ChartAssumption
  <2>1. \A U \in SUBSET A : \A z \in A \ U : U \in D => U \cup {z} \in D
    BY <1>2
  <2>2. QED
    BY <1>1, <2>1, FiniteSetInduction
<1>4. (\E x \in A : \A y \in A : x <= y) /\ (\E x \in A : \A y \in A : y <= x)
  BY <1>3
<1> DEFINE m == CHOOSE x \in A : \A y \in A : x <= y
           n == CHOOSE x \in A : \A y \in A : x >= y
<1>5. m \in A /\ \A y \in A : m <= y
  BY <1>4, Zenon
<1>6. n \in A /\ \A y \in A : y <= n
  <2>1. \E x \in A : \A y \in A : x >= y
    BY <1>4
  <2>2. n \in A /\ \A y \in A : n >= y
    BY <2>1, Zenon
  <2> HIDE DEF n
  <2>3. QED
    BY <2>2
<1>7. Min(A) = m /\ Max(A) = n
  BY DEF Min, Max
<1>8. QED
  BY <1>5, <1>6, <1>7

\* Two sets of positions that agree as far as the first of one of them.
LEMMA MinSame ==
  ASSUME NEW A, A \subseteq Nat, NEW B, B \subseteq Nat, NEW K \in Int,
         \A i \in Nat : i <= K => (i \in A <=> i \in B), A # {}, Min(A) <= K
  PROVE  B # {} /\ Min(B) = Min(A)
<1>1. Min(A) \in A /\ \A y \in A : Min(A) <= y
  BY MinOfNat
<1>2. Min(A) \in B
  BY <1>1
<1>3. Min(B) \in B /\ \A y \in B : Min(B) <= y
  BY <1>2, MinOfNat
<1>4. Min(B) <= Min(A) /\ Min(B) \in Nat /\ Min(A) \in Nat
  BY <1>1, <1>2, <1>3
<1>5. Min(B) \in A
  BY <1>3, <1>4
<1>6. QED
  BY <1>1, <1>2, <1>4, <1>5

-----------------------------------------------------------------------------
(* Breaks and signals.                                                      *)

LEMMA BreaksSame ==
  ASSUME NEW c, NEW d, Longer(c, d), NEW S, NEW T, NEW k, Grown(S, T, k),
         NEW i \in Nat, i <= k, i <= Len(c), NEW s \in S
  PROVE  i \in BreaksOf(s, d, T) <=> i \in BreaksOf(s, c, S)
<1> HIDE ChartAssumption
<1>1. IsLastBefore(s, T, i) <=> IsLastBefore(s, S, i)
  <2>1. \A t \in T \ S : ~(t.at < i)
    BY DEF Grown
  <2>2. S \subseteq T
    BY DEF Grown
  <2>3. QED
    BY <2>1, <2>2 DEF IsLastBefore
<1>2. i \in DOMAIN c <=> i \in DOMAIN d
  BY LongerBars
<1>3. i \in DOMAIN c => d[i] = c[i]
  BY LongerBars
<1>4. QED
  BY <1>1, <1>2, <1>3 DEF BreaksOf

Break(s, c, S) ==
  [at |-> Min(BreaksOf(s, c, S)), kind |-> s.kind, price |-> s.price, swing |-> s.at]

LEMMA BreaksOfNat ==
  ASSUME NEW c, c \in Seq(ChartBars), NEW s, NEW S
  PROVE  BreaksOf(s, c, S) \subseteq Nat
<1>1. DOMAIN c = 1..Len(c) /\ Len(c) \in Nat
  OBVIOUS
<1>2. BreaksOf(s, c, S) \subseteq DOMAIN c
  BY Zenon DEF BreaksOf
<1>3. QED
  BY <1>1, <1>2

\* What was broken as far as K is broken as before, and nothing else is as far as K.
LEMMA BreaksStay ==
  ASSUME NEW c, NEW d, Longer(c, d), NEW S, NEW T, NEW k, Grown(S, T, k),
         NEW K \in Int, K <= k, K <= Len(c)
  PROVE  /\ \A b \in BreaksBy(c, S) : b.at \in Nat /\ (b.at <= K => b \in BreaksBy(d, T))
         /\ \A b \in BreaksBy(d, T) : b.at \in Nat /\ (b.at <= K => b \in BreaksBy(c, S))
<1> HIDE ChartAssumption
<1>1. /\ \A s : BreaksOf(s, c, S) \subseteq Nat /\ BreaksOf(s, d, T) \subseteq Nat
      /\ k \in Int /\ Len(c) \in Nat
  BY LongerBars, BreaksOfNat DEF Longer, Grown
<1>2. ASSUME NEW s \in S, NEW i \in Nat, i <= K
      PROVE  i \in BreaksOf(s, d, T) <=> i \in BreaksOf(s, c, S)
  <2>1. i <= k /\ i <= Len(c)
    BY <1>1, <1>2
  <2>2. QED
    BY <2>1, BreaksSame
<1>3. /\ \A b \in BreaksBy(c, S) : \E s \in S : BreaksOf(s, c, S) # {} /\ b = Break(s, c, S)
      /\ \A s \in S : BreaksOf(s, c, S) # {} => Break(s, c, S) \in BreaksBy(c, S)
  BY DEF BreaksBy, Break
<1>4. /\ \A b \in BreaksBy(d, T) : \E s \in T : BreaksOf(s, d, T) # {} /\ b = Break(s, d, T)
      /\ \A s \in T : BreaksOf(s, d, T) # {} => Break(s, d, T) \in BreaksBy(d, T)
  BY DEF BreaksBy, Break
<1>5. ASSUME NEW b \in BreaksBy(c, S) PROVE b.at \in Nat /\ (b.at <= K => b \in BreaksBy(d, T))
  <2>1. PICK s \in S : BreaksOf(s, c, S) # {} /\ b = Break(s, c, S)
    BY <1>3
  <2> DEFINE A == BreaksOf(s, c, S)
             B == BreaksOf(s, d, T)
  <2>2. b.at = Min(A) /\ A # {} /\ A \subseteq Nat /\ B \subseteq Nat
    BY <1>1, <2>1 DEF Break
  <2>3. \A i \in Nat : i <= K => (i \in A <=> i \in B)
    BY <1>2
  <2>4. s \in T
    BY DEF Grown
  <2> HIDE DEF A, B
  <2>5. Min(A) \in Nat
    BY <2>2, MinOfNat
  <2>6. ASSUME b.at <= K PROVE B # {} /\ Min(B) = Min(A)
    BY <2>2, <2>3, <2>6, MinSame
  <2>7. ASSUME b.at <= K PROVE b = Break(s, d, T) /\ BreaksOf(s, d, T) # {}
    BY <2>1, <2>6, <2>7 DEF Break, A, B
  <2>8. QED
    BY <1>4, <2>2, <2>4, <2>5, <2>7
<1>6. ASSUME NEW b \in BreaksBy(d, T) PROVE b.at \in Nat /\ (b.at <= K => b \in BreaksBy(c, S))
  <2>1. PICK s \in T : BreaksOf(s, d, T) # {} /\ b = Break(s, d, T)
    BY <1>4
  <2> DEFINE A == BreaksOf(s, d, T)
             B == BreaksOf(s, c, S)
  <2>2. b.at = Min(A) /\ A # {} /\ A \subseteq Nat /\ B \subseteq Nat
    BY <1>1, <2>1 DEF Break
  <2>3. b.at \in Nat /\ Min(A) \in A
    <3> HIDE DEF A
    <3>1. QED
      BY <2>2, MinOfNat
  <2>4. ASSUME b.at <= K PROVE s \in S
    <3>1. SUFFICES ASSUME s \notin S PROVE FALSE
      OBVIOUS
    <3>2. s.at = k
      BY <3>1 DEF Grown
    <3>3. s.at < Min(A)
      BY <2>3 DEF BreaksOf, IsLastBefore
    <3> HIDE DEF A
    <3>4. QED
      BY <1>1, <2>2, <2>3, <2>4, <3>2, <3>3
  <2>5. ASSUME b.at <= K PROVE b \in BreaksBy(c, S)
    <3>1. s \in S
      BY <2>4, <2>5
    <3>2. \A i \in Nat : i <= K => (i \in A <=> i \in B)
      BY <1>2, <3>1
    <3> HIDE DEF A, B
    <3>3. B # {} /\ Min(B) = Min(A)
      BY <2>2, <2>5, <3>2, MinSame
    <3>4. b = Break(s, c, S) /\ BreaksOf(s, c, S) # {}
      BY <2>1, <3>3 DEF Break, A, B
    <3>5. QED
      BY <1>3, <3>1, <3>4
  <2>6. QED
    BY <2>3, <2>5
<1>7. QED
  BY <1>5, <1>6

LEMMA StreamBreaksGrow ==
  ASSUME NEW c, NEW d, Longer(c, d)
  PROVE  StreamBreaks(c, StreamSwings(c)) \subseteq StreamBreaks(d, StreamSwings(d))
<1> DEFINE S == StreamSwings(c)
           T == StreamSwings(d)
           K == Len(c)
<1>1. Grown(S, T, Len(d)) /\ K \in Nat /\ Len(d) = K + 1
  BY AllSwingsGrow, LongerBars
<1>2. ASSUME NEW b \in BreaksBy(c, S) PROVE b.at <= K
  <2>1. PICK s \in S : BreaksOf(s, c, S) # {} /\ b = Break(s, c, S)
    BY DEF BreaksBy, Break
  <2>2. BreaksOf(s, c, S) \subseteq 1..K
    BY LongerBars DEF BreaksOf
  <2> DEFINE A == BreaksOf(s, c, S)
  <2>3. A # {} /\ A \subseteq Nat /\ A \subseteq 1..K /\ b.at = Min(A)
    BY <1>1, <2>1, <2>2 DEF Break
  <2> HIDE DEF A, K
  <2>4. Min(A) \in 1..K
    BY <2>3, MinOfNat
  <2>5. QED
    BY <1>1, <2>3, <2>4
<1> HIDE DEF S, T
<1>3. \A b \in BreaksBy(c, S) : b.at <= K => b \in BreaksBy(d, T)
  <2>1. K \in Int /\ K <= Len(d) /\ K <= Len(c)
    BY <1>1
  <2>2. QED
    BY <1>1, <2>1, BreaksStay
<1>4. QED
  BY <1>2, <1>3 DEF StreamBreaks, S, T

\* A signal names the break before it, which is as far back.
LEMMA SignalsStay ==
  ASSUME NEW c, NEW d, Longer(c, d)
  PROVE  {s \in Signals(c, SwingPoints(c)) : s.break.at <= Confirmed(c)}
           \subseteq {s \in Signals(d, SwingPoints(d)) : s.break.at <= Confirmed(d)}
<1> DEFINE C == BreaksBy(c, SwingPoints(c))
           D == BreaksBy(d, SwingPoints(d))
           K == Confirmed(c)
           Before(a, b) == a.at < b.at \/ (a.at = b.at /\ a.kind = "HIGH" /\ b.kind = "LOW")
           Previous(B, b) ==
             {a \in B : Before(a, b) /\ \A x \in B : ~(Before(a, x) /\ Before(x, b))}
           Signal(B, b) ==
             [break |-> b,
              event |-> IF \E a \in Previous(B, b) : a.kind # b.kind THEN "CHOCH" ELSE "BOS"]
<1>1. K \in Int /\ K <= Len(c) /\ Confirmed(d) = K + 1 /\ K = Len(d) - Right
  BY LongerBars DEF Confirmed
<1>2. /\ Signals(c, SwingPoints(c)) = {Signal(C, b) : b \in C}
      /\ Signals(d, SwingPoints(d)) = {Signal(D, b) : b \in D}
  BY DEF Signals
<1>3. Grown(SwingPoints(c), SwingPoints(d), K)
  BY <1>1, AllSwingsGrow
<1>4. /\ \A b \in C : b.at \in Nat /\ (b.at <= K => b \in D)
      /\ \A b \in D : b.at \in Nat /\ (b.at <= K => b \in C)
  <2> HIDE DEF K
  <2>1. K <= K
    BY <1>1
  <2>2. QED
    BY <1>1, <1>3, <2>1, BreaksStay
<1> HIDE DEF C, D, K
<1>5. ASSUME NEW b \in C, b.at <= K PROVE b \in D /\ Previous(D, b) = Previous(C, b)
  <2> HIDE ChartAssumption
  <2>1. b \in D
    BY <1>4, <1>5
  <2>2. \A a : a \in C \/ a \in D => (Before(a, b) => a \in C /\ a \in D)
    BY <1>1, <1>4, <1>5
  <2> HIDE DEF Before
  <2>3. QED
    BY <2>1, <2>2
<1> HIDE DEF Previous
<1>6. ASSUME NEW s \in {Signal(C, b) : b \in C}, s.break.at <= K
      PROVE  s \in {Signal(D, b) : b \in D} /\ s.break.at <= K + 1
  <2>1. PICK b \in C : s = Signal(C, b)
    OBVIOUS
  <2>2. s.break = b /\ b.at <= K
    BY <1>6, <2>1
  <2>3. b \in D /\ s = Signal(D, b)
    BY <1>5, <2>1, <2>2
  <2>4. b.at <= K + 1
    BY <1>1, <1>4, <2>2
  <2> HIDE DEF Signal
  <2>5. QED
    BY <2>2, <2>3, <2>4
<1> HIDE DEF Signal
<1>7. QED
  BY <1>1, <1>2, <1>6 DEF K

-----------------------------------------------------------------------------
(* Ranges.                                                                  *)

LEMMA RangeGrows ==
  ASSUME NEW A, NEW B, A \subseteq B, A # {}, IsFiniteSet(B), B \subseteq Int
  PROVE  /\ Min(B) <= Min(A) /\ Max(A) <= Max(B)
         /\ {Min(A), Max(A), Min(B), Max(B)} \subseteq Int
<1> HIDE ChartAssumption
<1>1. IsFiniteSet(A) /\ A \subseteq Int /\ B # {}
  BY FS_Subset
<1>2. /\ Min(A) \in A /\ Max(A) \in A
  BY <1>1, MinOfFinite
<1>3. /\ Min(B) \in B /\ \A y \in B : Min(B) <= y
      /\ Max(B) \in B /\ \A y \in B : y <= Max(B)
  BY <1>1, MinOfFinite
<1>4. QED
  BY <1>2, <1>3

LEMMA SwingsFinite ==
  ASSUME NEW c, NEW is, IsFiniteSet(is), NEW before, NEW after
  PROVE  IsFiniteSet({s.price : s \in SwingsAt(c, is, before, after)})
<1> HIDE ChartAssumption
<1> DEFINE N == is \X SwingKinds
           f == [n \in N |-> Swing(c, n[1], n[2]).price]
           T == {f[n] : n \in N}
           R == {s.price : s \in SwingsAt(c, is, before, after)}
<1>1. IsFiniteSet(N)
  <2>1. SwingKinds = {"HIGH"} \cup {"LOW"}
    BY DEF SwingKinds
  <2>2. IsFiniteSet({"HIGH"})
    BY FS_Singleton
  <2>3. IsFiniteSet(SwingKinds)
    BY <2>1, <2>2, FS_AddElement
  <2>4. QED
    BY <2>3, FS_Product
<1>2. IsFiniteSet(T)
  <2>1. f \in Surjection(N, T)
    <3> HIDE DEF N
    <3>1. QED
      BY DEF Surjection
  <2> HIDE DEF f, N, T
  <2>2. QED
    BY <1>1, <2>1, FS_Surjection
<1>3. R \subseteq T
  <2>1. ASSUME NEW s \in SwingsAt(c, is, before, after) PROVE s.price \in T
    <3>1. PICK i \in is, kind \in SwingKinds : s = Swing(c, i, kind)
      BY SwingsOf
    <3>2. <<i, kind>> \in N /\ <<i, kind>>[1] = i /\ <<i, kind>>[2] = kind
      OBVIOUS
    <3> HIDE DEF N
    <3>3. f[<<i, kind>>] = Swing(c, i, kind).price
      BY <3>2
    <3> HIDE DEF f
    <3>4. QED
      BY <3>1, <3>2, <3>3
  <2>2. QED
    BY <2>1
<1>4. QED
  BY <1>2, <1>3, FS_Subset

LEMMA DealingGrows ==
  ASSUME NEW c, NEW d, Longer(c, d)
  PROVE  DealingRange(Swings(c)) \subseteq DealingRange(Swings(d))
<1> DEFINE S == Swings(c)
           T == Swings(d)
           A == {s.price : s \in S}
           B == {s.price : s \in T}
<1>1. S \subseteq T /\ \A t \in T : t.price \in Int
  BY AllSwingsGrow DEF Grown
<1>2. IsFiniteSet(B)
  <2>1. IsFiniteSet((Pivot + 1)..(Len(d) - Pivot))
    <3>1. Pivot + 1 \in Int /\ Len(d) - Pivot \in Int
      BY LongerBars
    <3>2. QED
      BY <3>1, FS_Interval
  <2>2. QED
    BY <2>1, SwingsFinite DEF Swings
<1> HIDE DEF S, T
<1>3. CASE S = {}
  BY <1>3 DEF DealingRange, S
<1>4. CASE S # {}
  <2>1. A \subseteq B /\ A # {} /\ B \subseteq Int /\ T # {}
    BY <1>1, <1>4
  <2>2. DealingRange(S) = Min(A)..Max(A) /\ DealingRange(T) = Min(B)..Max(B)
    BY <1>4, <2>1 DEF DealingRange
  <2> HIDE DEF A, B
  <2>3. /\ Min(B) <= Min(A) /\ Max(A) <= Max(B)
        /\ {Min(A), Max(A), Min(B), Max(B)} \subseteq Int
    BY <1>2, <2>1, RangeGrows
  <2>4. DealingRange(S) \subseteq DealingRange(T)
    BY <2>2, <2>3
  <2>5. QED
    BY <2>4 DEF S, T
<1>5. QED
  BY <1>3, <1>4

LEMMA LevelsFinite ==
  ASSUME NEW c, c \in Seq(ChartBars)
  PROVE  /\ IsFiniteSet({c[i].low : i \in DOMAIN c}) /\ {c[i].low : i \in DOMAIN c} \subseteq Int
         /\ IsFiniteSet({c[i].high : i \in DOMAIN c})
         /\ {c[i].high : i \in DOMAIN c} \subseteq Int
<1> DEFINE N == DOMAIN c
           f == [i \in N |-> c[i].low]
           g == [i \in N |-> c[i].high]
           A == {f[i] : i \in N}
           B == {g[i] : i \in N}
<1>1. N = 1..Len(c) /\ Len(c) \in Nat /\ \A i \in N : c[i] \in ChartBars
  OBVIOUS
<1>2. IsFiniteSet(N)
  <2>1. 1 \in Int /\ Len(c) \in Int
    BY <1>1
  <2>2. QED
    BY <1>1, <2>1, FS_Interval
<1>3. \A i \in N : f[i] \in Int /\ g[i] \in Int
  BY <1>1, BarTypes
<1> HIDE DEF N
<1>4. f \in Surjection(N, A) /\ g \in Surjection(N, B)
  BY DEF Surjection
<1>5. A = {c[i].low : i \in N} /\ B = {c[i].high : i \in N}
  OBVIOUS
<1> HIDE DEF f, g
<1>6. A \subseteq Int /\ B \subseteq Int
  BY <1>3
<1> HIDE DEF A, B
<1>7. IsFiniteSet(A) /\ IsFiniteSet(B)
  BY <1>2, <1>4, FS_Surjection
<1>8. QED
  BY <1>5, <1>6, <1>7 DEF N

LEMMA BarRangeGrows ==
  ASSUME NEW c, NEW d, Longer(c, d) PROVE BarRange(c) \subseteq BarRange(d)
<1> DEFINE A == {c[i].low : i \in DOMAIN c}
           B == {d[i].low : i \in DOMAIN d}
           E == {c[i].high : i \in DOMAIN c}
           F == {d[i].high : i \in DOMAIN d}
<1>1. /\ DOMAIN c = 1..Len(c) /\ DOMAIN d = 1..Len(d) /\ Len(c) \in Nat
      /\ Len(d) = Len(c) + 1 /\ \A i \in 1..Len(c) : d[i] = c[i]
  BY LongerBars
<1>2. CASE c = << >>
  BY <1>2 DEF BarRange
<1>3. CASE c # << >>
  <2>1. Len(c) > 0 /\ d # << >>
    BY <1>1, <1>3 DEF Longer
  <2>2. /\ A \subseteq B /\ E \subseteq F /\ A # {} /\ E # {}
    BY <1>1, <2>1
  <2>3. /\ IsFiniteSet(B) /\ IsFiniteSet(F) /\ B \subseteq Int /\ F \subseteq Int
    BY LevelsFinite DEF Longer
  <2>4. BarRange(c) = Min(A)..Max(E) /\ BarRange(d) = Min(B)..Max(F)
    BY <1>3, <2>1 DEF BarRange
  <2> HIDE DEF A, B, E, F
  <2>5. Min(B) <= Min(A) /\ Min(A) \in Int /\ Min(B) \in Int
    BY <2>2, <2>3, RangeGrows
  <2>6. Max(E) <= Max(F) /\ Max(E) \in Int /\ Max(F) \in Int
    BY <2>2, <2>3, RangeGrows
  <2>7. QED
    BY <2>4, <2>5, <2>6
<1>4. QED
  BY <1>2, <1>3

-----------------------------------------------------------------------------
(* Gaps, blocks and zones.                                                  *)

\* Marks of a chart, none of them before the first bar.
MarksGrow(S, T) == S \subseteq T /\ \A m \in S : m.at \in Nat

LEMMA GapsGrow ==
  ASSUME NEW c, NEW d, Longer(c, d)
  PROVE  MarksGrow(Gaps(c), Gaps(d)) /\ MarksGrow(ClosingGaps(c), ClosingGaps(d))
<1>1. /\ Len(c) \in Nat /\ Len(d) = Len(c) + 1 /\ \A i \in 1..Len(c) : d[i] = c[i]
  BY LongerBars
<1> HIDE ChartAssumption
<1>2. \A i \in 3..Len(c) : i \in 3..Len(d) /\ d[i] = c[i] /\ d[i - 2] = c[i - 2] /\ i \in Nat
  BY <1>1
<1>3. \A i, kind, low, high : ZoneMark(i, kind, low, high).at = i
                              /\ ZoneMark(i, kind, low, high).kind = kind
  BY DEF ZoneMark
<1> DEFINE Rise(e) == {ZoneMark(i, "BULLISH", e[i - 2].high, e[i].low) :
                         i \in {n \in 3..Len(e) : e[n].low > e[n - 2].high}}
           Fall(e) == {ZoneMark(i, "BEARISH", e[i].high, e[i - 2].low) :
                         i \in {n \in 3..Len(e) : e[n].high < e[n - 2].low}}
           Drop(e) == {ZoneMark(i, "BEARISH", e[i].high, e[i - 2].close) :
                         i \in {n \in 3..Len(e) : e[n].high < e[n - 2].close}}
<1>4. MarksGrow(Rise(c), Rise(d))
  BY <1>2, <1>3 DEF MarksGrow
<1>5. MarksGrow(Fall(c), Fall(d))
  BY <1>2, <1>3 DEF MarksGrow
<1>6. MarksGrow(Drop(c), Drop(d))
  BY <1>2, <1>3 DEF MarksGrow
<1>7. \A e : Gaps(e) = Rise(e) \cup Fall(e)
  BY DEF Gaps
<1>8. \A e : ClosingGaps(e) = {g \in Gaps(e) : g.kind = "BULLISH"} \cup Drop(e)
  BY DEF ClosingGaps
<1> HIDE DEF Rise, Fall, Drop
<1>9. MarksGrow(Gaps(c), Gaps(d))
  BY <1>4, <1>5, <1>7 DEF MarksGrow
<1>10. MarksGrow(ClosingGaps(c), ClosingGaps(d))
  BY <1>6, <1>8, <1>9 DEF MarksGrow
<1>11. QED
  BY <1>9, <1>10

LEMMA BlocksGrow ==
  ASSUME NEW c, NEW d, Longer(c, d) PROVE Blocks(c) \subseteq Blocks(d)
<1> DEFINE Body(bar) == Max({bar.close - bar.open, bar.open - bar.close})
           Blocked(e, n, kind) == /\ 2 * Body(e[n + 1]) >= 3 * (e[n].high - e[n].low)
                                  /\ Against(e[n], e[n + 1], kind)
           Found(e, kind) == {ZoneMark(i, kind, e[i].low, e[i].high) :
                                i \in {n \in 2..(Len(e) - 1) : Len(e) >= 4 /\ Blocked(e, n, kind)}}
<1>1. /\ Len(c) \in Nat /\ Len(d) = Len(c) + 1 /\ \A i \in 1..Len(c) : d[i] = c[i]
  BY LongerBars
<1>2. \A e : Blocks(e) = UNION {Found(e, kind) : kind \in {"BULLISH", "BEARISH"}}
  BY DEF Blocks
<1> HIDE ChartAssumption
<1>3. \A i \in 2..(Len(c) - 1) : /\ i \in 2..(Len(d) - 1) /\ d[i] = c[i]
                                 /\ d[i + 1] = c[i + 1] /\ (Len(c) >= 4 => Len(d) >= 4)
  BY <1>1
<1>4. \A kind : \A i \in 2..(Len(c) - 1) : Blocked(c, i, kind) <=> Blocked(d, i, kind)
  BY <1>3
<1> HIDE DEF Blocked
<1>5. \A kind : Found(c, kind) \subseteq Found(d, kind)
  BY <1>3, <1>4
<1> HIDE DEF Found
<1>6. QED
  BY <1>2, <1>5

LEMMA ClosingBlocksGrow ==
  ASSUME NEW c, NEW d, Longer(c, d) PROVE MarksGrow(ClosingBlocks(c), ClosingBlocks(d))
<1> DEFINE Leaves(e, i, kind) == IF kind = "BULLISH" THEN e[i].close > e[i - 1].high
                                 ELSE e[i].close < e[i - 1].low
           Blocked(e, n, kind) == Against(e[n - 1], e[n], kind) /\ Leaves(e, n, kind)
           Found(e, kind) == {ZoneMark(i, kind, e[i - 1].low, e[i - 1].high) :
                                i \in {n \in 2..Len(e) : Blocked(e, n, kind)}}
<1>1. /\ Len(c) \in Nat /\ Len(d) = Len(c) + 1 /\ \A i \in 1..Len(c) : d[i] = c[i]
  BY LongerBars
<1>2. \A e : ClosingBlocks(e) = UNION {Found(e, kind) : kind \in {"BULLISH", "BEARISH"}}
  BY DEF ClosingBlocks
<1> HIDE ChartAssumption
<1>3. \A i \in 2..Len(c) : i \in 2..Len(d) /\ d[i] = c[i] /\ d[i - 1] = c[i - 1] /\ i \in Nat
  BY <1>1
<1>4. \A kind : \A i \in 2..Len(c) : Blocked(c, i, kind) <=> Blocked(d, i, kind)
  BY <1>3
<1> HIDE DEF Blocked
<1>5. \A kind : Found(c, kind) \subseteq Found(d, kind)
  BY <1>3, <1>4
<1>6. \A kind : \A m \in Found(c, kind) : m.at \in Nat
  BY <1>3 DEF ZoneMark
<1> HIDE DEF Found
<1>7. QED
  BY <1>2, <1>5, <1>6 DEF MarksGrow

LEMMA ZonesGrow ==
  ASSUME NEW c, NEW d, Longer(c, d) PROVE ZoneBlocks(c) \subseteq ZoneBlocks(d)
<1> DEFINE Extent(e, i) == e[i].high - e[i].low
           Extents(e, i) == [j \in (i - Window)..(i - 1) |-> Extent(e, j)]
           Earlier(e, i) == SumFunctionOnSet(Extents(e, i), (i - Window)..(i - 1))
           Wide(e, n) == Extent(e, n) > 0 /\ 10 * Window * Extent(e, n) >= 18 * Earlier(e, n)
           Zone(e, i) == ZoneMark(i, IF Up(e[i]) THEN "BULLISH" ELSE "BEARISH",
                              e[i - 1].low, e[i - 1].high)
<1>1. /\ Len(c) \in Nat /\ Len(d) = Len(c) + 1 /\ \A i \in 1..Len(c) : d[i] = c[i]
      /\ Window \in Nat /\ Window > 0
  BY LongerBars
<1>2. \A e : ZoneBlocks(e) = {Zone(e, i) : i \in {n \in (Window + 1)..Len(e) : Wide(e, n)}}
  BY DEF ZoneBlocks
<1> HIDE ChartAssumption
<1>3. ASSUME NEW i \in (Window + 1)..Len(c)
      PROVE  /\ i \in (Window + 1)..Len(d) /\ d[i] = c[i] /\ d[i - 1] = c[i - 1]
             /\ Extents(d, i) = Extents(c, i)
  <2>1. i \in (Window + 1)..Len(d) /\ d[i] = c[i] /\ d[i - 1] = c[i - 1]
    BY <1>1
  <2>2. \A j \in (i - Window)..(i - 1) : j \in 1..Len(c)
    BY <1>1
  <2>3. \A j \in (i - Window)..(i - 1) : Extent(d, j) = Extent(c, j)
    BY <1>1, <2>2
  <2> HIDE DEF Extent
  <2>4. QED
    BY <2>1, <2>3
<1> HIDE DEF Extents
<1>4. \A i \in (Window + 1)..Len(c) : /\ i \in (Window + 1)..Len(d)
                                      /\ Wide(c, i) <=> Wide(d, i)
                                      /\ Zone(d, i) = Zone(c, i)
  BY <1>3
<1> HIDE DEF Wide, Zone
<1>5. QED
  BY <1>2, <1>4

LEMMA MitigatedGrow ==
  ASSUME NEW c, NEW d, Longer(c, d), NEW S, NEW T, MarksGrow(S, T)
  PROVE  Mitigated(c, S) \subseteq Mitigated(d, T)
<1>1. /\ Len(c) \in Nat /\ Len(d) = Len(c) + 1 /\ \A i \in 1..Len(c) : d[i] = c[i]
  BY LongerBars
<1> HIDE ChartAssumption
<1>2. \A m \in S : m \in T /\ \A j \in (m.at + 1)..Len(c) :
                                j \in (m.at + 1)..Len(d) /\ d[j] = c[j]
  BY <1>1 DEF MarksGrow
<1>3. QED
  BY <1>2 DEF Mitigated

-----------------------------------------------------------------------------
(* Liquidity.                                                               *)

LEMMA PoolSweepsGrow ==
  ASSUME NEW c, NEW d, Longer(c, d), NEW S, NEW T, MarksGrow(S, T)
  PROVE  PoolSweeps(c, S) \subseteq PoolSweeps(d, T)
<1> DEFINE Sweeps(e, p) == {[at |-> i, kind |-> p.kind, price |-> p.price] :
                              i \in {n \in (p.at + 1)..Len(e) : Swept(e[n], p.kind, p.price)}}
<1>1. /\ Len(c) \in Nat /\ Len(d) = Len(c) + 1 /\ \A i \in 1..Len(c) : d[i] = c[i]
  BY LongerBars
<1> HIDE ChartAssumption
<1>2. \A m \in S : m \in T /\ \A j \in (m.at + 1)..Len(c) :
                                j \in (m.at + 1)..Len(d) /\ d[j] = c[j]
  BY <1>1 DEF MarksGrow
<1>3. \A e, U : PoolSweeps(e, U) = UNION {Sweeps(e, p) : p \in U}
  BY DEF PoolSweeps
<1>4. \A p \in S : Sweeps(c, p) \subseteq Sweeps(d, p)
  BY <1>2
<1> HIDE DEF Sweeps
<1>5. QED
  BY <1>2, <1>3, <1>4

\* The first level of a pair keeps the second.
LEMMA EqualLiquidityGrows ==
  ASSUME NEW S, NEW T, NEW k, Grown(S, T, k)
  PROVE  /\ EqualLiquidity(S) \subseteq EqualLiquidity(T)
         /\ \A p \in EqualLiquidity(S) : p.second \in Nat
<1> HIDE ChartAssumption
<1> DEFINE LevelWith(U, s) == {t \in U : t.at > s.at /\ t.kind = s.kind /\ t.price = s.price}
           Later(U, s) == {t.at : t \in LevelWith(U, s)}
           Pair(U, s) == [first |-> s.at, second |-> Min(Later(U, s)),
                          kind |-> s.kind, price |-> s.price]
<1>1. \A U : EqualLiquidity(U) = {Pair(U, s) : s \in {x \in U : LevelWith(U, x) # {}}}
  BY DEF EqualLiquidity
<1>2. ASSUME NEW s \in S, LevelWith(S, s) # {}
      PROVE  /\ s \in T /\ LevelWith(T, s) # {} /\ Min(Later(S, s)) \in Nat
             /\ Min(Later(T, s)) = Min(Later(S, s))
  <2> DEFINE A == Later(S, s)
             B == Later(T, s)
             K == k - 1
  <2>1. s \in T /\ LevelWith(T, s) # {} /\ A # {} /\ K \in Int
    BY <1>2 DEF Grown
  <2>2. A \subseteq Nat /\ B \subseteq Nat /\ \A i \in A : i <= K
    BY DEF Grown
  <2>3. \A i \in Nat : i <= K => (i \in A <=> i \in B)
    BY DEF Grown
  <2> HIDE DEF A, B, K
  <2>4. Min(A) \in A
    BY <2>1, <2>2, MinOfNat
  <2>5. Min(A) <= K
    BY <2>2, <2>4
  <2>6. Min(B) = Min(A)
    BY <2>1, <2>2, <2>3, <2>5, MinSame
  <2>7. Min(A) \in Nat
    BY <2>2, <2>4
  <2>8. QED
    BY <2>1, <2>6, <2>7 DEF A, B
<1> HIDE DEF Later, LevelWith
<1>3. ASSUME NEW p \in EqualLiquidity(S) PROVE p \in EqualLiquidity(T) /\ p.second \in Nat
  <2>1. PICK s \in S : LevelWith(S, s) # {} /\ p = Pair(S, s)
    BY <1>1
  <2>2. s \in T /\ LevelWith(T, s) # {} /\ p = Pair(T, s) /\ p.second \in Nat
    BY <1>2, <2>1
  <2> HIDE DEF Pair
  <2>3. QED
    BY <1>1, <2>2
<1>4. QED
  BY <1>3

LEMMA LiquiditySweepsGrow ==
  ASSUME NEW c, NEW d, Longer(c, d), NEW S, NEW T, S \subseteq T, \A p \in S : p.second \in Nat
  PROVE  LiquiditySweeps(c, S) \subseteq LiquiditySweeps(d, T)
<1> DEFINE Sweeps(e, p) ==
             {[at |-> i, kind |-> p.kind, price |-> p.price,
               displaced |-> IF p.kind = "HIGH" THEN Down(e[i]) ELSE Up(e[i])] :
                i \in {n \in (p.second + 1)..Len(e) : Swept(e[n], p.kind, p.price)}}
<1>1. /\ Len(c) \in Nat /\ Len(d) = Len(c) + 1 /\ \A i \in 1..Len(c) : d[i] = c[i]
  BY LongerBars
<1> HIDE ChartAssumption
<1>2. \A m \in S : m \in T /\ \A j \in (m.second + 1)..Len(c) :
                                j \in (m.second + 1)..Len(d) /\ d[j] = c[j]
  BY <1>1
<1>3. \A e, U : LiquiditySweeps(e, U) = UNION {Sweeps(e, p) : p \in U}
  BY DEF LiquiditySweeps
<1>4. \A p \in S : Sweeps(c, p) \subseteq Sweeps(d, p)
  BY <1>2
<1> HIDE DEF Sweeps
<1>5. QED
  BY <1>2, <1>3, <1>4

\* A pivot takes the bars after it as well, level with it or not.
LEMMA PivotsGrow ==
  ASSUME NEW c, NEW d, Longer(c, d) PROVE Pivots(c) \subseteq Pivots(d)
<1> DEFINE P(e, i, kind) == /\ Stands(e, i, (i - Left)..i, kind)
                            /\ \A j \in (i + 1)..(i + Right) :
                                 ~Beyond(kind, Level(e[j], kind), Level(e[i], kind))
           N(e) == {p \in ((Left + 1)..(Len(e) - Right)) \X SwingKinds : P(e, p[1], p[2])}
<1>1. /\ Len(c) \in Nat /\ Len(d) = Len(c) + 1 /\ \A i \in 1..Len(c) : d[i] = c[i]
      /\ Left \in Nat /\ Right \in Nat
  BY LongerBars
<1>2. \A e : Pivots(e) = {Swing(e, n[1], n[2]) : n \in N(e)}
  BY DEF Pivots
<1> HIDE ChartAssumption
<1>3. ASSUME NEW i \in (Left + 1)..(Len(c) - Right), NEW kind
      PROVE  /\ i \in (Left + 1)..(Len(d) - Right)
             /\ P(c, i, kind) <=> P(d, i, kind)
             /\ Swing(d, i, kind) = Swing(c, i, kind)
  <2>1. /\ i \in (Left + 1)..(Len(d) - Right) /\ i \in 1..Len(c) /\ d[i] = c[i]
        /\ (i - Left)..i \in SUBSET (1..Len(c))
    BY <1>1
  <2>2. \A j \in (i + 1)..(i + Right) : d[j] = c[j]
    BY <1>1
  <2>3. Stands(d, i, (i - Left)..i, kind) <=> Stands(c, i, (i - Left)..i, kind)
    <3> DEFINE around == (i - Left)..i
    <3> HIDE DEF around
    <3>1. Stands(d, i, around, kind) <=> Stands(c, i, around, kind)
      BY <2>1, StandsStill DEF around
    <3>2. QED
      BY <3>1 DEF around
  <2>4. P(c, i, kind) <=> P(d, i, kind)
    BY <2>1, <2>2, <2>3
  <2>5. Swing(d, i, kind) = Swing(c, i, kind)
    BY <2>1 DEF Swing
  <2>6. QED
    BY <2>1, <2>4, <2>5
<1> HIDE DEF P
<1>4. ASSUME NEW n \in N(c) PROVE n \in N(d) /\ Swing(d, n[1], n[2]) = Swing(c, n[1], n[2])
  <2>1. /\ n \in ((Left + 1)..(Len(c) - Right)) \X SwingKinds
        /\ n[1] \in (Left + 1)..(Len(c) - Right) /\ n[2] \in SwingKinds /\ n = <<n[1], n[2]>>
        /\ P(c, n[1], n[2])
    OBVIOUS
  <2>2. /\ n[1] \in (Left + 1)..(Len(d) - Right) /\ P(d, n[1], n[2])
        /\ Swing(d, n[1], n[2]) = Swing(c, n[1], n[2])
    BY <1>3, <2>1
  <2>3. n \in ((Left + 1)..(Len(d) - Right)) \X SwingKinds
    BY <2>1, <2>2
  <2>4. QED
    BY <2>2, <2>3
<1> HIDE DEF N
<1>5. QED
  BY <1>2, <1>4

LEMMA EqualLevelsGrow ==
  ASSUME NEW c, NEW d, Longer(c, d) PROVE EqualLevels(c) \subseteq EqualLevels(d)
<1> DEFINE P(e, i, kind) == Level(e[i], kind) = Level(e[i - 1], kind)
           N(e) == {p \in (2..(Len(e) - 1)) \X SwingKinds : P(e, p[1], p[2])}
<1>1. /\ Len(c) \in Nat /\ Len(d) = Len(c) + 1 /\ \A i \in 1..Len(c) : d[i] = c[i]
  BY LongerBars
<1>2. \A e : EqualLevels(e) = {Swing(e, n[1], n[2]) : n \in N(e)}
  BY DEF EqualLevels
<1> HIDE ChartAssumption
<1>3. ASSUME NEW i \in 2..(Len(c) - 1), NEW kind
      PROVE  /\ i \in 2..(Len(d) - 1)
             /\ P(c, i, kind) <=> P(d, i, kind)
             /\ Swing(d, i, kind) = Swing(c, i, kind)
  <2>1. i \in 2..(Len(d) - 1) /\ d[i] = c[i] /\ d[i - 1] = c[i - 1]
    BY <1>1
  <2>2. QED
    BY <2>1 DEF Swing
<1> HIDE DEF P
<1>4. ASSUME NEW n \in N(c) PROVE n \in N(d) /\ Swing(d, n[1], n[2]) = Swing(c, n[1], n[2])
  <2>1. /\ n \in (2..(Len(c) - 1)) \X SwingKinds
        /\ n[1] \in 2..(Len(c) - 1) /\ n[2] \in SwingKinds /\ n = <<n[1], n[2]>>
        /\ P(c, n[1], n[2])
    OBVIOUS
  <2>2. /\ n[1] \in 2..(Len(d) - 1) /\ P(d, n[1], n[2])
        /\ Swing(d, n[1], n[2]) = Swing(c, n[1], n[2])
    BY <1>3, <2>1
  <2>3. n \in (2..(Len(d) - 1)) \X SwingKinds
    BY <2>1, <2>2
  <2>4. QED
    BY <2>2, <2>3
<1> HIDE DEF N
<1>5. QED
  BY <1>2, <1>4

LEMMA WindowSweepsGrow ==
  ASSUME NEW c, NEW d, Longer(c, d) PROVE WindowSweeps(c) \subseteq WindowSweeps(d)
<1> DEFINE Levels(e, i, k) == {Level(e[j], k) : j \in (i - Window)..(i - 1)}
           Extreme(e, i, k) ==
             IF k = "HIGH" THEN Max(Levels(e, i, k)) ELSE Min(Levels(e, i, k))
           P(e, i, k) == Swept(e[i], k, Extreme(e, i, k))
           N(e) == {p \in ((Window + 1)..Len(e)) \X SwingKinds : P(e, p[1], p[2])}
           Sweep(e, i, k) == [at |-> i, kind |-> k, price |-> Extreme(e, i, k)]
<1>1. /\ Len(c) \in Nat /\ Len(d) = Len(c) + 1 /\ \A i \in 1..Len(c) : d[i] = c[i]
      /\ Window \in Nat
  BY LongerBars
<1>2. \A e : WindowSweeps(e) = {Sweep(e, n[1], n[2]) : n \in N(e)}
  BY DEF WindowSweeps
<1> HIDE ChartAssumption
<1>3. ASSUME NEW i \in (Window + 1)..Len(c), NEW kind
      PROVE  /\ i \in (Window + 1)..Len(d)
             /\ P(c, i, kind) <=> P(d, i, kind)
             /\ Sweep(d, i, kind) = Sweep(c, i, kind)
  <2>1. i \in (Window + 1)..Len(d) /\ d[i] = c[i]
    BY <1>1
  <2>2. \A j \in (i - Window)..(i - 1) : d[j] = c[j]
    BY <1>1
  <2>3. Levels(d, i, kind) = Levels(c, i, kind)
    BY <2>2
  <2> HIDE DEF Levels
  <2>4. Extreme(d, i, kind) = Extreme(c, i, kind)
    BY <2>3
  <2> HIDE DEF Extreme
  <2>5. QED
    BY <2>1, <2>4
<1> HIDE DEF P, Extreme, Levels, Sweep
<1>4. ASSUME NEW n \in N(c) PROVE n \in N(d) /\ Sweep(d, n[1], n[2]) = Sweep(c, n[1], n[2])
  <2>1. /\ n \in ((Window + 1)..Len(c)) \X SwingKinds
        /\ n[1] \in (Window + 1)..Len(c) /\ n[2] \in SwingKinds /\ n = <<n[1], n[2]>>
        /\ P(c, n[1], n[2])
    OBVIOUS
  <2>2. /\ n[1] \in (Window + 1)..Len(d) /\ P(d, n[1], n[2])
        /\ Sweep(d, n[1], n[2]) = Sweep(c, n[1], n[2])
    BY <1>3, <2>1
  <2>3. n \in ((Window + 1)..Len(d)) \X SwingKinds
    BY <2>1, <2>2
  <2>4. QED
    BY <2>2, <2>3
<1> HIDE DEF N
<1>5. QED
  BY <1>2, <1>4

-----------------------------------------------------------------------------
(* Everything drawn.                                                        *)

LEMMA DrawnStays ==
  ASSUME NEW c, NEW d, Longer(c, d)
  PROVE  \A e \in DOMAIN Drawn(c) : Drawn(c)[e] \subseteq Drawn(d)[e]
<1>1. /\ Swings(c) \subseteq Swings(d)
      /\ OneKind(Swings(c)) \subseteq OneKind(Swings(d))
      /\ StructureLabels(Swings(c)) \subseteq StructureLabels(Swings(d))
      /\ MarksGrow(Pools(Swings(c)), Pools(Swings(d)))
  <2>1. Grown(Swings(c), Swings(d), Len(d) - Pivot)
    BY AllSwingsGrow
  <2>2. Swings(c) \subseteq Swings(d) /\ \A s \in Swings(c) : s.at \in Nat
    BY <2>1 DEF Grown
  <2>3. Pools(Swings(c)) \subseteq Pools(Swings(d)) /\ Pools(Swings(c)) \subseteq Swings(c)
    BY <2>1, PoolsGrow DEF Pools
  <2>4. MarksGrow(Pools(Swings(c)), Pools(Swings(d)))
    BY <2>2, <2>3 DEF MarksGrow
  <2>5. QED
    BY <2>1, <2>2, <2>4, OneKindGrows, LabelsGrow
<1>2. /\ DealingRange(Swings(c)) \subseteq DealingRange(Swings(d))
      /\ BarRange(c) \subseteq BarRange(d) /\ Pivots(c) \subseteq Pivots(d)
  BY DealingGrows, BarRangeGrows, PivotsGrow
<1>3. /\ StreamSwings(c) \subseteq StreamSwings(d)
      /\ StreamBreaks(c, StreamSwings(c)) \subseteq StreamBreaks(d, StreamSwings(d))
  <2>1. Grown(StreamSwings(c), StreamSwings(d), Len(d))
    BY AllSwingsGrow
  <2>2. QED
    BY <2>1, StreamBreaksGrow DEF Grown
<1>4. {s \in Signals(c, SwingPoints(c)) : s.break.at <= Confirmed(c)}
        \subseteq {s \in Signals(d, SwingPoints(d)) : s.break.at <= Confirmed(d)}
  BY SignalsStay
<1>5. /\ Gaps(c) \subseteq Gaps(d) /\ ClosingGaps(c) \subseteq ClosingGaps(d)
      /\ Mitigated(c, ClosingGaps(c)) \subseteq Mitigated(d, ClosingGaps(d))
  <2>1. MarksGrow(Gaps(c), Gaps(d)) /\ MarksGrow(ClosingGaps(c), ClosingGaps(d))
    BY GapsGrow
  <2>2. QED
    BY <2>1, MitigatedGrow DEF MarksGrow
<1>6. /\ Blocks(c) \subseteq Blocks(d) /\ ClosingBlocks(c) \subseteq ClosingBlocks(d)
      /\ Mitigated(c, ClosingBlocks(c)) \subseteq Mitigated(d, ClosingBlocks(d))
      /\ ZoneBlocks(c) \subseteq ZoneBlocks(d)
  <2>1. MarksGrow(ClosingBlocks(c), ClosingBlocks(d))
    BY ClosingBlocksGrow
  <2>2. QED
    BY <2>1, MitigatedGrow, BlocksGrow, ZonesGrow DEF MarksGrow
<1>7. /\ Pools(Swings(c)) \subseteq Pools(Swings(d))
      /\ PoolSweeps(c, Pools(Swings(c))) \subseteq PoolSweeps(d, Pools(Swings(d)))
  BY <1>1, PoolSweepsGrow DEF MarksGrow
<1>8. /\ EqualLiquidity(SwingPoints(c)) \subseteq EqualLiquidity(SwingPoints(d))
      /\ LiquiditySweeps(c, EqualLiquidity(SwingPoints(c)))
           \subseteq LiquiditySweeps(d, EqualLiquidity(SwingPoints(d)))
  <2>1. Grown(SwingPoints(c), SwingPoints(d), Len(d) - Right)
    BY AllSwingsGrow
  <2>2. /\ EqualLiquidity(SwingPoints(c)) \subseteq EqualLiquidity(SwingPoints(d))
        /\ \A p \in EqualLiquidity(SwingPoints(c)) : p.second \in Nat
    BY <2>1, EqualLiquidityGrows
  <2>3. QED
    BY <2>2, LiquiditySweepsGrow
<1>9. EqualLevels(c) \subseteq EqualLevels(d) /\ WindowSweeps(c) \subseteq WindowSweeps(d)
  BY EqualLevelsGrow, WindowSweepsGrow
<1> HIDE ChartAssumption
<1>10. DOMAIN Drawn(c) = {"swings", "single", "labels", "dealing", "dealt", "stream",
                          "pivots", "breaks", "signals", "gaps", "closing", "filled",
                          "blocks", "closed", "tested", "zones", "pools", "swept", "equal",
                          "liquidity", "levels", "window"}
  BY DEF Drawn
<1>11. /\ Drawn(c).swings \subseteq Drawn(d).swings
       /\ Drawn(c).single \subseteq Drawn(d).single
       /\ Drawn(c).labels \subseteq Drawn(d).labels
       /\ Drawn(c).dealing \subseteq Drawn(d).dealing
       /\ Drawn(c).dealt \subseteq Drawn(d).dealt
       /\ Drawn(c).stream \subseteq Drawn(d).stream
       /\ Drawn(c).pivots \subseteq Drawn(d).pivots
       /\ Drawn(c).breaks \subseteq Drawn(d).breaks
  BY <1>1, <1>2, <1>3 DEF Drawn
<1>12. Drawn(c).signals \subseteq Drawn(d).signals
  BY <1>4 DEF Drawn
<1>13. /\ Drawn(c).gaps \subseteq Drawn(d).gaps
       /\ Drawn(c).closing \subseteq Drawn(d).closing
       /\ Drawn(c).filled \subseteq Drawn(d).filled
       /\ Drawn(c).blocks \subseteq Drawn(d).blocks
       /\ Drawn(c).closed \subseteq Drawn(d).closed
       /\ Drawn(c).tested \subseteq Drawn(d).tested
       /\ Drawn(c).zones \subseteq Drawn(d).zones
  BY <1>5, <1>6 DEF Drawn
<1>14. /\ Drawn(c).pools \subseteq Drawn(d).pools
       /\ Drawn(c).swept \subseteq Drawn(d).swept
       /\ Drawn(c).equal \subseteq Drawn(d).equal
       /\ Drawn(c).liquidity \subseteq Drawn(d).liquidity
       /\ Drawn(c).levels \subseteq Drawn(d).levels
       /\ Drawn(c).window \subseteq Drawn(d).window
  BY <1>7, <1>8, <1>9 DEF Drawn
<1>15. QED
  BY <1>10, <1>11, <1>12, <1>13, <1>14

\* What an engine has drawn on a chart stays when the next bar comes, whatever the bars,
\* the widths of the swings and of the windows, and the length of the chart (ict_engine,
\* smc_structure, ict_liquidity, ict_zones and the engines around them).
THEOREM ChartCorrect == ChartSpec => NothingRepaints
<1>1. ChartInit => chart \in Seq(ChartBars)
  BY DEF ChartInit
<1>2. chart \in Seq(ChartBars) /\ [ChartNext]_chart => (chart \in Seq(ChartBars))'
  <2>1. \A b \in ChartBars : chart \in Seq(ChartBars) => Append(chart, b) \in Seq(ChartBars)
    <3> HIDE ChartAssumption
    <3>1. QED
      OBVIOUS
  <2>2. QED
    BY <2>1 DEF ChartNext, NextBar
<1>3. ASSUME chart \in Seq(ChartBars), ChartNext
      PROVE  \A e \in DOMAIN Drawn(chart) : Drawn(chart)[e] \subseteq Drawn(chart')[e]
  <2>1. PICK b \in ChartBars : chart' = Append(chart, b)
    BY <1>3 DEF ChartNext, NextBar
  <2>2. Longer(chart, chart')
    BY <1>3, <2>1 DEF Longer
  <2>3. QED
    BY <2>2, DrawnStays
<1>4. chart \in Seq(ChartBars) /\ [ChartNext]_chart =>
        [Len(chart) < Len(chart') =>
           LET old == Drawn(chart)  new == Drawn(chart')
           IN  \A e \in DOMAIN old : old[e] \subseteq new[e]]_chart
  BY <1>3
<1>5. QED
  BY <1>1, <1>2, <1>4, PTL DEF ChartSpec, NothingRepaints

HIDE ChartAssumption

-----------------------------------------------------------------------------
(* Research.                                                                *)

LEMMA Widths == WarmupBars \in Nat /\ WarmupBars >= 1 /\ Horizon \in Nat /\ Horizon >= 1
BY ModelTrainingAssumption

\* How many bars of n have features and a label.
Usable(n) == n - Horizon - WarmupBars + 1

LEMMA MinIsFirst ==
  ASSUME NEW a \in Int, NEW b \in Int, a <= b PROVE Min({a, b}) = a
<1>1. \E x \in {a, b} : \A y \in {a, b} : x <= y
  OBVIOUS
<1> DEFINE m == CHOOSE x \in {a, b} : \A y \in {a, b} : x <= y
<1>2. m \in {a, b} /\ \A y \in {a, b} : m <= y
  BY <1>1, Zenon
<1>3. m = a
  BY <1>2
<1>4. QED
  BY <1>3 DEF Min

LEMMA MaxIsSecond ==
  ASSUME NEW a \in Int, NEW b \in Int, a <= b PROVE Max({a, b}) = b
<1>1. \E x \in {a, b} : \A y \in {a, b} : x >= y
  OBVIOUS
<1> DEFINE m == CHOOSE x \in {a, b} : \A y \in {a, b} : x >= y
<1>2. m \in {a, b} /\ \A y \in {a, b} : m >= y
  BY <1>1, Zenon
<1>3. m = b
  BY <1>2
<1>4. QED
  BY <1>3 DEF Max

LEMMA DatasetIs ==
  ASSUME NEW h, NEW S, h \in Seq(S)
  PROVE  /\ Len(Dataset(h)) = IF Usable(Len(h)) < 0 THEN 0 ELSE Usable(Len(h))
         /\ DOMAIN Dataset(h) = 1..Len(Dataset(h))
         /\ \A k \in 1..Len(Dataset(h)) :
              /\ Dataset(h)[k] = [bar |-> k + WarmupBars - 1,
                                  feature |-> FeatureAt(h, k + WarmupBars - 1),
                                  label |-> LabelAt(h, k + WarmupBars - 1)]
              /\ k + WarmupBars - 1 \in 1..Len(h)
              /\ k + WarmupBars - 1 + Horizon \in 1..Len(h)
<1> DEFINE n == Usable(Len(h))
           E(k) == [bar |-> k + WarmupBars - 1, feature |-> FeatureAt(h, k + WarmupBars - 1),
                    label |-> LabelAt(h, k + WarmupBars - 1)]
           D == [k \in 1..n |-> E(k)]
           m == IF n < 0 THEN 0 ELSE n
<1>1. Dataset(h) = D
  BY DEF Dataset, Usable
<1>2. n \in Int /\ Len(h) \in Nat /\ m \in Nat /\ 1..n = 1..m
  BY Widths DEF Usable
<1>3. \A k \in 1..m : k + WarmupBars - 1 \in 1..Len(h)
                      /\ k + WarmupBars - 1 + Horizon \in 1..Len(h)
  BY <1>2, Widths DEF Usable
<1> HIDE DEF E, n, m
<1>4. Len(D) = m /\ DOMAIN D = 1..m
  <2>1. D = [k \in 1..m |-> E(k)]
    BY <1>2
  <2>2. Len([k \in 1..m |-> E(k)]) = m
    BY <1>2
  <2>3. QED
    BY <2>1, <2>2
<1>5. \A k \in 1..m : D[k] = E(k)
  BY <1>2
<1>6. QED
  BY <1>1, <1>3, <1>4, <1>5 DEF E, n, m

\* Two histories that agree as far as a bar, the second no shorter.
Agree(h, g, bar) ==
  /\ h \in Seq(Nat) /\ g \in Seq(Nat) /\ bar \in 1..Len(h) /\ bar <= Len(g)
  /\ \A k \in 1..bar : g[k] = h[k]

LEMMA ExamplesAgree ==
  ASSUME NEW h, NEW g, NEW bar, Agree(h, g, bar), NEW k \in 1..bar,
         WarmupBars <= k, k + Horizon <= bar
  PROVE  FeatureAt(h, k) = FeatureAt(g, k) /\ LabelAt(h, k) = LabelAt(g, k)
<1>1. /\ k \in 1..Len(h) /\ k \in 1..Len(g) /\ k - WarmupBars + 1 \in 1..k
      /\ \A i \in 1..k : g[i] = h[i]
  BY Widths DEF Agree
<1>2. SubSeq(h, 1, k) = SubSeq(g, 1, k)
  <2>1. QED
    BY <1>1 DEF Agree
<1>3. FeatureAt(h, k) = FeatureAt(g, k)
  BY <1>2 DEF FeatureAt
<1>4. g[k] = h[k] /\ g[k + Horizon] = h[k + Horizon]
  <2>1. k + Horizon \in 1..bar /\ \A i \in 1..bar : g[i] = h[i]
    BY Widths DEF Agree
  <2>2. QED
    BY <2>1
<1>5. LabelAt(h, k) = LabelAt(g, k)
  BY <1>4 DEF LabelAt
<1>6. QED
  BY <1>3, <1>5

\* What was a training example when a bar was the last stays one.
LEMMA DatasetStays ==
  ASSUME NEW h, NEW g, NEW bar, Agree(h, g, bar)
  PROVE  IsPrefix(Dataset(SubSeq(h, 1, bar)), Dataset(g))
<1> DEFINE s == SubSeq(h, 1, bar)
           A == Dataset(s)
           B == Dataset(g)
<1>1. /\ s \in Seq(Nat) /\ Len(s) = bar /\ \A k \in 1..bar : s[k] = h[k]
      /\ h \in Seq(Nat) /\ g \in Seq(Nat) /\ bar \in Nat /\ bar <= Len(g) /\ Len(g) \in Nat
  <2>1. QED
    BY DEF Agree
<1>2. Agree(s, g, bar)
  BY <1>1 DEF Agree
<1> HIDE DEF s
<1>3. /\ Len(A) = IF Usable(bar) < 0 THEN 0 ELSE Usable(bar)
      /\ DOMAIN A = 1..Len(A)
      /\ \A k \in 1..Len(A) :
           /\ A[k] = [bar |-> k + WarmupBars - 1, feature |-> FeatureAt(s, k + WarmupBars - 1),
                      label |-> LabelAt(s, k + WarmupBars - 1)]
           /\ k + WarmupBars - 1 \in 1..bar
           /\ k + WarmupBars - 1 + Horizon \in 1..bar
  BY <1>1, DatasetIs
<1>4. /\ Len(B) = IF Usable(Len(g)) < 0 THEN 0 ELSE Usable(Len(g))
      /\ DOMAIN B = 1..Len(B)
      /\ \A k \in 1..Len(B) :
           /\ B[k] = [bar |-> k + WarmupBars - 1, feature |-> FeatureAt(g, k + WarmupBars - 1),
                      label |-> LabelAt(g, k + WarmupBars - 1)]
  BY <1>1, DatasetIs
<1>5. Len(A) \in Nat /\ Len(B) \in Nat /\ Len(A) <= Len(B)
  BY <1>1, <1>3, <1>4, Widths DEF Usable
<1> HIDE DEF A, B
<1>6. \A k \in 1..Len(A) : B[k] = A[k]
  <2>1. SUFFICES ASSUME NEW k \in 1..Len(A) PROVE B[k] = A[k]
    OBVIOUS
  <2> DEFINE j == k + WarmupBars - 1
  <2>2. j \in 1..bar /\ j + Horizon <= bar
    <3>1. k + WarmupBars - 1 \in 1..bar /\ k + WarmupBars - 1 + Horizon \in 1..bar
      BY <1>3
    <3>2. bar \in Nat
      BY <1>1
    <3>3. QED
      BY <3>1, <3>2
  <2>5. WarmupBars <= j /\ k \in 1..Len(B)
    BY <1>5, Widths
  <2>3. FeatureAt(s, j) = FeatureAt(g, j) /\ LabelAt(s, j) = LabelAt(g, j)
    BY <1>2, <2>2, <2>5, ExamplesAgree
  <2>4. QED
    BY <1>3, <1>4, <2>3, <2>5
<1>7. SubSeq(A, 1, Len(A)) = SubSeq(B, 1, Len(A))
  <2>1. \A k \in 1..Len(A) : B[k] = A[k] /\ k \in Nat
    BY <1>6
  <2>2. SubSeq(A, 1, Len(A)) = [k \in 1..Len(A) |-> A[k]]
    BY <1>5
  <2>3. SubSeq(B, 1, Len(A)) = [k \in 1..Len(A) |-> B[k]]
    BY <1>5
  <2>4. QED
    BY <2>1, <2>2, <2>3
<1>8. QED
  BY <1>5, <1>7 DEF IsPrefix, A, B, s

LEMMA StillAgrees ==
  ASSUME closes \in Seq(Nat), NEW bar \in DOMAIN closes
  PROVE  /\ Agree(closes, StillAfter(bar), bar) /\ Agree(closes, closes, bar)
         /\ Len(StillAfter(bar)) = Len(closes)
<1>1. DOMAIN closes = 1..Len(closes) /\ Len(closes) \in Nat /\ bar \in 1..Len(closes)
  OBVIOUS
<1> DEFINE E(k) == closes[Min({k, bar})]
           s == [k \in 1..Len(closes) |-> E(k)]
<1>2. \A k \in 1..Len(closes) : Min({k, bar}) = IF k <= bar THEN k ELSE bar
  <2>1. SUFFICES ASSUME NEW k \in 1..Len(closes)
                 PROVE  Min({k, bar}) = IF k <= bar THEN k ELSE bar
    OBVIOUS
  <2>2. {k, bar} = {bar, k} /\ k \in Int /\ bar \in Int
    BY <1>1
  <2>3. QED
    BY <2>2, MinIsFirst
<1>3. \A k \in 1..Len(closes) : E(k) \in Nat /\ (k <= bar => E(k) = closes[k])
  BY <1>1, <1>2
<1>4. StillAfter(bar) = s
  BY <1>1 DEF StillAfter
<1> HIDE DEF E
<1>5. s \in Seq(Nat) /\ Len(s) = Len(closes)
  BY <1>1, <1>3
<1>6. \A k \in 1..bar : s[k] = closes[k]
  BY <1>1, <1>3
<1>7. DOMAIN s = 1..Len(closes) /\ closes \in Seq(Nat) /\ bar <= Len(closes)
  BY <1>1
<1> HIDE DEF s
<1>8. Agree(closes, s, bar) /\ Agree(closes, closes, bar)
  BY <1>1, <1>5, <1>6, <1>7 DEF Agree
<1>9. QED
  BY <1>4, <1>5, <1>8

-----------------------------------------------------------------------------
(* Folds and windows.                                                       *)

LEMMA Products ==
  ASSUME NEW a \in Nat, NEW b \in Nat, NEW s \in Nat, a < b
  PROVE  a * s + s <= b * s /\ a * s \in Nat /\ b * s \in Nat
<1> DEFINE d == b - a - 1
<1>1. d \in Nat /\ b = a + 1 + d
  OBVIOUS
<1> HIDE DEF d
<1>2. d * s \in Nat /\ a * s \in Nat /\ b * s \in Nat
  BY <1>1
<1>3. (a + 1 + d) * s = a * s + s + d * s
  BY <1>1
<1>4. QED
  BY <1>1, <1>2, <1>3

\* The folds of n examples: each trains on all before those it validates, and validates
\* up to where the next one's training ends.
LEMMA FoldsFollow ==
  ASSUME NEW n \in Nat, NEW folds \in Nat \ {0}, NEW minimum \in Nat,
         MayTrain(n, folds, minimum)
  PROVE  LET b == FoldBounds(n, folds, minimum) IN
         /\ DOMAIN b = 1..folds /\ b[folds].end = n
         /\ \A f \in 1..folds : b[f].train \in Nat /\ b[f].end \in Nat
                                /\ b[1].train <= b[f].train /\ b[f].end <= n
         /\ \A f \in 1..(folds - 1) : b[f].end = b[f + 1].train
         /\ \A f, g \in 1..folds : f < g => b[f].end <= b[g].train
<1> DEFINE least == MinimumOf(n, folds, minimum)
           step == Max({1, (n - least) \div folds})
           b == FoldBounds(n, folds, minimum)
           q == (n - least) \div folds
<1>1. least \in Nat /\ n - least >= folds
  <2>1. least \in Nat
    <3> DEFINE p == n \div (folds + 1)
    <3>1. p \in Nat
      OBVIOUS
    <3> HIDE DEF p
    <3>2. Max({1, p}) \in Nat
      <4>1. CASE 1 <= p
        BY <3>1, <4>1, MaxIsSecond
      <4>2. CASE p <= 1
        <5>1. {1, p} = {p, 1} /\ p \in Int
          BY <3>1
        <5>2. QED
          BY <4>2, <5>1, MaxIsSecond
      <4>3. QED
        BY <3>1, <4>1, <4>2
    <3>3. QED
      BY <3>2 DEF MinimumOf, p
  <2>2. QED
    BY <2>1 DEF MayTrain
<1> HIDE DEF least
<1>2. q \in Nat /\ q >= 1 /\ folds * q <= n - least
  <2> DEFINE t == n - least
  <2>1. t \in Nat /\ t >= folds
    BY <1>1
  <2> HIDE DEF t
  <2>2. /\ t \div folds \in Nat /\ t = (folds * (t \div folds)) + (t % folds)
        /\ t % folds \in 0..(folds - 1)
    BY <2>1
  <2>3. t \div folds # 0
    <3>1. SUFFICES ASSUME t \div folds = 0 PROVE FALSE
      OBVIOUS
    <3>2. folds * (t \div folds) = 0
      BY <3>1
    <3>3. QED
      BY <2>1, <2>2, <3>2
  <2>4. t \div folds >= 1
    BY <2>2, <2>3
  <2>5. QED
    BY <2>2, <2>4 DEF t
<1>3. step = q
  <2>1. step = Max({1, q})
    OBVIOUS
  <2> HIDE DEF q, step
  <2>2. Max({1, q}) = q
    BY <1>2, MaxIsSecond
  <2>3. QED
    BY <2>1, <2>2
<1>4. b = [f \in 1..folds |-> [train |-> least + q * (f - 1),
                               end |-> IF f = folds THEN n ELSE least + q * f]]
  BY <1>3 DEF FoldBounds, least
<1> HIDE DEF q, b, step
<1>5. \A f \in Nat : q * f \in Nat
  BY <1>2
<1>6. \A f, g \in Nat : f < g => f * q + q <= g * q
  BY <1>2, Products
<1>7. \A f \in 1..folds : f * q <= folds * q
  <2>1. SUFFICES ASSUME NEW f \in 1..folds PROVE f * q <= folds * q
    OBVIOUS
  <2>2. f < folds => f * q + q <= folds * q
    BY <1>6
  <2>3. f * q \in Nat /\ folds * q \in Nat
    BY <1>2
  <2>4. QED
    BY <1>2, <2>2, <2>3
<1>8. \A f \in 1..folds : q * (f - 1) = f * q - q /\ q * f = f * q /\ f * q \in Nat
                          /\ f * q >= q
  <2>1. SUFFICES ASSUME NEW f \in 1..folds
                 PROVE  q * (f - 1) = f * q - q /\ q * f = f * q /\ f * q \in Nat /\ f * q >= q
    OBVIOUS
  <2>2. q * (f - 1) = f * q - q /\ q * f = f * q /\ f * q \in Nat
    BY <1>2
  <2>3. 0 < f => 0 * q + q <= f * q
    BY <1>6
  <2>4. QED
    BY <1>2, <2>2, <2>3
<1>9. DOMAIN b = 1..folds /\ b[folds].end = n
  BY <1>4
<1>10. \A f \in 1..folds : /\ b[f].train = least + (f * q - q)
                           /\ b[f].end = IF f = folds THEN n ELSE least + f * q
  BY <1>4, <1>8
<1>11. \A f \in 1..folds : b[f].train \in Nat /\ b[f].end \in Nat
                           /\ b[1].train <= b[f].train /\ b[f].end <= n
  <2>1. b[1].train = least
    <3>1. 1 \in 1..folds /\ 1 * q - q = 0
      BY <1>2
    <3>2. QED
      BY <1>1, <1>10, <3>1
  <2>2. ASSUME NEW f \in 1..folds
        PROVE  /\ b[f].train \in Nat /\ b[f].end \in Nat
               /\ b[1].train <= b[f].train /\ b[f].end <= n
    <3> DEFINE upTo == f * q
               all == folds * q
    <3>1. /\ upTo \in Nat /\ upTo >= q /\ upTo <= all /\ all <= n - least /\ all \in Nat
      BY <1>2, <1>7, <1>8
    <3>2. b[f].train = least + (upTo - q) /\ b[f].end = IF f = folds THEN n ELSE least + upTo
      BY <1>10, Zenon
    <3> HIDE DEF upTo, all
    <3>3. QED
      BY <1>1, <1>2, <2>1, <3>1, <3>2
  <2>3. QED
    BY <2>2, Zenon
<1>12. \A f \in 1..(folds - 1) : b[f].end = b[f + 1].train
  <2>1. SUFFICES ASSUME NEW f \in 1..(folds - 1) PROVE b[f].end = b[f + 1].train
    OBVIOUS
  <2>2. (f + 1) * q - q = f * q
    BY <1>2
  <2>3. QED
    BY <1>10, <2>2
<1>13. ASSUME NEW f \in 1..folds, NEW g \in 1..folds, f < g PROVE b[f].end <= b[g].train
  <2>1. f * q + q <= g * q
    BY <1>6, <1>13
  <2>2. b[f].end = least + f * q /\ b[g].train = least + (g * q - q)
    BY <1>10, <1>13
  <2>3. f * q \in Nat /\ g * q \in Nat
    BY <1>8
  <2>4. QED
    BY <1>1, <1>2, <2>1, <2>2, <2>3
<1>14. QED
  BY <1>9, <1>11, <1>12, <1>13 DEF b

\* The rows of a walk-forward are known to agree with those of another history.
LEMMA WindowsAgree ==
  ASSUME NEW h, NEW g, NEW bar, Agree(h, g, bar), NEW start \in Nat, NEW size,
         NEW cut, cut = start + size[1], cut \in Nat, cut <= bar
  PROVE  WalkForwardRow(h, size, start).best = WalkForwardRow(g, size, start).best
<1> DEFINE first == SubSeq(h, start + 1, cut)
           second == SubSeq(g, start + 1, cut)
<1>1. first = second
  <2>1. \A k \in (start + 1)..cut : k \in 1..bar /\ bar \in Nat
    BY DEF Agree
  <2>6. \A k \in 1..bar : g[k] = h[k]
    BY DEF Agree
  <2>2. \A k \in 1..(cut - start) : h[start + k] = g[start + k]
    <3>1. \A k \in 1..(cut - start) : start + k \in (start + 1)..cut
      OBVIOUS
    <3>2. QED
      BY <2>1, <2>6, <3>1
  <2>3. first = [k \in 1..(cut - start) |-> h[start + k]]
    BY DEF Agree
  <2>4. second = [k \in 1..(cut - start) |-> g[start + k]]
    BY DEF Agree
  <2> HIDE DEF first, second
  <2>5. QED
    BY <2>2, <2>3, <2>4
<1>2. QED
  BY <1>1 DEF WalkForwardRow

LEMMA StartsAre ==
  ASSUME NEW total \in Nat, NEW size \in WindowSizes
  PROVE  /\ size[1] \in Nat /\ size[2] \in Nat /\ size[3] \in Nat
         /\ \A start \in Starts(total, size) :
              \E k \in Nat : start = k * size[3] /\ start \in Nat
<1>1. size \in (Nat \ {0}) \X (Nat \ {0}) \X (Nat \ {0})
  BY ModelTrainingAssumption
<1>2. size[1] \in Nat /\ size[2] \in Nat /\ size[3] \in Nat
  BY <1>1
<1>3. ASSUME NEW start \in Starts(total, size)
      PROVE  \E k \in Nat : start = k * size[3] /\ start \in Nat
  <2>1. PICK k \in 0..total : start = k * size[3]
    BY <1>3 DEF Starts
  <2>2. k \in Nat /\ k * size[3] \in Nat
    BY <1>2
  <2>3. QED
    BY <2>1, <2>2
<1>4. QED
  BY <1>2, <1>3

-----------------------------------------------------------------------------
(* Nothing that is learnt knows what comes later.                           *)

\* What a study was computed from.
StudyOK ==
  \/ study = NoStudy
  \/ /\ study.kind = "training"
     /\ \E folds \in FoldCounts, minimum \in Minimums :
          /\ MayTrain(Len(Dataset(closes)), folds, minimum)
          /\ study.bounds = FoldBounds(Len(Dataset(closes)), folds, minimum)
     /\ study.model = Fit(Dataset(closes))
     /\ \E candidate, baseline :
          study.reasons = Reasons(Dataset(closes), candidate, baseline)
  \/ /\ study.kind = "windows" /\ study.size \in WindowSizes
     /\ study.rows \subseteq WalkForwardRows(closes, study.size)

ResearchInv == closes \in Seq(ClosingPrices) /\ StudyOK

LEMMA ResearchStarts == ResearchInit => ResearchInv
BY DEF ResearchInit, ResearchInv, StudyOK

LEMMA ResearchPreserved == ResearchInv /\ [ResearchNext]_researchVars => ResearchInv'
<1> SUFFICES ASSUME ResearchInv, [ResearchNext]_researchVars PROVE ResearchInv'
  OBVIOUS
<1>1. ASSUME NEW price \in ClosingPrices, CandleArrives(price) PROVE ResearchInv'
  <2>1. closes' \in Seq(ClosingPrices)
    BY <1>1 DEF CandleArrives, ResearchInv
  <2>2. StudyOK'
    BY <1>1 DEF CandleArrives, StudyOK
  <2>3. QED
    BY <2>1, <2>2 DEF ResearchInv
<1>2. ASSUME NEW folds \in FoldCounts, NEW minimum \in Minimums, TrainAndGate(folds, minimum)
      PROVE  ResearchInv'
  <2> DEFINE examples == Dataset(closes)
             bounds == FoldBounds(Len(examples), folds, minimum)
             candidates == Mean([f \in 1..folds |-> CandidateFold(examples, bounds[f])])
             baselines == Mean([f \in 1..folds |-> BaselineFold(examples, bounds[f])])
  <2>1. /\ closes' = closes /\ MayTrain(Len(examples), folds, minimum)
        /\ study'.kind = "training" /\ study'.bounds = bounds /\ study'.model = Fit(examples)
        /\ study'.reasons = Reasons(examples, candidates, baselines)
    BY <1>2 DEF TrainAndGate
  <2> HIDE DEF candidates, baselines
  <2>2. \E candidate, baseline : study'.reasons = Reasons(examples, candidate, baseline)
    BY <2>1
  <2>3. StudyOK'
    BY <2>1, <2>2 DEF StudyOK
  <2>4. QED
    BY <2>1, <2>3 DEF ResearchInv
<1>3. ASSUME NEW size \in WindowSizes, RunWalkForward(size) \/ OptimizeWalkForward(size)
      PROVE  ResearchInv'
  <2>1. /\ closes' = closes /\ study'.kind = "windows" /\ study'.size = size
        /\ study'.rows \subseteq WalkForwardRows(closes, size)
    BY <1>3 DEF RunWalkForward, OptimizeWalkForward, WindowRows
  <2>2. StudyOK'
    BY <2>1 DEF StudyOK
  <2>3. QED
    BY <2>1, <2>2 DEF ResearchInv
<1>4. CASE UNCHANGED researchVars
  BY <1>4 DEF researchVars, ResearchInv, StudyOK
<1>5. QED
  BY <1>1, <1>2, <1>3, <1>4 DEF ResearchNext

LEMMA HistoryIsSeq ==
  ASSUME ResearchInv
  PROVE  closes \in Seq(Nat) /\ DOMAIN closes = 1..Len(closes) /\ Len(closes) \in Nat
<1>1. ClosingPrices \subseteq Nat
  BY ModelTrainingAssumption
<1>2. closes \in Seq(ClosingPrices)
  BY DEF ResearchInv
<1>3. closes \in Seq(Nat)
  <2>1. /\ DOMAIN closes = 1..Len(closes) /\ Len(closes) \in Nat
        /\ closes = [i \in 1..Len(closes) |-> closes[i]]
        /\ \A i \in 1..Len(closes) : closes[i] \in ClosingPrices
    BY <1>2
  <2>2. \A i \in 1..Len(closes) : closes[i] \in Nat
    BY <1>1, <2>1
  <2>3. [i \in 1..Len(closes) |-> closes[i]] \in Seq(Nat)
    BY <2>1, <2>2
  <2>4. QED
    BY <2>1, <2>3
<1>4. QED
  BY <1>3

LEMMA FoldsSeeOnlyThePast ==
  ASSUME ResearchInv, study.kind = "training", ModelGate.class > 0
  PROVE  LET folds == study.bounds
             examples == Dataset(closes)
             validated(f) == (folds[f].train + 1)..folds[f].end IN
         /\ UNION {validated(f) : f \in DOMAIN folds} = (folds[1].train + 1)..Len(examples)
         /\ \A f, g \in DOMAIN folds : f # g => validated(f) \cap validated(g) = {}
         /\ \A f \in DOMAIN folds : \A k \in validated(f) :
              k >= folds[f].train + Horizon =>
                folds[f].train <= Len(Dataset(SubSeq(closes, 1, examples[k].bar)))
         /\ study.reasons = {} => DOMAIN study.model = Labels
<1> DEFINE b == study.bounds
           examples == Dataset(closes)
           n == Len(examples)
           validated(f) == (b[f].train + 1)..b[f].end
<1>1. PICK m \in FoldCounts, minimum \in Minimums :
        MayTrain(n, m, minimum) /\ b = FoldBounds(n, m, minimum)
  BY DEF ResearchInv, StudyOK, NoStudy
<1>2. closes \in Seq(Nat) /\ Len(closes) \in Nat /\ DOMAIN closes = 1..Len(closes)
  BY HistoryIsSeq
<1>3. /\ n = (IF Usable(Len(closes)) < 0 THEN 0 ELSE Usable(Len(closes)))
      /\ DOMAIN examples = 1..n
      /\ \A k \in 1..n : /\ examples[k] = [bar |-> k + WarmupBars - 1,
                                           feature |-> FeatureAt(closes, k + WarmupBars - 1),
                                           label |-> LabelAt(closes, k + WarmupBars - 1)]
                         /\ k + WarmupBars - 1 \in 1..Len(closes)
  BY <1>2, DatasetIs
<1> DEFINE At(k) == k + WarmupBars - 1
           Example(k) == [bar |-> At(k), feature |-> FeatureAt(closes, At(k)),
                          label |-> LabelAt(closes, At(k))]
<1>11. \A k \in 1..n : examples[k] = Example(k) /\ At(k) \in 1..Len(closes)
  BY <1>3
<1>12. \A k : Example(k).bar = At(k) /\ Example(k).label = LabelAt(closes, At(k))
  OBVIOUS
<1>4. n \in Nat /\ m \in Nat \ {0} /\ minimum \in Nat
  BY <1>2, <1>3, Widths, ModelTrainingAssumption DEF Usable
<1> HIDE DEF n, Example
<1>5. /\ DOMAIN b = 1..m /\ b[m].end = n
      /\ \A f \in 1..m : b[f].train \in Nat /\ b[f].end \in Nat
                         /\ b[1].train <= b[f].train /\ b[f].end <= n
      /\ \A f \in 1..(m - 1) : b[f].end = b[f + 1].train
      /\ \A f, g \in 1..m : f < g => b[f].end <= b[g].train
  BY <1>1, <1>4, FoldsFollow
<1> HIDE DEF b
<1>6. UNION {validated(f) : f \in 1..m} = (b[1].train + 1)..n
  <2>1. ASSUME NEW f \in 1..m, NEW k \in validated(f) PROVE k \in (b[1].train + 1)..n
    BY <1>4, <1>5
  <2>2. ASSUME NEW k \in (b[1].train + 1)..n PROVE \E f \in 1..m : k \in validated(f)
    <3> DEFINE F == {f \in 1..m : k <= b[f].end}
    <3>1. F \subseteq Nat /\ m \in F
      BY <1>4, <1>5
    <3>2. PICK f \in F : \A g \in F : f <= g
      BY <3>1, LeastNumber
    <3>3. CASE f = 1
      BY <1>4, <1>5, <3>2, <3>3
    <3>4. CASE f # 1
      <4>1. f - 1 \in 1..(m - 1) /\ f - 1 \notin F /\ (f - 1) + 1 = f /\ f - 1 \in 1..m
        BY <1>4, <3>2, <3>4
      <4>2. b[f - 1].end = b[f].train /\ b[f - 1].end \in Nat
        BY <1>5, <4>1
      <4>3. ~(k <= b[f - 1].end)
        BY <4>1
      <4>4. k \in validated(f) /\ f \in 1..m
        BY <1>4, <1>5, <3>2, <4>2, <4>3
      <4>5. QED
        BY <4>4
    <3>5. QED
      BY <3>3, <3>4
  <2>3. QED
    BY <2>1, <2>2
<1>7. ASSUME NEW f \in 1..m, NEW g \in 1..m, f # g PROVE validated(f) \cap validated(g) = {}
  BY <1>4, <1>5, <1>7
<1>8. ASSUME NEW f \in 1..m, NEW k \in validated(f), k >= b[f].train + Horizon
      PROVE  b[f].train <= Len(Dataset(SubSeq(closes, 1, examples[k].bar)))
  <2> DEFINE bar == At(k)
  <2>1. k \in 1..n /\ b[f].train \in Nat
    BY <1>4, <1>5
  <2>2. examples[k].bar = bar /\ bar \in 1..Len(closes) /\ bar \in Nat
    <3> HIDE DEF At, examples
    <3>1. examples[k].bar = bar /\ bar \in 1..Len(closes)
      BY <1>11, <1>12, <2>1
    <3>2. QED
      BY <1>2, <3>1
  <2> DEFINE s == SubSeq(closes, 1, bar)
  <2> HIDE DEF bar
  <2>3. s \in Seq(Nat) /\ Len(s) = bar
    BY <1>2, <2>2
  <2> HIDE DEF s
  <2>4. Len(Dataset(s)) = IF Usable(bar) < 0 THEN 0 ELSE Usable(bar)
    BY <2>3, DatasetIs
  <2>5. Usable(bar) = k - Horizon
    BY <2>1, Widths DEF Usable, bar
  <2>6. b[f].train <= Len(Dataset(s))
    BY <1>8, <2>1, <2>4, <2>5, Widths
  <2>7. QED
    BY <2>2, <2>6 DEF s
<1>9. ASSUME study.reasons = {} PROVE DOMAIN study.model = Labels
  <2>1. PICK candidate, baseline : study.reasons = Reasons(examples, candidate, baseline)
    BY DEF ResearchInv, StudyOK, NoStudy
  <2>2. \A label \in Labels :
          ~(100 * Cardinality(Labelled(examples, label)) < ModelGate.class * Len(examples))
    <3>1. "class_underrepresented" \notin Reasons(examples, candidate, baseline)
      BY <1>9, <2>1
    <3> HIDE DEF examples
    <3>2. QED
      BY <3>1 DEF Reasons
  <2>3. Len(examples) > 0 /\ ModelGate.class \in Nat
    BY <1>1, <1>4, ModelTrainingAssumption DEF MayTrain, n
  <2>4. ModelGate.class * Len(examples) > 0
    BY <1>4, <2>3 DEF n
  <2>5. \A label \in Labels : Labelled(examples, label) # {}
    <3>1. SUFFICES ASSUME NEW label \in Labels, Labelled(examples, label) = {} PROVE FALSE
      OBVIOUS
    <3>2. Cardinality(Labelled(examples, label)) = 0
      BY <3>1, FS_EmptySet
    <3>3. QED
      BY <2>2, <2>4, <3>2
  <2>6. DOMAIN study.model = {examples[k].label : k \in DOMAIN examples}
    BY DEF ResearchInv, StudyOK, NoStudy, Fit
  <2>7. \A k \in DOMAIN examples : examples[k].label \in Labels
    <3>1. \A h, bar : LabelAt(h, bar) \in Labels
      BY DEF LabelAt, Labels
    <3> HIDE DEF examples, At
    <3>2. DOMAIN examples = 1..n
      BY <1>3
    <3>3. QED
      BY <1>11, <1>12, <3>1, <3>2
  <2> HIDE DEF examples
  <2>8. \A label \in Labels : \E k \in DOMAIN examples : examples[k].label = label
    BY <2>5 DEF Labelled
  <2>9. QED
    BY <2>6, <2>7, <2>8
<1>10. QED
  BY <1>5, <1>6, <1>7, <1>8, <1>9 DEF n, b

LEMMA WindowsSeeOnlyThePast ==
  ASSUME ResearchInv, study.kind = "windows"
  PROVE  LET rows == study.rows IN
         /\ \A x, y \in rows :
              x.start < y.start /\ study.size[3] >= study.size[2] => x.end <= y.cut
         /\ \A bar \in DOMAIN closes : \A x \in rows : x.cut <= bar =>
              \E y \in WalkForwardRows(StillAfter(bar), study.size) :
                y.start = x.start /\ y.best = x.best
<1> DEFINE rows == study.rows
           size == study.size
<1>1. size \in WindowSizes /\ rows \subseteq WalkForwardRows(closes, size)
  BY DEF ResearchInv, StudyOK, NoStudy
<1>2. closes \in Seq(Nat) /\ Len(closes) \in Nat
  BY HistoryIsSeq
<1> HIDE DEF rows, size
<1>3. size[1] \in Nat /\ size[2] \in Nat /\ size[3] \in Nat
  BY <1>1, <1>2, StartsAre
<1>4. \A x \in rows : /\ x.start \in Starts(Len(closes), size)
                      /\ x = WalkForwardRow(closes, size, x.start)
                      /\ x.cut = x.start + size[1] /\ x.end = x.cut + size[2]
  BY <1>1 DEF WalkForwardRows, WalkForwardRow
<1>5. \A x \in rows : \E k \in Nat : x.start = k * size[3] /\ x.start \in Nat
  BY <1>1, <1>2, <1>4, StartsAre
<1>6. ASSUME NEW x \in rows, NEW y \in rows, x.start < y.start, size[3] >= size[2]
      PROVE  x.end <= y.cut
  <2>1. PICK a \in Nat : x.start = a * size[3] /\ x.start \in Nat
    BY <1>5
  <2>2. PICK c \in Nat : y.start = c * size[3] /\ y.start \in Nat
    BY <1>5
  <2>3. a < c
    <3>1. SUFFICES ASSUME c <= a PROVE FALSE
      OBVIOUS
    <3>2. c < a => c * size[3] + size[3] <= a * size[3]
      BY <1>3, Products
    <3>3. QED
      BY <1>3, <1>6, <2>1, <2>2, <3>1, <3>2
  <2>4. x.start + size[3] <= y.start
    BY <1>3, <2>1, <2>2, <2>3, Products
  <2>5. x.end = x.start + size[1] + size[2] /\ y.cut = y.start + size[1]
    BY <1>3, <1>4, <2>1
  <2>6. QED
    BY <1>3, <1>6, <2>1, <2>2, <2>4, <2>5
<1>7. ASSUME NEW bar \in DOMAIN closes, NEW x \in rows, x.cut <= bar
      PROVE  \E y \in WalkForwardRows(StillAfter(bar), size) :
               y.start = x.start /\ y.best = x.best
  <2>1. Agree(closes, StillAfter(bar), bar) /\ Len(StillAfter(bar)) = Len(closes)
    BY <1>2, StillAgrees
  <2> DEFINE y == WalkForwardRow(StillAfter(bar), size, x.start)
  <2>2. x.start \in Nat /\ x.cut \in Nat
    BY <1>3, <1>4, <1>5
  <2>3. WalkForwardRow(closes, size, x.start).best = y.best
    BY <1>4, <1>7, <2>1, <2>2, WindowsAgree
  <2>4. y \in WalkForwardRows(StillAfter(bar), size)
    BY <1>4, <2>1 DEF WalkForwardRows
  <2>5. y.start = x.start
    BY DEF WalkForwardRow
  <2>6. y.best = x.best
    BY <1>4, <2>3
  <2> HIDE DEF y
  <2>7. QED
    BY <2>4, <2>5, <2>6
<1>8. QED
  BY <1>6, <1>7 DEF rows, size

LEMMA ResearchSees ==
  ASSUME ResearchInv, ModelGate.class > 0 PROVE ResearchSeesOnlyThePast
<1>1. ASSUME NEW bar \in DOMAIN closes
      PROVE  /\ IsPrefix(Dataset(SubSeq(closes, 1, bar)), Dataset(StillAfter(bar)))
             /\ IsPrefix(Dataset(SubSeq(closes, 1, bar)), Dataset(closes))
  <2>1. Agree(closes, StillAfter(bar), bar) /\ Agree(closes, closes, bar)
    BY HistoryIsSeq, StillAgrees
  <2>2. QED
    BY <2>1, DatasetStays
<1>2. QED
  BY <1>1, FoldsSeeOnlyThePast, WindowsSeeOnlyThePast DEF ResearchSeesOnlyThePast

\* For histories of any length, any horizon, folds and windows: nothing that is learnt or
\* chosen knows what comes later, when the gate asks for a share of every class
\* (min_class_fraction is not zero; zero admits a model that has not seen a label).
THEOREM ResearchCorrect ==
  ASSUME ModelGate.class > 0 PROVE ResearchSpec => []ResearchSeesOnlyThePast
<1>1. ResearchInv => ResearchSeesOnlyThePast
  BY ResearchSees
<1>2. QED
  BY <1>1, ResearchStarts, ResearchPreserved, PTL DEF ResearchSpec

-----------------------------------------------------------------------------
(* Candles.                                                                 *)

CandleTick == [time : Nat, price : Nat, volume : Int]

Bar == [start : Nat, open : Nat, high : Nat, low : Nat, close : Nat, volume : Int]

Volumes(items) == [n \in DOMAIN items |-> items[n].volume]

\* c has the values of the candle that the items at some positions make.
MakesUp(c, items, at) ==
  /\ \E n \in at : (\A m \in at : n <= m) /\ c.open = items[n].open
  /\ \E n \in at : (\A m \in at : m <= n) /\ c.close = items[n].close
  /\ \E n \in at : c.high = items[n].high
  /\ \A n \in at : items[n].high <= c.high
  /\ \E n \in at : c.low = items[n].low
  /\ \A n \in at : c.low <= items[n].low
  /\ c.volume = SumFunctionOnSet(Volumes(items), at)

\* Positions in the order of the times of their items.
InOrder(items, at) == \A m, n \in at : m <= n => items[m].start <= items[n].start

\* CandleOf is the one candle with the values that the items at the positions make.
LEMMA CandleIs ==
  ASSUME NEW n \in Nat, NEW items, DOMAIN items = 1..n, \A i \in 1..n : items[i] \in Bar,
         NEW at \in SUBSET (1..n), InOrder(items, at), NEW c \in Bar, MakesUp(c, items, at)
  PROVE  CandleOf(items, at, c.start) = c
<1> DEFINE notAfter(i, j) == \/ items[i].start < items[j].start
                             \/ items[i].start = items[j].start /\ i <= j
           first == CHOOSE i \in at : \A j \in at : notAfter(i, j)
           last == CHOOSE i \in at : \A j \in at : notAfter(j, i)
           highs == {items[i].high : i \in at}
           lows == {items[i].low : i \in at}
<1>0. \A i \in at : /\ i \in Nat /\ items[i].start \in Nat /\ items[i].high \in Nat
                    /\ items[i].low \in Nat
  <2>1. SUFFICES ASSUME NEW i \in at
                 PROVE  /\ i \in Nat /\ items[i].start \in Nat /\ items[i].high \in Nat
                        /\ items[i].low \in Nat
    OBVIOUS
  <2>2. i \in 1..n
    OBVIOUS
  <2>3. items[i] \in Bar
    BY <2>2
  <2>4. QED
    BY <2>2, <2>3 DEF Bar
<1>1. \A i, j \in at : i <= j => notAfter(i, j)
  <2>1. SUFFICES ASSUME NEW i \in at, NEW j \in at, i <= j PROVE notAfter(i, j)
    BY Zenon
  <2>2. items[i].start <= items[j].start
    BY <2>1, Zenon DEF InOrder
  <2>3. items[i].start \in Nat /\ items[j].start \in Nat
    BY <1>0
  <2>4. QED
    BY <2>1, <2>2, <2>3
<1>2. \A i, j \in at : notAfter(i, j) /\ notAfter(j, i) => i = j
  <2>1. \A i \in at : i \in Nat /\ items[i].start \in Nat
    BY <1>0
  <2>2. QED
    BY <2>1
<1>3. PICK f \in at : (\A m \in at : f <= m) /\ c.open = items[f].open
  BY DEF MakesUp
<1>4. PICK l \in at : (\A m \in at : m <= l) /\ c.close = items[l].close
  BY DEF MakesUp
<1> HIDE DEF notAfter
<1>5. first = f
  <2>1. \A j \in at : notAfter(f, j)
    BY <1>1, <1>3
  <2>2. first \in at /\ \A j \in at : notAfter(first, j)
    BY <2>1, Zenon
  <2>3. QED
    BY <1>2, <2>1, <2>2, Zenon
<1>6. last = l
  <2>1. \A j \in at : notAfter(j, l)
    BY <1>1, <1>4
  <2>2. last \in at /\ \A j \in at : notAfter(j, last)
    BY <2>1, Zenon
  <2>3. QED
    BY <1>2, <2>1, <2>2, Zenon
<1>7. Max(highs) = c.high
  <2> DEFINE h == c.high
  <2>1. /\ \A x \in highs : x \in Nat /\ h >= x
        /\ h \in highs
    BY <1>0 DEF MakesUp, Bar
  <2> HIDE DEF highs, h
  <2>2. \A x \in highs : (\A y \in highs : x >= y) => x = h
    BY <2>1
  <2>3. QED
    BY <2>1, <2>2, Zenon DEF Max, h
<1>8. Min(lows) = c.low
  <2> DEFINE l1 == c.low
  <2>1. /\ \A x \in lows : x \in Nat /\ l1 <= x
        /\ l1 \in lows
    BY <1>0 DEF MakesUp, Bar
  <2> HIDE DEF lows, l1
  <2>2. \A x \in lows : (\A y \in lows : x <= y) => x = l1
    BY <2>1
  <2>3. QED
    BY <2>1, <2>2, Zenon DEF Min, l1
<1>9. CandleOf(items, at, c.start) =
        [start |-> c.start, open |-> items[first].open, close |-> items[last].close,
         high |-> Max(highs), low |-> Min(lows),
         volume |-> SumFunctionOnSet(Volumes(items), at)]
  BY Zenon DEF CandleOf, Volumes, notAfter
<1> HIDE DEF first, last, highs, lows
<1>10. CandleOf(items, at, c.start) =
        [start |-> c.start, open |-> c.open, close |-> c.close,
         high |-> c.high, low |-> c.low, volume |-> c.volume]
  BY <1>3, <1>4, <1>5, <1>6, <1>7, <1>8, <1>9, Zenon DEF MakesUp
<1>11. c = [start |-> c.start, open |-> c.open, close |-> c.close,
         high |-> c.high, low |-> c.low, volume |-> c.volume]
  BY DEF Bar
<1>12. QED
  BY <1>10, <1>11, Zenon

\* Sets of positions are finite.
LEMMA FinitelyMany ==
  ASSUME NEW n \in Nat, NEW at \in SUBSET (1..n)
  PROVE  IsFiniteSet(at) /\ at \subseteq Int
<1>1. IsFiniteSet(1..n)
  BY FS_Interval
<1>2. IsFiniteSet(at)
  BY <1>1, FS_Subset, Zenon
<1>3. QED
  BY <1>2

\* R holds the values f has on S, all of them naturals.
ValuesOf(R, f, S) ==
  /\ \A x \in S : f[x] \in R /\ f[x] \in Nat
  /\ \A y \in R : \E x \in S : y = f[x]

\* The least and the greatest of the values at some positions.
LEMMA FiniteRange ==
  ASSUME NEW S, IsFiniteSet(S), S # {}, NEW f, NEW R, ValuesOf(R, f, S)
  PROVE  /\ Max(R) \in R /\ \A y \in R : y <= Max(R)
         /\ Min(R) \in R /\ \A y \in R : Min(R) <= y
<1> DEFINE g == [x \in S |-> f[x]]
<1>1. g \in Surjection(S, R)
  BY DEF Surjection, ValuesOf
<1>2. IsFiniteSet(R)
  BY <1>1, FS_Surjection
<1>3. R \subseteq Int /\ R # {}
  BY DEF ValuesOf
<1>4. QED
  BY <1>2, <1>3, MinOfFinite

\* Some candle is made up of any positions.
LEMMA SomeCandle ==
  ASSUME NEW n \in Nat, NEW items, DOMAIN items = 1..n, \A i \in 1..n : items[i] \in Bar,
         NEW at \in SUBSET (1..n), at # {}, NEW b \in Nat
  PROVE  \E c \in Bar : c.start = b /\ MakesUp(c, items, at)
<1>1. IsFiniteSet(at) /\ at \subseteq Int
  BY FinitelyMany
<1> DEFINE highs == {items[i].high : i \in at}
           lows == {items[i].low : i \in at}
           volume == SumFunctionOnSet(Volumes(items), at)
<1>2. ASSUME NEW i \in at
      PROVE  /\ i \in 1..n /\ items[i].high \in Nat /\ items[i].low \in Nat
             /\ items[i].open \in Nat /\ items[i].close \in Nat
             /\ Volumes(items)[i] \in Int
  <2>1. i \in 1..n
    OBVIOUS
  <2>2. items[i] \in Bar
    BY <2>1
  <2>3. QED
    BY <2>1, <2>2 DEF Bar, Volumes
<1>3. /\ Min(at) \in at /\ \A m \in at : Min(at) <= m
      /\ Max(at) \in at /\ \A m \in at : m <= Max(at)
  BY <1>1, MinOfFinite
<1>4. /\ Max(highs) \in highs /\ \A x \in highs : x <= Max(highs)
      /\ Min(lows) \in lows /\ \A x \in lows : Min(lows) <= x
  <2> DEFINE h == [i \in at |-> items[i].high]
             l == [i \in at |-> items[i].low]
  <2>1. \A i \in at : h[i] \in Nat /\ l[i] \in Nat
    BY <1>2
  <2>2. ValuesOf(highs, h, at) /\ ValuesOf(lows, l, at)
    <3>1. /\ \A i \in at : h[i] \in highs /\ l[i] \in lows
          /\ \A x \in highs : \E i \in at : x = h[i]
          /\ \A x \in lows : \E i \in at : x = l[i]
      OBVIOUS
    <3>2. QED
      BY <2>1, <3>1, Zenon DEF ValuesOf
  <2>0. at # {}
    OBVIOUS
  <2> HIDE DEF highs, lows, h, l
  <2>3. Max(highs) \in highs /\ \A x \in highs : x <= Max(highs)
    BY <1>1, <2>0, <2>2, FiniteRange
  <2>4. Min(lows) \in lows /\ \A x \in lows : Min(lows) <= x
    BY <1>1, <2>0, <2>2, FiniteRange
  <2>5. QED
    BY <2>3, <2>4, Zenon
<1>5. volume \in Int
  BY <1>1, <1>2, SumType
<1> DEFINE c == [start |-> b, open |-> items[Min(at)].open, close |-> items[Max(at)].close,
                 high |-> Max(highs), low |-> Min(lows), volume |-> volume]
<1>6. c \in Bar
  <2>1. Max(highs) \in Nat /\ Min(lows) \in Nat
    BY <1>2, <1>4
  <2> HIDE DEF highs, lows, volume
  <2>2. QED
    BY <1>2, <1>3, <1>5, <2>1 DEF Bar
<1>7. MakesUp(c, items, at)
  <2>1. /\ \E i \in at : Max(highs) = items[i].high
        /\ \A i \in at : items[i].high <= Max(highs)
        /\ \E i \in at : Min(lows) = items[i].low
        /\ \A i \in at : Min(lows) <= items[i].low
    BY <1>4
  <2> HIDE DEF highs, lows
  <2>2. QED
    BY <1>3, <2>1 DEF MakesUp
<1>8. QED
  BY <1>6, <1>7

\* One item more.
OneMore(more, items, n) ==
  /\ DOMAIN items = 1..n /\ DOMAIN more = 1..n + 1
  /\ \A i \in 1..n : more[i] = items[i]
  /\ \A i \in 1..n + 1 : more[i] \in Bar

\* One item more leaves the volumes of the ones before.
LEMMA LongerVolumes ==
  ASSUME NEW n \in Nat, NEW items, NEW more, OneMore(more, items, n)
  PROVE  /\ \A i \in 1..n : Volumes(more)[i] = Volumes(items)[i]
         /\ \A i \in 1..n + 1 : Volumes(more)[i] \in Int /\ Volumes(more)[i] = more[i].volume
         /\ \A i \in 1..n : Volumes(items)[i] \in Int
<1>1. \A i \in 1..n + 1 : Volumes(more)[i] = more[i].volume
  BY DEF OneMore, Volumes
<1>2. \A i \in 1..n : Volumes(items)[i] = items[i].volume
  BY DEF OneMore, Volumes
<1>3. \A i \in 1..n + 1 : more[i].volume \in Int
  BY DEF OneMore, Bar
<1>4. \A i \in 1..n : i \in 1..n + 1 /\ more[i] = items[i]
  BY DEF OneMore
<1>5. QED
  BY <1>1, <1>2, <1>3, <1>4

\* What some positions make is the same in a longer list.
LEMMA MakesUpKept ==
  ASSUME NEW n \in Nat, NEW items, NEW more, OneMore(more, items, n),
         NEW at \in SUBSET (1..n), NEW c, MakesUp(c, items, at)
  PROVE  MakesUp(c, more, at)
<1>1. \A i \in at : i \in 1..n /\ more[i] = items[i]
  BY DEF OneMore
<1>2. SumFunctionOnSet(Volumes(more), at) = SumFunctionOnSet(Volumes(items), at)
  <2>1. IsFiniteSet(at)
    BY FinitelyMany
  <2>2. \A i \in at : Volumes(items)[i] \in Int /\ Volumes(more)[i] = Volumes(items)[i]
    BY LongerVolumes
  <2>3. QED
    BY <2>1, <2>2, SumOfEqual
<1>3. QED
  BY <1>1, <1>2 DEF MakesUp

\* An item alone makes up itself.
LEMMA MakesUpAlone ==
  ASSUME NEW n \in Nat, NEW items, NEW more, OneMore(more, items, n)
  PROVE  MakesUp(more[n + 1], more, {n + 1})
<1>1. n + 1 \in 1..n + 1 /\ more[n + 1] \in Bar
  BY DEF OneMore
<1>2. SumFunctionOnSet(Volumes(more), {n + 1}) = more[n + 1].volume
  <2>1. SumFunctionOnSet(Volumes(more), {} \cup {n + 1}) =
          Volumes(more)[n + 1] + SumFunctionOnSet(Volumes(more), {})
    <3>1. \A x \in {} \cup {n + 1} : Volumes(more)[x] \in Int
      BY LongerVolumes
    <3>2. QED
      BY <3>1, SumAdds, FS_EmptySet
  <2>2. SumFunctionOnSet(Volumes(more), {}) = 0
    BY SumEmpty
  <2>3. {} \cup {n + 1} = {n + 1} /\ Volumes(more)[n + 1] = more[n + 1].volume
        /\ more[n + 1].volume \in Int
    BY <1>1, LongerVolumes
  <2>4. QED
    BY <2>1, <2>2, <2>3
<1>3. \A m \in {n + 1} : n + 1 <= m /\ m <= n + 1
  OBVIOUS
<1>4. /\ more[n + 1].high <= more[n + 1].high
      /\ more[n + 1].low <= more[n + 1].low
  BY <1>1 DEF Bar
<1>5. QED
  BY <1>2, <1>3, <1>4 DEF MakesUp

\* c takes one item more.
Joined(c, x) ==
  [c EXCEPT !.high = Max({@, x.high}), !.low = Min({@, x.low}),
            !.close = x.close, !.volume = @ + x.volume]

\* The greater and the smaller of two numbers.
LEMMA Extremes ==
  ASSUME NEW a \in Nat, NEW b \in Nat
  PROVE  /\ Max({a, b}) \in Nat /\ a <= Max({a, b}) /\ b <= Max({a, b})
         /\ Max({a, b}) = a \/ Max({a, b}) = b
         /\ Min({a, b}) \in Nat /\ Min({a, b}) <= a /\ Min({a, b}) <= b
         /\ Min({a, b}) = a \/ Min({a, b}) = b
<1>1. CASE a <= b
  BY <1>1, MaxIsSecond, MinIsFirst
<1>2. CASE b <= a
  <2>1. {a, b} = {b, a}
    OBVIOUS
  <2>2. Max({b, a}) = a /\ Min({b, a}) = b
    BY <1>2, MaxIsSecond, MinIsFirst
  <2>3. QED
    BY <1>2, <2>1, <2>2
<1>3. QED
  BY <1>1, <1>2

\* A candle that another joins is a candle, with these values.
LEMMA JoinedIs ==
  ASSUME NEW c \in Bar, NEW x \in Bar
  PROVE  LET d == Joined(c, x) IN
         /\ d \in Bar /\ d.start = c.start /\ d.open = c.open /\ d.close = x.close
         /\ d.volume = c.volume + x.volume
         /\ c.high <= d.high /\ x.high <= d.high /\ (d.high = c.high \/ d.high = x.high)
         /\ d.low <= c.low /\ d.low <= x.low /\ (d.low = c.low \/ d.low = x.low)
<1> DEFINE d == Joined(c, x)
<1>2. /\ d.start = c.start /\ d.open = c.open /\ d.close = x.close
      /\ d.high = Max({c.high, x.high}) /\ d.low = Min({c.low, x.low})
      /\ d.volume = c.volume + x.volume
      /\ d = [start |-> c.start, open |-> c.open, high |-> d.high, low |-> d.low,
              close |-> x.close, volume |-> d.volume]
  <2>1. c = [start |-> c.start, open |-> c.open, high |-> c.high, low |-> c.low,
             close |-> c.close, volume |-> c.volume]
    BY DEF Bar
  <2> DEFINE high == Max({c.high, x.high})
             low == Min({c.low, x.low})
  <2>2. d = [c EXCEPT !.high = high, !.low = low, !.close = x.close,
                      !.volume = c.volume + x.volume]
    BY DEF Joined
  <2> HIDE DEF d, high, low
  <2>3. d = [start |-> c.start, open |-> c.open, high |-> high, low |-> low,
             close |-> x.close, volume |-> c.volume + x.volume]
    BY <2>1, <2>2
  <2>4. QED
    BY <2>3 DEF high, low
<1>3. /\ c.high \in Nat /\ x.high \in Nat /\ c.low \in Nat /\ x.low \in Nat
      /\ c.volume \in Int /\ x.volume \in Int
  BY DEF Bar
<1> HIDE DEF d
<1>4. /\ d.high \in Nat /\ c.high <= d.high /\ x.high <= d.high
      /\ d.high = c.high \/ d.high = x.high
      /\ d.low \in Nat /\ d.low <= c.low /\ d.low <= x.low
      /\ d.low = c.low \/ d.low = x.low
  <2> DEFINE h == d.high
             l == d.low
  <2>1. /\ h \in Nat /\ c.high <= h /\ x.high <= h
        /\ h = c.high \/ h = x.high
    <3>1. \A a, b \in Nat : /\ Max({a, b}) \in Nat /\ a <= Max({a, b}) /\ b <= Max({a, b})
                            /\ Max({a, b}) = a \/ Max({a, b}) = b
      BY Extremes
    <3>2. LET M == Max({c.high, x.high}) IN
          /\ M \in Nat /\ c.high <= M /\ x.high <= M /\ (M = c.high \/ M = x.high)
      BY <1>3, <3>1, Zenon
    <3>3. QED
      BY <1>2, <3>2, Zenon
  <2>2. /\ l \in Nat /\ l <= c.low /\ l <= x.low
        /\ l = c.low \/ l = x.low
    <3>1. \A a, b \in Nat : /\ Min({a, b}) \in Nat /\ Min({a, b}) <= a /\ Min({a, b}) <= b
                            /\ Min({a, b}) = a \/ Min({a, b}) = b
      BY Extremes
    <3>2. QED
      BY <1>2, <1>3, <3>1, Zenon
  <2>3. QED
    BY <2>1, <2>2
<1>5. d \in Bar
  <2>1. /\ c.start \in Nat /\ c.open \in Nat /\ x.close \in Nat /\ d.volume \in Int
        /\ d.high \in Nat /\ d.low \in Nat
    BY <1>2, <1>3, <1>4 DEF Bar
  <2>2. d = [start |-> c.start, open |-> c.open, high |-> d.high, low |-> d.low,
              close |-> x.close, volume |-> d.volume]
    BY <1>2
  <2>3. QED
    BY <2>1, <2>2 DEF Bar
<1>6. QED
  BY <1>2, <1>4, <1>5 DEF d

\* One item after the others is joined to what they make.
LEMMA MakesUpJoined ==
  ASSUME NEW n \in Nat, NEW items, NEW more, OneMore(more, items, n),
         NEW at \in SUBSET (1..n), NEW c \in Bar, MakesUp(c, items, at)
  PROVE  /\ Joined(c, more[n + 1]) \in Bar
         /\ Joined(c, more[n + 1]).start = c.start
         /\ MakesUp(Joined(c, more[n + 1]), more, at \cup {n + 1})
<1> DEFINE x == more[n + 1]
           d == Joined(c, x)
           all == at \cup {n + 1}
<1>1. x \in Bar
  BY DEF OneMore
<1> HIDE DEF x
<1>2. /\ d \in Bar /\ d.start = c.start /\ d.open = c.open /\ d.close = x.close
      /\ d.volume = c.volume + x.volume
      /\ c.high <= d.high /\ x.high <= d.high /\ (d.high = c.high \/ d.high = x.high)
      /\ d.low <= c.low /\ d.low <= x.low /\ (d.low = c.low \/ d.low = x.low)
  BY <1>1, JoinedIs
<1>3. /\ c.high \in Nat /\ x.high \in Nat /\ c.low \in Nat /\ x.low \in Nat
      /\ c.volume \in Int /\ x.volume \in Int /\ d.high \in Nat /\ d.low \in Nat
  BY <1>1, <1>2 DEF Bar
<1> HIDE DEF d
<1>6. MakesUp(c, more, at)
  BY MakesUpKept
<1>7. \A i \in at : i \in Nat /\ i < n + 1 /\ more[i] \in Bar
  BY DEF OneMore
<1>8. \A i \in all : i \in at \/ (i = n + 1 /\ more[i] = x)
  BY DEF x
<1>9. MakesUp(d, more, all)
  <2>1. \E i \in all : (\A m \in all : i <= m) /\ d.open = more[i].open
    <3>1. PICK i \in at : (\A m \in at : i <= m) /\ c.open = more[i].open
      BY <1>6 DEF MakesUp
    <3>2. QED
      BY <1>2, <1>7, <3>1
  <2>2. \E i \in all : (\A m \in all : m <= i) /\ d.close = more[i].close
    BY <1>2, <1>7, <1>8
  <2>3. \E i \in all : d.high = more[i].high
    <3>1. PICK i \in at : c.high = more[i].high
      BY <1>6 DEF MakesUp
    <3>2. n + 1 \in all /\ i \in all /\ more[n + 1].high = x.high
      BY DEF x
    <3>3. QED
      BY <1>2, <3>1, <3>2
  <2>4. \A i \in all : more[i].high <= d.high
    <3>1. ASSUME NEW i \in at PROVE more[i].high <= d.high
      <4>1. more[i].high <= c.high /\ more[i].high \in Nat
        BY <1>6, <1>7 DEF MakesUp, Bar
      <4>2. QED
        BY <1>2, <1>3, <4>1
    <3>2. QED
      BY <1>2, <1>8, <3>1
  <2>5. \E i \in all : d.low = more[i].low
    <3>1. PICK i \in at : c.low = more[i].low
      BY <1>6 DEF MakesUp
    <3>2. n + 1 \in all /\ i \in all /\ more[n + 1].low = x.low
      BY DEF x
    <3>3. QED
      BY <1>2, <3>1, <3>2
  <2>6. \A i \in all : d.low <= more[i].low
    <3>1. ASSUME NEW i \in at PROVE d.low <= more[i].low
      <4>1. c.low <= more[i].low /\ more[i].low \in Nat
        BY <1>6, <1>7 DEF MakesUp, Bar
      <4>2. QED
        BY <1>2, <1>3, <4>1
    <3>2. QED
      BY <1>2, <1>8, <3>1
  <2>7. d.volume = SumFunctionOnSet(Volumes(more), all)
    <3>1. IsFiniteSet(at) /\ n + 1 \notin at
      <4>1. IsFiniteSet(at)
        BY FinitelyMany
      <4>2. QED
        BY <4>1
    <3>2. \A i \in all : Volumes(more)[i] \in Int
      <4>1. \A i \in all : i \in 1..n + 1
        OBVIOUS
      <4>2. QED
        BY <4>1, LongerVolumes
    <3>3. SumFunctionOnSet(Volumes(more), all) =
            Volumes(more)[n + 1] + SumFunctionOnSet(Volumes(more), at)
      BY <3>1, <3>2, SumAdds
    <3>4. Volumes(more)[n + 1] = x.volume
      BY LongerVolumes DEF x
    <3>5. SumFunctionOnSet(Volumes(more), at) = c.volume
      BY <1>6 DEF MakesUp
    <3> HIDE DEF all
    <3>6. QED
      BY <1>2, <1>3, <3>3, <3>4, <3>5
  <2> HIDE DEF all
  <2>8. QED
    BY <2>1, <2>2, <2>3, <2>4, <2>5, <2>6, <2>7 DEF MakesUp
<1>10. QED
  BY <1>2, <1>9 DEF x, d

\* The start of a bucket is a multiple of the frame, not after the time, which is in
\* it.
LEMMA BucketIs ==
  ASSUME NEW t \in Nat, NEW f \in Nat \ {0}
  PROVE  /\ Bucket(t, f) \in Nat /\ Bucket(t, f) <= t /\ t < Bucket(t, f) + f
         /\ \E q \in Nat : Bucket(t, f) = f * q
<1>1. /\ t \div f \in Nat /\ t % f \in 0..(f - 1) /\ t = (f * (t \div f)) + (t % f)
  OBVIOUS
<1>2. Bucket(t, f) = f * (t \div f)
  BY <1>1 DEF Bucket
<1> DEFINE q == t \div f
           p == f * q
           r == t % f
<1>3. q \in Nat /\ p \in Nat
  BY <1>1
<1>4. r \in 0..(f - 1) /\ t = p + r /\ Bucket(t, f) = p
  BY <1>1, <1>2
<1> HIDE DEF p, r
<1>5. p <= t /\ t < p + f
  BY <1>3, <1>4
<1>6. QED
  BY <1>3, <1>4, <1>5 DEF p

\* The start of the bucket is the multiple of the frame that t lies after.
LEMMA BucketUnique ==
  ASSUME NEW t \in Nat, NEW f \in Nat \ {0}, NEW q \in Nat, f * q <= t, t < f * q + f
  PROVE  Bucket(t, f) = f * q
<1>1. PICK p \in Nat : Bucket(t, f) = f * p
  BY BucketIs
<1>2. f * p \in Nat /\ f * p <= t /\ t < f * p + f
  BY <1>1, BucketIs
<1>3. ~(p < q)
  <2>1. SUFFICES ASSUME p < q PROVE FALSE
    OBVIOUS
  <2>2. p * f + f <= q * f
    BY <2>1, Products
  <2>3. p * f = f * p /\ q * f = f * q /\ f * q \in Nat
    OBVIOUS
  <2>4. QED
    BY <1>2, <2>2, <2>3
<1>4. ~(q < p)
  <2>1. SUFFICES ASSUME q < p PROVE FALSE
    OBVIOUS
  <2>2. q * f + f <= p * f
    BY <2>1, Products
  <2>3. p * f = f * p /\ q * f = f * q /\ f * q \in Nat
    OBVIOUS
  <2>4. QED
    BY <1>2, <2>2, <2>3
<1>5. QED
  BY <1>1, <1>3, <1>4

\* In a frame that is a multiple of another, a time and the start of its narrower
\* bucket have one bucket.
LEMMA BucketOfBucket ==
  ASSUME NEW t \in Nat, NEW f \in Nat \ {0}, NEW g \in Nat \ {0}, g % f = 0
  PROVE  Bucket(Bucket(t, f), g) = Bucket(t, g)
<1>1. PICK q \in Nat : Bucket(t, g) = g * q
  BY BucketIs
<1>2. PICK p \in Nat : Bucket(t, f) = f * p
  BY BucketIs
<1>3. /\ g * q \in Nat /\ g * q <= t /\ t < g * q + g
      /\ f * p \in Nat /\ f * p <= t /\ t < f * p + f
  BY <1>1, <1>2, BucketIs
<1>4. PICK m \in Nat : g = f * m
  <2>1. g = (f * (g \div f)) + (g % f) /\ g \div f \in Nat
    OBVIOUS
  <2>2. QED
    BY <2>1
<1>5. g * q = f * (m * q) /\ m * q \in Nat
  BY <1>4
<1> DEFINE k == m * q
<1>6. ~(p < k)
  <2>1. SUFFICES ASSUME p < k PROVE FALSE
    OBVIOUS
  <2>2. k \in Nat /\ g * q = f * k
    BY <1>5
  <2> HIDE DEF k
  <2>3. p * f + f <= k * f
    BY <2>1, <2>2, Products
  <2>4. p * f = f * p /\ k * f = f * k /\ f * k \in Nat
    BY <2>2
  <2>5. QED
    BY <1>3, <2>2, <2>3, <2>4
<1>7. g * q <= f * p
  <2>1. k \in Nat /\ g * q = f * k
    BY <1>5
  <2> HIDE DEF k
  <2>2. CASE k = p
    BY <1>3, <2>1, <2>2
  <2>3. CASE k < p
    <3>1. k * f + f <= p * f
      BY <2>1, <2>3, Products
    <3>2. p * f = f * p /\ k * f = f * k /\ f * k \in Nat
      BY <2>1
    <3>3. QED
      BY <1>3, <2>1, <3>1, <3>2
  <2>4. QED
    BY <1>6, <2>1, <2>2, <2>3
<1>8. f * p < g * q + g
  BY <1>3
<1>9. Bucket(f * p, g) = g * q
  <2> DEFINE s == f * p
  <2>1. s \in Nat /\ g * q <= s /\ s < g * q + g
    BY <1>3, <1>7, <1>8
  <2> HIDE DEF s
  <2>2. Bucket(s, g) = g * q
    BY <2>1, BucketUnique
  <2>3. QED
    BY <2>2 DEF s
<1>10. QED
  BY <1>1, <1>2, <1>9

\* The first N values of s are in order.
Ascends(s, N) == \A i, j \in 1..N : i < j => s[i] < s[j]

\* The element of S with k - 1 others below it.
NthOf(S, k) == CHOOSE b \in S : Cardinality({a \in S : a < b}) = k - 1

\* The elements of an increasing sequence are found by how many are below them.
LEMMA Ranks ==
  ASSUME NEW N \in Nat, NEW s, Ascends(s, N), NEW S, ValuesOf(S, s, 1..N)
  PROVE  IsFiniteSet(S) /\ Cardinality(S) = N /\ \A k \in 1..N : NthOf(S, k) = s[k]
<1> USE DEF ValuesOf, Ascends
<1> DEFINE Lower(m) == {s[k] : k \in 1..m}
<1>1. ASSUME NEW m \in 0..N PROVE IsFiniteSet(Lower(m)) /\ Cardinality(Lower(m)) = m
  <2> DEFINE g == [k \in 1..m |-> s[k]]
  <2>0. m \in Nat /\ \A k \in 1..m : k \in 1..N
    OBVIOUS
  <2>1. \A i, j \in 1..m : i # j => s[i] # s[j]
    <3>1. SUFFICES ASSUME NEW i \in 1..m, NEW j \in 1..m, i # j PROVE s[i] # s[j]
      OBVIOUS
    <3>2. i \in 1..N /\ j \in 1..N /\ (i < j \/ j < i)
      BY <2>0, <3>1
    <3>3. s[i] \in Nat /\ s[j] \in Nat
      BY <3>2
    <3>4. QED
      BY <3>2, <3>3
  <2>2. g \in Bijection(1..m, Lower(m))
    <3>1. g \in [1..m -> Lower(m)] /\ \A i \in 1..m : g[i] = s[i]
      OBVIOUS
    <3>2. \A t \in Lower(m) : \E i \in 1..m : g[i] = t
      OBVIOUS
    <3> HIDE DEF Lower, g
    <3>3. g \in Injection(1..m, Lower(m))
      <4>1. \A i, j \in 1..m : g[i] = g[j] => i = j
        BY <2>1, <3>1
      <4>2. QED
        BY <3>1, <4>1, Zenon DEF Injection, IsInjective
    <3>4. g \in Surjection(1..m, Lower(m))
      BY <3>1, <3>2 DEF Surjection
    <3>5. QED
      BY <3>3, <3>4 DEF Bijection
  <2>3. ExistsBijection(1..m, Lower(m))
    BY <2>2 DEF ExistsBijection
  <2> HIDE DEF Lower
  <2>4. QED
    BY <2>0, <2>3, FS_CountingElements, FS_NatBijection
<1>2. ASSUME NEW k \in 1..N PROVE {a \in S : a < s[k]} = Lower(k - 1)
  <2>1. ASSUME NEW i \in 1..N PROVE s[i] < s[k] <=> i \in 1..(k - 1)
    <3>1. s[i] \in Nat /\ s[k] \in Nat
      OBVIOUS
    <3>2. i < k => s[i] < s[k]
      OBVIOUS
    <3>3. k < i => s[k] < s[i]
      OBVIOUS
    <3>4. QED
      BY <3>1, <3>2, <3>3
  <2>2. \A i \in 1..(k - 1) : i \in 1..N
    OBVIOUS
  <2>3. QED
    BY <2>1, <2>2
<1>3. \A k \in 1..N : Cardinality({a \in S : a < s[k]}) = k - 1
  <2>1. SUFFICES ASSUME NEW k \in 1..N PROVE Cardinality({a \in S : a < s[k]}) = k - 1
    OBVIOUS
  <2>2. k - 1 \in 0..N
    OBVIOUS
  <2> HIDE DEF Lower
  <2>3. QED
    BY <1>1, <1>2, <2>2
<1>4. IsFiniteSet(S) /\ Cardinality(S) = N
  <2>1. S = Lower(N) /\ N \in 0..N
    OBVIOUS
  <2> HIDE DEF Lower
  <2>2. QED
    BY <1>1, <2>1
<1>5. ASSUME NEW k \in 1..N
      PROVE  NthOf(S, k) = s[k]
  <2> DEFINE Rank(b) == Cardinality({a \in S : a < b}) = k - 1
  <2>1. s[k] \in S /\ Rank(s[k])
    BY <1>3
  <2>2. ASSUME NEW b \in S, Rank(b) PROVE b = s[k]
    <3>1. PICK j \in 1..N : b = s[j]
      OBVIOUS
    <3>2. j - 1 = k - 1
      BY <1>3, <2>2, <3>1
    <3>3. QED
      BY <3>1, <3>2
  <2> HIDE DEF Rank
  <2>3. (CHOOSE b \in S : Rank(b)) = s[k]
    BY <2>1, <2>2
  <2>4. QED
    BY <2>3 DEF Rank, NthOf
<1>6. QED
  BY <1>4, <1>5

\* In a finite set of numbers there is one with any number of others below it.
LEMMA RankExists ==
  ASSUME NEW S, IsFiniteSet(S), S \subseteq Nat, NEW k \in 1..Cardinality(S)
  PROVE  \E b \in S : Cardinality({a \in S : a < b}) = k - 1
<1> DEFINE N == Cardinality(S)
           Lower(b) == {a \in S : a < b}
           R == 0..(N - 1)
           rank == [b \in S |-> Cardinality(Lower(b))]
<1>1. N \in Nat /\ IsFiniteSet(R) /\ Cardinality(R) = N
  <2>1. N \in Nat
    BY FS_CardinalityType
  <2> HIDE DEF N
  <2>2. 0 \in Int /\ N - 1 \in Int
    BY <2>1
  <2>3. IsFiniteSet(R) /\ Cardinality(R) = IF 0 > N - 1 THEN 0 ELSE N - 1 - 0 + 1
    BY <2>2, FS_Interval, Zenon
  <2>4. QED
    BY <2>1, <2>3
<1>2. ASSUME NEW b \in S
      PROVE  /\ IsFiniteSet(Lower(b)) /\ Cardinality(Lower(b)) \in Nat
             /\ b \notin Lower(b) /\ Lower(b) \cup {b} \in SUBSET S
             /\ IsFiniteSet(Lower(b) \cup {b})
             /\ Cardinality(Lower(b) \cup {b}) = Cardinality(Lower(b)) + 1
  <2>1. Lower(b) \in SUBSET S /\ b \notin Lower(b) /\ Lower(b) \cup {b} \in SUBSET S
    OBVIOUS
  <2> HIDE DEF Lower
  <2>2. IsFiniteSet(Lower(b)) /\ Cardinality(Lower(b)) \in Nat
    BY <2>1, FS_Subset, FS_CardinalityType
  <2>3. QED
    BY <2>1, <2>2, FS_AddElement
<1>3. \A b \in S : Cardinality(Lower(b)) \in R
  <2>1. SUFFICES ASSUME NEW b \in S PROVE Cardinality(Lower(b)) \in R
    OBVIOUS
  <2> DEFINE c == Cardinality(Lower(b))
  <2> HIDE DEF Lower
  <2>2. Lower(b) \cup {b} \in SUBSET S /\ Cardinality(Lower(b) \cup {b}) = c + 1 /\ c \in Nat
    BY <1>2
  <2>3. Cardinality(Lower(b) \cup {b}) <= N
    BY <2>2, FS_Subset
  <2> HIDE DEF N, c
  <2>4. c + 1 <= N /\ N \in Nat /\ c \in Nat
    BY <1>1, <2>2, <2>3
  <2>5. c \in R
    BY <2>4
  <2>6. QED
    BY <2>5 DEF c
<1>4. ASSUME NEW a \in S, NEW b \in S, a < b
      PROVE  Cardinality(Lower(a)) # Cardinality(Lower(b))
  <2>1. Lower(a) \cup {a} \in SUBSET Lower(b)
    <3>1. \A x \in S : x \in Nat
      OBVIOUS
    <3>2. \A x \in S : x < a => x < b
      BY <1>4, <3>1
    <3>3. QED
      BY <1>4, <3>2
  <2> HIDE DEF Lower
  <2>2. Cardinality(Lower(a) \cup {a}) <= Cardinality(Lower(b))
    BY <1>2, <2>1, FS_Subset
  <2>3. QED
    BY <1>2, <2>2
<1>5. rank \in Injection(S, R)
  <2>1. rank \in [S -> R] /\ \A b \in S : rank[b] = Cardinality(Lower(b))
    BY <1>3
  <2> HIDE DEF rank, Lower, R
  <2>2. ASSUME NEW a \in S, NEW b \in S, rank[a] = rank[b] PROVE a = b
    <3>1. ~(a < b) /\ ~(b < a)
      BY <1>4, <2>1, <2>2
    <3>2. a \in Nat /\ b \in Nat
      OBVIOUS
    <3>3. QED
      BY <3>1, <3>2
  <2>3. QED
    BY <2>1, <2>2 DEF Injection, IsInjective
<1>6. rank \in Surjection(S, R)
  <2> HIDE DEF rank, R
  <2>1. QED
    BY <1>1, <1>5, FS_Injection
<1>7. k - 1 \in R
  <2> HIDE DEF N
  <2>1. k \in 1..N
    BY DEF N
  <2>2. QED
    BY <1>1, <2>1
<1>8. PICK b \in S : rank[b] = k - 1
  <2> HIDE DEF rank, R
  <2>1. QED
    BY <1>6, <1>7 DEF Surjection
<1>9. QED
  BY <1>8

\* The items of a bucket.
ItemsOf(items, f, b) == {n \in DOMAIN items : Bucket(items[n].start, f) = b}

\* C has one candle for each bucket of the items, in order, made up of the items of it.
Groups(C, items, f) ==
  /\ C \in Seq(Bar)
  /\ \A i, j \in DOMAIN C : i < j => C[i].start < C[j].start
  /\ \A n \in DOMAIN items : \E k \in DOMAIN C : C[k].start = Bucket(items[n].start, f)
  /\ \A k \in DOMAIN C : MakesUp(C[k], items, ItemsOf(items, f, C[k].start))

\* Aggregate makes the candles that group the items.
LEMMA AggregateIs ==
  ASSUME NEW n \in Nat, NEW items, DOMAIN items = 1..n, \A i \in 1..n : items[i] \in Bar,
         NEW f \in Nat \ {0}, NEW C, Groups(C, items, f),
         \A b : InOrder(items, ItemsOf(items, f, b))
  PROVE  Aggregate(items, f) = C
<1> DEFINE N == Len(C)
           s == [k \in 1..N |-> C[k].start]
           starts == {Bucket(items[i].start, f) : i \in DOMAIN items}
           S == {s[k] : k \in 1..N}
           nth(k) == NthOf(starts, k)
<1>1. N \in Nat /\ DOMAIN C = 1..N /\ \A k \in 1..N : C[k] \in Bar
  BY DEF Groups
<1>2. \A k \in 1..N : s[k] = C[k].start /\ s[k] \in Nat
  BY <1>1 DEF Bar
<1>3. \A i, j \in 1..N : i < j => s[i] < s[j]
  BY <1>1, <1>2 DEF Groups
<1>4. starts = S
  <2>1. ASSUME NEW i \in DOMAIN items PROVE Bucket(items[i].start, f) \in S
    BY <1>1, <1>2 DEF Groups
  <2>2. ASSUME NEW k \in 1..N PROVE s[k] \in starts
    <3>1. PICK i \in ItemsOf(items, f, C[k].start) : TRUE
      BY <1>1 DEF Groups, MakesUp
    <3>2. i \in DOMAIN items /\ Bucket(items[i].start, f) = C[k].start
      BY <3>1 DEF ItemsOf
    <3>3. QED
      BY <1>2, <3>2
  <2> HIDE DEF s
  <2>3. QED
    BY <2>1, <2>2
<1> HIDE DEF N, s
<1>5. IsFiniteSet(S) /\ Cardinality(S) = N /\ \A k \in 1..N : NthOf(S, k) = s[k]
  <2>1. N \in Nat /\ \A k \in 1..N : s[k] \in Nat
    BY <1>1, <1>2
  <2>2. ValuesOf(S, s, 1..N) /\ Ascends(s, N)
    BY <1>3, <2>1 DEF ValuesOf, Ascends
  <2> HIDE DEF starts, S, nth
  <2>3. QED
    BY <2>1, <2>2, Ranks
<1> HIDE DEF starts, S
<1>6. Cardinality(starts) = N /\ \A k \in 1..N : nth(k) = C[k].start
  BY <1>2, <1>4, <1>5
<1>7. Aggregate(items, f) =
        [k \in 1..Cardinality(starts) |-> CandleOf(items, ItemsOf(items, f, nth(k)), nth(k))]
  BY Zenon DEF Aggregate, ItemsOf, NthOf, starts
<1> HIDE DEF nth
<1>8. ASSUME NEW k \in 1..N PROVE CandleOf(items, ItemsOf(items, f, nth(k)), nth(k)) = C[k]
  <2> DEFINE b == C[k].start
  <2>1. nth(k) = b
    BY <1>6
  <2>2. ItemsOf(items, f, b) \in SUBSET (1..n)
    BY DEF ItemsOf
  <2>3. MakesUp(C[k], items, ItemsOf(items, f, b)) /\ C[k] \in Bar
    BY <1>1 DEF Groups
  <2>4. CandleOf(items, ItemsOf(items, f, b), C[k].start) = C[k]
    BY <2>2, <2>3, CandleIs
  <2>5. QED
    BY <2>1, <2>4
<1>9. Aggregate(items, f) = [k \in 1..N |-> C[k]]
  BY <1>6, <1>7, <1>8, Zenon
<1>10. C = [k \in 1..N |-> C[k]]
  BY <1>1 DEF Groups
<1>11. QED
  BY <1>9, <1>10, Zenon

\* The items of candle k, when every item has the time of its candle.
PartOf(C, items, k) == {i \in DOMAIN items : items[i].start = C[k].start}

\* C is a list of N candles, in order, each made up of the items of its time.
Parted(C, N, items, n) ==
  /\ N \in Nat /\ DOMAIN C = 1..N /\ \A k \in 1..N : C[k] \in Bar
  /\ n \in Nat /\ DOMAIN items = 1..n /\ \A i \in 1..n : items[i] \in Bar
  /\ InOrder(items, 1..n)
  /\ \A j, k \in 1..N : j < k => C[j].start < C[k].start
  /\ \A k \in 1..N : MakesUp(C[k], items, PartOf(C, items, k))

\* What candles make up, their items make up.
LEMMA MakesUpThrough ==
  ASSUME NEW C, NEW N, NEW items, NEW n, Parted(C, N, items, n),
         NEW at \in SUBSET (1..N), NEW d, MakesUp(d, C, at)
  PROVE  MakesUp(d, items, UNION {PartOf(C, items, k) : k \in at})
<1> DEFINE part(k) == PartOf(C, items, k)
           all == UNION {part(k) : k \in at}
<1>1. \A k \in at : /\ k \in 1..N /\ C[k].start \in Nat /\ C[k].high \in Nat /\ C[k].low \in Nat
                    /\ MakesUp(C[k], items, part(k))
  <2>1. SUFFICES ASSUME NEW k \in at
                 PROVE  /\ k \in 1..N /\ C[k].start \in Nat /\ C[k].high \in Nat
                        /\ C[k].low \in Nat /\ MakesUp(C[k], items, part(k))
    OBVIOUS
  <2>2. k \in 1..N /\ C[k] \in Bar
    BY DEF Parted
  <2>3. QED
    BY <2>2 DEF Parted, Bar
<1>2. ASSUME NEW k \in at, NEW i \in part(k)
      PROVE  /\ i \in 1..n /\ items[i].start = C[k].start /\ items[i].high \in Nat
             /\ items[i].low \in Nat /\ i \in all
  <2>1. i \in 1..n /\ items[i].start = C[k].start
    BY DEF PartOf, Parted
  <2>2. items[i] \in Bar
    BY <2>1 DEF Parted
  <2>3. QED
    BY <2>1, <2>2 DEF Bar
<1>3. \A i \in all : \E k \in at : i \in part(k)
  OBVIOUS
<1>4. ASSUME NEW j \in at, NEW k \in at, j < k, NEW l \in part(j), NEW m \in part(k)
      PROVE  l < m
  <2>1. C[j].start < C[k].start
    BY <1>1, <1>4 DEF Parted
  <2>2. /\ items[l].start < items[m].start /\ l \in 1..n /\ m \in 1..n
        /\ items[l].start \in Nat /\ items[m].start \in Nat
    BY <1>1, <1>2, <2>1
  <2>3. m <= l => items[m].start <= items[l].start
    BY <2>2 DEF Parted, InOrder
  <2>4. QED
    BY <2>2, <2>3
<1> HIDE DEF all
<1>5. \E i \in all : (\A m \in all : i <= m) /\ d.open = items[i].open
  <2>1. PICK k \in at : (\A m \in at : k <= m) /\ d.open = C[k].open
    BY DEF MakesUp
  <2>2. PICK i \in part(k) : (\A m \in part(k) : i <= m) /\ C[k].open = items[i].open
    BY <1>1 DEF MakesUp
  <2>3. ASSUME NEW m \in all PROVE i <= m
    <3>1. PICK j \in at : m \in part(j)
      BY <1>3
    <3>2. CASE j = k
      BY <2>2, <3>1, <3>2
    <3>3. CASE j # k
      <4>1. k < j
        <5>1. k <= j /\ k \in 1..N /\ j \in 1..N
          BY <1>1, <2>1
        <5>2. QED
          BY <3>3, <5>1
      <4> i \in 1..n /\ m \in 1..n
        BY <1>2, <2>2, <3>1
      <4>2. i < m
        BY <1>4, <3>1, <4>1
      <4>3. QED
        BY <4>1, <4>2
    <3>4. QED
      BY <3>2, <3>3
  <2>4. QED
    BY <1>2, <2>1, <2>2, <2>3
<1>6. \E i \in all : (\A m \in all : m <= i) /\ d.close = items[i].close
  <2>1. PICK k \in at : (\A m \in at : m <= k) /\ d.close = C[k].close
    BY DEF MakesUp
  <2>2. PICK i \in part(k) : (\A m \in part(k) : m <= i) /\ C[k].close = items[i].close
    BY <1>1 DEF MakesUp
  <2>3. ASSUME NEW m \in all PROVE m <= i
    <3>1. PICK j \in at : m \in part(j)
      BY <1>3
    <3>2. CASE j = k
      BY <2>2, <3>1, <3>2
    <3>3. CASE j # k
      <4>1. j < k
        <5>1. j <= k /\ k \in 1..N /\ j \in 1..N
          BY <1>1, <2>1
        <5>2. QED
          BY <3>3, <5>1
      <4> i \in 1..n /\ m \in 1..n
        BY <1>2, <2>2, <3>1
      <4>2. m < i
        BY <1>4, <3>1, <4>1
      <4>3. QED
        BY <4>1, <4>2
    <3>4. QED
      BY <3>2, <3>3
  <2>4. QED
    BY <1>2, <2>1, <2>2, <2>3
<1>7. /\ \E i \in all : d.high = items[i].high
      /\ \E i \in all : d.low = items[i].low
  <2>1. PICK k \in at : d.high = C[k].high
    BY DEF MakesUp
  <2>2. PICK i \in part(k) : C[k].high = items[i].high
    BY <1>1 DEF MakesUp
  <2>3. PICK l \in at : d.low = C[l].low
    BY DEF MakesUp
  <2>4. PICK j \in part(l) : C[l].low = items[j].low
    BY <1>1 DEF MakesUp
  <2>5. QED
    BY <1>2, <2>1, <2>2, <2>3, <2>4
<1>8. ASSUME NEW i \in all PROVE items[i].high <= d.high /\ d.low <= items[i].low
  <2>1. PICK k \in at : i \in part(k)
    BY <1>3
  <2>2. /\ items[i].high <= C[k].high /\ C[k].low <= items[i].low
        /\ C[k].high <= d.high /\ d.low <= C[k].low
    BY <1>1, <2>1 DEF MakesUp
  <2>3. /\ items[i].high \in Nat /\ C[k].high \in Nat /\ items[i].low \in Nat
        /\ C[k].low \in Nat
    BY <1>1, <1>2, <2>1
  <2>4. d.high \in Nat /\ d.low \in Nat
    BY <1>1 DEF MakesUp
  <2>5. QED
    BY <2>2, <2>3, <2>4
<1>9. SumFunctionOnSet(Volumes(C), at) = SumFunctionOnSet(Volumes(items), all)
  <2> DEFINE key == [i \in all |-> CHOOSE k \in at : i \in part(k)]
  <2>1. \A i \in all : key[i] \in at /\ i \in part(key[i])
    BY <1>3
  <2>2. ASSUME NEW k \in at PROVE {i \in all : key[i] = k} = part(k)
    <3>1. ASSUME NEW i \in part(k) PROVE i \in all /\ key[i] = k
      <4>1. i \in all /\ key[i] \in at /\ i \in part(key[i])
        BY <1>2, <2>1
      <4>2. i \in 1..n
        BY <1>2
      <4>3. ~(key[i] < k) /\ ~(k < key[i])
        <5>1. ~(i < i)
          BY <4>2
        <5>2. QED
          BY <1>4, <4>1, <5>1, Zenon
      <4>4. key[i] \in 1..N /\ k \in 1..N
        BY <1>1, <4>1
      <4>5. QED
        BY <4>1, <4>3, <4>4
    <3> HIDE DEF key
    <3>2. QED
      BY <2>1, <3>1
  <2>3. \A k \in at : Volumes(C)[k] = SumFunctionOnSet(Volumes(items), part(k))
    <3>1. SUFFICES ASSUME NEW k \in at
                   PROVE  Volumes(C)[k] = SumFunctionOnSet(Volumes(items), part(k))
      OBVIOUS
    <3>2. Volumes(C)[k] = C[k].volume
      BY <1>1 DEF Volumes, Parted
    <3>3. QED
      BY <1>1, <3>2 DEF MakesUp
  <2>4. \A i \in all : Volumes(items)[i] \in Int
    <3>1. SUFFICES ASSUME NEW i \in all PROVE Volumes(items)[i] \in Int
      OBVIOUS
    <3>2. i \in 1..n
      BY <1>2, <1>3
    <3>3. items[i] \in Bar /\ i \in DOMAIN items
      BY <3>2 DEF Parted
    <3>4. QED
      BY <3>3 DEF Volumes, Bar
  <2>5. IsFiniteSet(all) /\ IsFiniteSet(at)
    <3>1. n \in Nat /\ N \in Nat /\ all \in SUBSET (1..n)
      BY <1>2, <1>3 DEF Parted
    <3>2. QED
      BY <3>1, FinitelyMany
  <2> HIDE DEF key
  <2>6. Grouped(Volumes(items), all, key, at, Volumes(C))
    BY <2>1, <2>2, <2>3, <2>4, <2>5 DEF Grouped
  <2>7. QED
    BY <2>6, SumRegrouped
<1>10. d.volume = SumFunctionOnSet(Volumes(items), all)
  BY <1>9 DEF MakesUp
<1>11. MakesUp(d, items, all)
  BY <1>5, <1>6, <1>7, <1>8, <1>10 DEF MakesUp
<1>12. QED
  BY <1>11 DEF all

\* The buckets of a list of candles.
BucketsOf(X, g) == {Bucket(X[i].start, g) : i \in DOMAIN X}

\* Two lists make the same candles of a frame if they do of each bucket.
LEMMA AggregatesAgree ==
  ASSUME NEW N \in Nat, NEW C, DOMAIN C = 1..N, \A k \in 1..N : C[k] \in Bar,
         NEW g \in Nat \ {0}, NEW Y, BucketsOf(Y, g) = BucketsOf(C, g),
         \A b \in BucketsOf(C, g) :
           CandleOf(C, ItemsOf(C, g, b), b) = CandleOf(Y, ItemsOf(Y, g, b), b)
  PROVE  Aggregate(C, g) = Aggregate(Y, g)
<1> DEFINE starts(X) == BucketsOf(X, g)
           nth(X, k) == CHOOSE b \in starts(X) : Cardinality({a \in starts(X) : a < b}) = k - 1
<1>1. /\ Aggregate(C, g) = [k \in 1..Cardinality(starts(C)) |->
                              CandleOf(C, ItemsOf(C, g, nth(C, k)), nth(C, k))]
      /\ Aggregate(Y, g) = [k \in 1..Cardinality(starts(Y)) |->
                              CandleOf(Y, ItemsOf(Y, g, nth(Y, k)), nth(Y, k))]
  BY Zenon DEF Aggregate, ItemsOf, BucketsOf
<1>2. \A k \in 1..Cardinality(starts(C)) : nth(C, k) \in starts(C)
  <2> DEFINE S == starts(C)
             g1 == [k \in 1..N |-> Bucket(C[k].start, g)]
  <2>1. g1 \in Surjection(1..N, S)
    BY DEF Surjection, BucketsOf
  <2>2. IsFiniteSet(S)
    <3>1. IsFiniteSet(1..N)
      BY FinitelyMany
    <3> HIDE DEF S, g1
    <3>2. QED
      BY <2>1, <3>1, FS_Surjection
  <2>3. S \subseteq Nat
    <3>1. ASSUME NEW k \in 1..N PROVE Bucket(C[k].start, g) \in Nat
      <4>1. C[k].start \in Nat
        BY DEF Bar
      <4>2. QED
        BY <4>1, BucketIs
    <3>2. QED
      BY <3>1 DEF BucketsOf
  <2> HIDE DEF S
  <2>4. \A k \in 1..Cardinality(S) :
          (CHOOSE b \in S : Cardinality({a \in S : a < b}) = k - 1) \in S
    BY <2>2, <2>3, RankExists
  <2>5. QED
    BY <2>4, Zenon DEF S
<1>3. QED
  <2>1. starts(C) = starts(Y) /\ \A k : nth(C, k) = nth(Y, k)
    OBVIOUS
  <2>2. \A b \in starts(C) :
          CandleOf(C, ItemsOf(C, g, b), b) = CandleOf(Y, ItemsOf(Y, g, b), b)
    OBVIOUS
  <2> HIDE DEF starts, nth
  <2>3. QED
    BY <1>1, <1>2, <2>1, <2>2

\* Made of the candles of a narrower frame, those of a wider one are as made of the items.
LEMMA AggregateSame ==
  ASSUME NEW n \in Nat, NEW items, DOMAIN items = 1..n, \A i \in 1..n : items[i] \in Bar,
         NEW f \in Nat \ {0}, NEW g \in Nat \ {0}, InOrder(items, 1..n),
         \A i \in 1..n : Bucket(items[i].start, f) = items[i].start,
         NEW C, Groups(C, items, f)
  PROVE  Aggregate(C, g) = Aggregate(items, g)
<1> DEFINE N == Len(C)
           starts(X) == BucketsOf(X, g)
<1>1. N \in Nat /\ DOMAIN C = 1..N /\ \A k \in 1..N : C[k] \in Bar
  BY DEF Groups
<1>2. \A k \in 1..N : ItemsOf(items, f, C[k].start) = PartOf(C, items, k)
  BY DEF ItemsOf, PartOf
<1>3. Parted(C, N, items, n)
  BY <1>1, <1>2 DEF Parted, Groups
<1>4. \A i \in 1..n : \E k \in 1..N : C[k].start = items[i].start
  BY <1>1 DEF Groups
<1>5. \A k \in 1..N : \E i \in 1..n : C[k].start = items[i].start
  BY <1>3 DEF Parted, MakesUp, PartOf
<1>6. starts(C) = starts(items)
  <2>1. \A b : b \in starts(C) <=> \E k \in 1..N : b = Bucket(C[k].start, g)
    BY <1>1 DEF BucketsOf
  <2>2. \A b : b \in starts(items) <=> \E i \in 1..n : b = Bucket(items[i].start, g)
    BY DEF BucketsOf
  <2> HIDE DEF starts, N
  <2>3. \A b : b \in starts(C) <=> b \in starts(items)
    BY <1>4, <1>5, <2>1, <2>2
  <2>4. QED
    BY <2>3
<1>7. ASSUME NEW b \in starts(C)
      PROVE  CandleOf(C, ItemsOf(C, g, b), b) = CandleOf(items, ItemsOf(items, g, b), b)
  <2> DEFINE at == ItemsOf(C, g, b)
  <2>1. at \in SUBSET (1..N) /\ at # {}
    BY <1>1 DEF ItemsOf, BucketsOf
  <2>2. b \in Nat
    <3>1. PICK k \in 1..N : b = Bucket(C[k].start, g)
      BY <1>1 DEF BucketsOf
    <3>2. C[k].start \in Nat
      BY <1>1 DEF Bar
    <3>3. QED
      BY <3>1, <3>2, BucketIs
  <2>3. PICK d \in Bar : d.start = b /\ MakesUp(d, C, at)
    <3> HIDE DEF at, N
    <3>1. QED
      BY <1>1, <2>1, <2>2, SomeCandle
  <2>4. InOrder(C, at)
    <3>1. SUFFICES ASSUME NEW j \in at, NEW k \in at, j <= k PROVE C[j].start <= C[k].start
      BY DEF InOrder
    <3>2. j \in 1..N /\ k \in 1..N
      BY <2>1
    <3>3. C[j].start \in Nat /\ C[k].start \in Nat
      BY <1>1, <3>2 DEF Bar
    <3>4. j < k => C[j].start < C[k].start
      BY <1>3, <3>2 DEF Parted
    <3>5. QED
      BY <3>1, <3>2, <3>3, <3>4
  <2>5. CandleOf(C, at, b) = d
    <3> HIDE DEF at, N
    <3>1. CandleOf(C, at, d.start) = d
      BY <1>1, <2>1, <2>3, <2>4, CandleIs
    <3>2. QED
      BY <2>3, <3>1
  <2>6. UNION {PartOf(C, items, k) : k \in at} = ItemsOf(items, g, b)
    <3>1. ASSUME NEW k \in at, NEW i \in PartOf(C, items, k) PROVE i \in ItemsOf(items, g, b)
      BY DEF PartOf, ItemsOf
    <3>2. ASSUME NEW i \in ItemsOf(items, g, b)
          PROVE  \E k \in at : i \in PartOf(C, items, k)
      <4>1. i \in 1..n /\ Bucket(items[i].start, g) = b
        BY DEF ItemsOf
      <4>2. PICK k \in 1..N : C[k].start = items[i].start
        BY <1>4, <4>1
      <4>3. QED
        BY <1>1, <4>1, <4>2 DEF PartOf, ItemsOf
    <3> HIDE DEF at
    <3>3. QED
      BY <3>1, <3>2
  <2>7. MakesUp(d, items, ItemsOf(items, g, b))
    <3> HIDE DEF at, N
    <3>1. MakesUp(d, items, UNION {PartOf(C, items, k) : k \in at})
      BY <1>3, <2>1, <2>3, MakesUpThrough
    <3>2. QED
      BY <2>6, <3>1
  <2>8. ItemsOf(items, g, b) \in SUBSET (1..n)
    BY DEF ItemsOf
  <2>9. InOrder(items, ItemsOf(items, g, b))
    BY <2>8 DEF InOrder
  <2>10. CandleOf(items, ItemsOf(items, g, b), d.start) = d
    BY <2>3, <2>7, <2>8, <2>9, CandleIs
  <2>11. QED
    BY <2>3, <2>5, <2>10
<1>8. QED
  <2> HIDE DEF N
  <2>1. QED
    BY <1>1, <1>6, <1>7, AggregatesAgree DEF starts

\* The candles of Y are those of X, begun with the bucket they are in.
Framed(Y, X, n, g) ==
  /\ n \in Nat /\ DOMAIN X = 1..n /\ DOMAIN Y = 1..n /\ InOrder(X, 1..n)
  /\ \A i \in 1..n : /\ X[i] \in Bar /\ Y[i] \in Bar
                      /\ Y[i] = [X[i] EXCEPT !.start = Y[i].start]
                      /\ Y[i].start = Bucket(X[i].start, g)
                      /\ Bucket(Y[i].start, g) = Y[i].start

\* The items of a wider bucket, each begun with the wider bucket, make the same.
LEMMA AggregateFramed ==
  ASSUME NEW n, NEW X, NEW Y, NEW g \in Nat \ {0}, Framed(Y, X, n, g)
  PROVE  Aggregate(X, g) = Aggregate(Y, g)
<1> USE DEF Framed
<1>1. BucketsOf(Y, g) = BucketsOf(X, g)
  <2>1. \A i \in 1..n : Bucket(Y[i].start, g) = Bucket(X[i].start, g)
    OBVIOUS
  <2>2. QED
    BY <2>1, Zenon DEF BucketsOf
<1>2. ASSUME NEW b \in BucketsOf(X, g)
      PROVE  CandleOf(X, ItemsOf(X, g, b), b) = CandleOf(Y, ItemsOf(Y, g, b), b)
  <2> DEFINE at == ItemsOf(X, g, b)
  <2>1. at = ItemsOf(Y, g, b) /\ at \in SUBSET (1..n) /\ at # {}
    <3>1. \A i \in 1..n : Bucket(Y[i].start, g) = Bucket(X[i].start, g)
      OBVIOUS
    <3>2. QED
      BY <3>1 DEF ItemsOf, BucketsOf
  <2>2. b \in Nat
    <3>1. PICK i \in 1..n : b = Bucket(X[i].start, g)
      BY DEF BucketsOf
    <3>2. X[i].start \in Nat
      BY DEF Bar
    <3>3. QED
      BY <3>1, <3>2, BucketIs
  <2>3. \A i \in at : i \in 1..n /\ Y[i].start = b
    BY DEF ItemsOf
  <2> HIDE DEF at
  <2>4. PICK d \in Bar : d.start = b /\ MakesUp(d, X, at)
    BY <2>1, <2>2, SomeCandle
  <2>5. InOrder(X, at) /\ InOrder(Y, at)
    <3>1. b <= b
      BY <2>2
    <3>2. QED
      BY <2>3, <3>1 DEF InOrder
  <2>6. MakesUp(d, Y, at)
    <3>1. ASSUME NEW i \in 1..n
          PROVE  /\ Y[i].open = X[i].open /\ Y[i].close = X[i].close
                 /\ Y[i].high = X[i].high /\ Y[i].low = X[i].low
                 /\ Y[i].volume = X[i].volume
      <4>1. Y[i] = [X[i] EXCEPT !.start = Y[i].start] /\ X[i] \in Bar
        OBVIOUS
      <4>2. QED
        BY <4>1 DEF Bar
    <3>2. Volumes(Y) = Volumes(X)
      BY <3>1 DEF Volumes
    <3>3. QED
      BY <2>3, <2>4, <3>1, <3>2 DEF MakesUp
  <2>7. CandleOf(X, at, d.start) = d /\ CandleOf(Y, at, d.start) = d
    BY <2>1, <2>4, <2>5, <2>6, CandleIs
  <2>8. QED
    BY <2>1, <2>4, <2>7 DEF at
<1>3. QED
  BY <1>1, <1>2, AggregatesAgree

-----------------------------------------------------------------------------
(* One tick more.                                                           *)

\* The items of a bucket when there is one item more.
LEMMA LongerItems ==
  ASSUME NEW n \in Nat, NEW items, NEW more, OneMore(more, items, n), NEW f, NEW b
  PROVE  /\ ItemsOf(items, f, b) \in SUBSET (1..n)
         /\ Bucket(more[n + 1].start, f) = b =>
              ItemsOf(more, f, b) = ItemsOf(items, f, b) \cup {n + 1}
         /\ Bucket(more[n + 1].start, f) # b => ItemsOf(more, f, b) = ItemsOf(items, f, b)
<1>1. DOMAIN items = 1..n /\ DOMAIN more = 1..n + 1 /\ \A i \in 1..n : more[i] = items[i]
  BY DEF OneMore
<1>2. \A i \in 1..n + 1 : i \in 1..n \/ i = n + 1
  OBVIOUS
<1>3. \A i \in 1..n : i \in 1..n + 1 /\ i # n + 1
  OBVIOUS
<1>4. n + 1 \in 1..n + 1
  OBVIOUS
<1>5. \A i : i \in ItemsOf(items, f, b) <=> i \in 1..n /\ Bucket(items[i].start, f) = b
  BY <1>1 DEF ItemsOf
<1>6. \A i : i \in ItemsOf(more, f, b) <=> i \in 1..n + 1 /\ Bucket(more[i].start, f) = b
  BY <1>1 DEF ItemsOf
<1>7. QED
  BY <1>1, <1>2, <1>3, <1>4, <1>5, <1>6

\* A tick of a later bucket makes a candle of its own.
LEMMA GroupsNew ==
  ASSUME NEW n \in Nat, NEW items, NEW more, OneMore(more, items, n), NEW f, NEW C,
         Groups(C, items, f), Bucket(more[n + 1].start, f) = more[n + 1].start,
         \A k \in DOMAIN C : C[k].start < more[n + 1].start
  PROVE  Groups(Append(C, more[n + 1]), more, f)
<1> DEFINE N == Len(C)
           x == more[n + 1]
           D == Append(C, x)
<1>1. x \in Bar
  BY DEF OneMore
<1>2. C \in Seq(Bar) /\ N \in Nat /\ DOMAIN C = 1..N
  BY DEF Groups
<1> HIDE DEF x
<1>3. /\ D \in Seq(Bar) /\ DOMAIN D = 1..N + 1 /\ D[N + 1] = x
      /\ \A k \in 1..N : D[k] = C[k]
  BY <1>1, <1>2
<1> HIDE DEF N, D
<1>4. \A i, j \in DOMAIN D : i < j => D[i].start < D[j].start
  <2>1. SUFFICES ASSUME NEW i \in 1..N + 1, NEW j \in 1..N + 1, i < j
                 PROVE  D[i].start < D[j].start
    BY <1>3
  <2>2. i \in 1..N /\ (j \in 1..N \/ j = N + 1)
    BY <1>2, <2>1
  <2>3. CASE j \in 1..N
    BY <1>2, <1>3, <2>1, <2>2, <2>3 DEF Groups
  <2>4. CASE j = N + 1
    BY <1>2, <1>3, <2>2, <2>4 DEF x
  <2>5. QED
    BY <2>2, <2>3, <2>4
<1>5. \A i \in DOMAIN more : \E k \in DOMAIN D : D[k].start = Bucket(more[i].start, f)
  <2>1. SUFFICES ASSUME NEW i \in 1..n + 1
                 PROVE  \E k \in 1..N + 1 : D[k].start = Bucket(more[i].start, f)
    BY <1>3 DEF OneMore
  <2>2. CASE i = n + 1
    <3>1. N + 1 \in 1..N + 1
      BY <1>2
    <3>2. QED
      BY <1>3, <2>2, <3>1 DEF x
  <2>3. CASE i \in 1..n
    <3>1. more[i] = items[i] /\ i \in DOMAIN items
      BY <2>3 DEF OneMore
    <3>2. PICK k \in 1..N : C[k].start = Bucket(items[i].start, f)
      BY <1>2, <3>1 DEF Groups
    <3>3. k \in 1..N + 1 /\ D[k] = C[k]
      BY <1>2, <1>3, <3>2
    <3>4. QED
      BY <3>1, <3>2, <3>3
  <2>4. QED
    BY <2>2, <2>3
<1>6. ASSUME NEW k \in 1..N + 1 PROVE MakesUp(D[k], more, ItemsOf(more, f, D[k].start))
  <2>1. CASE k \in 1..N
    <3>1. D[k] = C[k] /\ C[k].start # x.start
      <4>1. C[k].start < x.start /\ C[k] \in Bar
        BY <1>2, <2>1 DEF x
      <4>2. QED
        <5>1. C[k].start \in Nat /\ x.start \in Nat
          BY <1>1, <4>1 DEF Bar
        <5>2. D[k] = C[k]
          BY <1>3, <2>1
        <5>3. QED
          BY <4>1, <5>1, <5>2
    <3>2. ItemsOf(more, f, C[k].start) = ItemsOf(items, f, C[k].start)
      BY <3>1, LongerItems DEF x
    <3>3. MakesUp(C[k], items, ItemsOf(items, f, C[k].start))
      BY <1>2, <2>1 DEF Groups
    <3>4. MakesUp(C[k], more, ItemsOf(items, f, C[k].start))
      <4>1. ItemsOf(items, f, C[k].start) \in SUBSET (1..n)
        BY LongerItems
      <4>2. QED
        BY <3>3, <4>1, MakesUpKept
    <3>5. QED
      BY <3>1, <3>2, <3>4
  <2>2. CASE k = N + 1
    <3>1. ItemsOf(items, f, x.start) = {}
      <4>1. SUFFICES ASSUME NEW i \in ItemsOf(items, f, x.start) PROVE FALSE
        OBVIOUS
      <4>2. i \in DOMAIN items /\ Bucket(items[i].start, f) = x.start
        BY DEF ItemsOf
      <4>3. PICK j \in 1..N : C[j].start = x.start
        BY <1>2, <4>2 DEF Groups
      <4>4. C[j].start < x.start
        BY <1>2 DEF x
      <4>5. QED
        BY <1>1, <4>3, <4>4 DEF Bar
    <3>2. ItemsOf(more, f, x.start) = {n + 1}
      BY <3>1, LongerItems DEF x
    <3>3. MakesUp(x, more, {n + 1})
      BY MakesUpAlone DEF x
    <3>4. QED
      BY <1>3, <2>2, <3>2, <3>3
  <2>3. QED
    BY <1>2, <2>1, <2>2
<1>7. Groups(D, more, f)
  BY <1>3, <1>4, <1>5, <1>6 DEF Groups
<1>8. QED
  BY <1>7 DEF D, x

\* A tick of the bucket of the last candle joins it.
LEMMA GroupsJoined ==
  ASSUME NEW n \in Nat, NEW items, NEW more, OneMore(more, items, n), NEW f,
         NEW B \in Seq(Bar), NEW c \in Bar, Groups(Append(B, c), items, f),
         Bucket(more[n + 1].start, f) = c.start
  PROVE  Groups(Append(B, Joined(c, more[n + 1])), more, f)
<1> DEFINE N == Len(B)
           x == more[n + 1]
           d == Joined(c, x)
           C == Append(B, c)
           D == Append(B, d)
<1>1. MakesUp(c, items, ItemsOf(items, f, c.start))
  <2>1. Len(B) + 1 \in DOMAIN C /\ C[Len(B) + 1] = c
    OBVIOUS
  <2> HIDE DEF C
  <2>2. Groups(C, items, f)
    BY DEF C
  <2>3. QED
    BY <2>1, <2>2 DEF Groups
<1>2. d \in Bar /\ d.start = c.start /\ MakesUp(d, more, ItemsOf(more, f, d.start))
  <2>1. ItemsOf(items, f, c.start) \in SUBSET (1..n)
    BY LongerItems
  <2>2. ItemsOf(more, f, c.start) = ItemsOf(items, f, c.start) \cup {n + 1}
    BY LongerItems
  <2>3. QED
    <3> DEFINE at == ItemsOf(items, f, c.start)
    <3>1. at \in SUBSET (1..n) /\ MakesUp(c, items, at)
      BY <1>1, <2>1
    <3> HIDE DEF at
    <3>2. d \in Bar /\ d.start = c.start /\ MakesUp(d, more, at \cup {n + 1})
      BY <3>1, MakesUpJoined
    <3> HIDE DEF d
    <3>3. QED
      BY <2>2, <3>2 DEF at
<1> HIDE DEF x, d
<1>3. /\ N \in Nat /\ C \in Seq(Bar) /\ D \in Seq(Bar)
      /\ DOMAIN C = 1..N + 1 /\ DOMAIN D = 1..N + 1
      /\ C[N + 1] = c /\ D[N + 1] = d
      /\ \A k \in 1..N : D[k] = B[k] /\ C[k] = B[k]
  BY <1>2
<1>4. Groups(C, items, f)
  OBVIOUS
<1> HIDE DEF N, C, D
<1>5. \A k \in 1..N + 1 : D[k].start = C[k].start
  <2>1. \A k \in 1..N + 1 : k \in 1..N \/ k = N + 1
    BY <1>3
  <2>2. QED
    BY <1>2, <1>3, <2>1
<1>6. \A i, j \in DOMAIN D : i < j => D[i].start < D[j].start
  BY <1>3, <1>4, <1>5 DEF Groups
<1>7. \A i \in DOMAIN more : \E k \in DOMAIN D : D[k].start = Bucket(more[i].start, f)
  <2>1. SUFFICES ASSUME NEW i \in 1..n + 1
                 PROVE  \E k \in 1..N + 1 : D[k].start = Bucket(more[i].start, f)
    BY <1>3 DEF OneMore
  <2>2. CASE i = n + 1
    <3>1. N + 1 \in 1..N + 1
      BY <1>3
    <3>2. QED
      BY <1>2, <1>3, <2>2, <3>1
  <2>3. CASE i \in 1..n
    <3>1. more[i] = items[i] /\ i \in DOMAIN items
      BY <2>3 DEF OneMore
    <3>2. PICK k \in 1..N + 1 : C[k].start = Bucket(items[i].start, f)
      BY <1>3, <1>4, <3>1 DEF Groups
    <3>3. QED
      BY <1>5, <3>1, <3>2
  <2>4. QED
    BY <2>2, <2>3
<1>8. ASSUME NEW k \in 1..N + 1 PROVE MakesUp(D[k], more, ItemsOf(more, f, D[k].start))
  <2>1. CASE k \in 1..N
    <3>1. D[k] = C[k] /\ C[k].start # c.start
      <4>1. k < N + 1 /\ N + 1 \in 1..N + 1 /\ k \in 1..N + 1
        BY <1>3, <2>1
      <4>2. C[k].start < C[N + 1].start
        BY <1>3, <1>4, <4>1 DEF Groups
      <4>3. C[k] \in Bar
        BY <1>3, <4>1
      <4>4. QED
        <5>1. C[k].start \in Nat
          BY <4>3 DEF Bar
        <5>2. C[k].start # C[N + 1].start
          BY <4>2, <5>1
        <5>3. QED
          BY <1>3, <2>1, <5>2
    <3>2. ItemsOf(more, f, C[k].start) = ItemsOf(items, f, C[k].start)
      BY <3>1, LongerItems
    <3>3. MakesUp(C[k], items, ItemsOf(items, f, C[k].start))
      BY <1>3, <1>4 DEF Groups
    <3>4. MakesUp(C[k], more, ItemsOf(items, f, C[k].start))
      <4>1. ItemsOf(items, f, C[k].start) \in SUBSET (1..n)
        BY LongerItems
      <4>2. QED
        BY <3>3, <4>1, MakesUpKept
    <3>5. QED
      BY <3>1, <3>2, <3>4
  <2>2. CASE k = N + 1
    BY <1>2, <1>3, <2>2
  <2>3. QED
    BY <1>3, <2>1, <2>2
<1>9. Groups(D, more, f)
  BY <1>3, <1>6, <1>7, <1>8 DEF Groups
<1>10. QED
  BY <1>9 DEF D, d, x

\* A candle that is made of ticks, with those of each kind before it.
Kept(agg) ==
  /\ agg.taken \in Seq(CandleTick) /\ agg.closed \in Seq(Bar)
  /\ agg.current \in Bar \cup {NoCandle}
  /\ agg.current = NoCandle => agg.taken = <<>> /\ agg.closed = <<>>

\* The candles of the frame f are the groups of the ticks taken, whose buckets never go back.
FrameInv(agg, f) ==
  /\ Kept(agg)
  /\ Groups(AllCandles(agg), AsCandles(agg.taken, f), f)
  /\ InOrder(AsCandles(agg.taken, f), DOMAIN agg.taken)

\* A tick as a candle, and the list of them with one more.
LEMMA TickCandles ==
  ASSUME NEW f \in Nat \ {0}, NEW taken \in Seq(CandleTick), NEW tick \in CandleTick
  PROVE  /\ NewCandle(tick, f) \in Bar
         /\ NewCandle(tick, f).start = Bucket(tick.time, f)
         /\ Bucket(NewCandle(tick, f).start, f) = Bucket(tick.time, f)
         /\ OneMore(AsCandles(Append(taken, tick), f), AsCandles(taken, f), Len(taken))
         /\ AsCandles(Append(taken, tick), f)[Len(taken) + 1] = NewCandle(tick, f)
<1> DEFINE n == Len(taken)
           more == Append(taken, tick)
<1>1. ASSUME NEW t \in CandleTick
      PROVE  /\ NewCandle(t, f) \in Bar /\ NewCandle(t, f).start = Bucket(t.time, f)
             /\ Bucket(NewCandle(t, f).start, f) = Bucket(t.time, f)
  <2>1. t.time \in Nat /\ t.price \in Nat /\ t.volume \in Int
    BY DEF CandleTick
  <2>2. Bucket(t.time, f) \in Nat
    BY <2>1, BucketIs
  <2>3. Bucket(Bucket(t.time, f), f) = Bucket(t.time, f)
    <3>1. PICK q \in Nat : Bucket(t.time, f) = f * q
      BY <2>1, BucketIs
    <3>2. f * q \in Nat /\ f * q <= f * q /\ f * q < f * q + f
      OBVIOUS
    <3>3. Bucket(f * q, f) = f * q
      BY <3>2, BucketUnique
    <3>4. QED
      BY <3>1, <3>3
  <2>4. QED
    BY <2>1, <2>2, <2>3 DEF NewCandle, Bar
<1>2. /\ n \in Nat /\ DOMAIN taken = 1..n /\ DOMAIN more = 1..n + 1
      /\ \A i \in 1..n : more[i] = taken[i] /\ taken[i] \in CandleTick
      /\ more[n + 1] = tick /\ \A i \in 1..n + 1 : more[i] \in CandleTick
  OBVIOUS
<1> HIDE DEF n, more
<1>3. /\ DOMAIN AsCandles(taken, f) = 1..n /\ DOMAIN AsCandles(more, f) = 1..n + 1
      /\ \A i \in 1..n : AsCandles(taken, f)[i] = NewCandle(taken[i], f)
      /\ \A i \in 1..n + 1 : AsCandles(more, f)[i] = NewCandle(more[i], f)
  BY <1>2 DEF AsCandles
<1>4. n + 1 \in 1..n + 1 /\ \A i \in 1..n : i \in 1..n + 1
  BY <1>2
<1>5. OneMore(AsCandles(more, f), AsCandles(taken, f), n)
  BY <1>1, <1>2, <1>3, <1>4 DEF OneMore
<1>6. QED
  BY <1>1, <1>2, <1>3, <1>4, <1>5 DEF n, more

\* A candle extended by a tick is joined by its candle.
LEMMA ExtendedIs ==
  ASSUME NEW c, NEW tick, NEW f PROVE Extended(c, tick) = Joined(c, NewCandle(tick, f))
BY DEF Extended, Joined, NewCandle

\* What is current is the last of all.
LEMMA CurrentIsLast ==
  ASSUME NEW agg, Kept(agg), agg.current # NoCandle
  PROVE  /\ agg.current \in Bar /\ AllCandles(agg) = Append(agg.closed, agg.current)
         /\ AllCandles(agg) \in Seq(Bar)
         /\ DOMAIN AllCandles(agg) = 1..Len(agg.closed) + 1
         /\ AllCandles(agg)[Len(agg.closed) + 1] = agg.current
         /\ \A k \in 1..Len(agg.closed) : AllCandles(agg)[k] = agg.closed[k]
BY DEF Kept, AllCandles

\* What Advance leaves of an aggregator.
LEMMA AdvanceFields ==
  ASSUME NEW f \in Nat \ {0}, NEW agg, Kept(agg), NEW tick \in CandleTick
  PROVE  /\ Kept(Advance(agg, tick, f)) /\ Advance(agg, tick, f).current # NoCandle
         /\ Advance(agg, tick, f).taken = Append(agg.taken, tick)
         /\ agg.current.start = Bucket(tick.time, f) =>
              /\ agg.current # NoCandle
              /\ AllCandles(Advance(agg, tick, f)) = Append(agg.closed, Extended(agg.current, tick))
         /\ agg.current.start # Bucket(tick.time, f) =>
              AllCandles(Advance(agg, tick, f)) = Append(AllCandles(agg), NewCandle(tick, f))
<1> DEFINE after == Advance(agg, tick, f)
           b == Bucket(tick.time, f)
<1>1. NoCandle.start = -1 /\ NewCandle(tick, f) \in Bar /\ b \in Nat
  <2>1. tick.time \in Nat
    BY DEF CandleTick
  <2>2. <<>> \in Seq(CandleTick)
    OBVIOUS
  <2>3. b \in Nat /\ NewCandle(tick, f) \in Bar
    BY <2>1, <2>2, BucketIs, TickCandles
  <2>4. QED
    BY <2>3 DEF NoCandle
<1>2. after.taken = Append(agg.taken, tick) /\ after.taken \in Seq(CandleTick)
  BY DEF Advance, Kept
<1>3. CASE agg.current.start = b
  <2>1. agg.current # NoCandle /\ agg.current \in Bar
    BY <1>1, <1>3 DEF Kept
  <2>2. after.current = Extended(agg.current, tick) /\ after.closed = agg.closed
    BY <1>3 DEF Advance
  <2>3. after.current \in Bar
    <3>1. PICK x \in Bar : x = NewCandle(tick, f)
      BY <1>1
    <3>2. Extended(agg.current, tick) = Joined(agg.current, x)
      BY <3>1, ExtendedIs
    <3>3. Joined(agg.current, x) \in Bar
      BY <2>1, JoinedIs
    <3>4. QED
      BY <2>2, <3>2, <3>3
  <2>4. after.current # NoCandle
    BY <1>1, <2>3 DEF Bar
  <2>5. QED
    BY <1>2, <1>3, <2>1, <2>2, <2>3, <2>4 DEF Kept, AllCandles
<1>4. CASE agg.current.start # b
  <2>1. /\ after.current = NewCandle(tick, f)
        /\ after.closed = IF agg.current = NoCandle THEN agg.closed
                          ELSE Append(agg.closed, agg.current)
    BY <1>4 DEF Advance
  <2>2. after.current \in Bar /\ after.current # NoCandle
    BY <1>1, <2>1 DEF Bar
  <2>3. after.closed = AllCandles(agg) /\ after.closed \in Seq(Bar)
    BY <2>1 DEF AllCandles, Kept
  <2>4. AllCandles(after) = Append(AllCandles(agg), NewCandle(tick, f))
    BY <2>1, <2>2, <2>3 DEF AllCandles
  <2>5. QED
    BY <1>2, <1>4, <2>2, <2>3, <2>4 DEF Kept
<1>5. QED
  BY <1>3, <1>4

\* Nothing yet is the grouping of no ticks.
LEMMA FrameStarts ==
  ASSUME NEW f PROVE FrameInv(Nothing, f) /\ Kept(Nothing) /\ AllCandles(Nothing) = <<>>
<1>1. Kept(Nothing) /\ AllCandles(Nothing) = <<>> /\ Nothing.taken = <<>>
  BY DEF Kept, AllCandles, Nothing
<1>2. AsCandles(<<>>, f) = <<>>
  BY DEF AsCandles
<1>3. Groups(<<>>, <<>>, f)
  BY DEF Groups
<1>4. InOrder(<<>>, DOMAIN <<>>)
  BY DEF InOrder
<1>5. QED
  BY <1>1, <1>2, <1>3, <1>4, Zenon DEF FrameInv

\* A tick that is not late keeps the candles the groups of the ticks.
LEMMA FrameAdvances ==
  ASSUME NEW f \in Nat \ {0}, NEW agg, FrameInv(agg, f), NEW tick \in CandleTick,
         ~Late(agg, tick, f)
  PROVE  FrameInv(Advance(agg, tick, f), f)
<1> DEFINE n == Len(agg.taken)
           items == AsCandles(agg.taken, f)
           more == AsCandles(Append(agg.taken, tick), f)
           x == NewCandle(tick, f)
           C == AllCandles(agg)
           after == Advance(agg, tick, f)
           b == Bucket(tick.time, f)
<1>1. /\ Kept(agg) /\ Groups(C, items, f) /\ InOrder(items, 1..n)
      /\ n \in Nat /\ agg.taken \in Seq(CandleTick) /\ DOMAIN agg.taken = 1..n
  BY DEF FrameInv, Kept
<1>2. /\ x \in Bar /\ x.start = b /\ Bucket(x.start, f) = b /\ OneMore(more, items, n)
      /\ more[n + 1] = x
  BY <1>1, TickCandles
<1>3. /\ Kept(after) /\ after.taken = Append(agg.taken, tick)
      /\ agg.current.start = b =>
           agg.current # NoCandle /\ AllCandles(after) = Append(agg.closed, Extended(agg.current, tick))
      /\ agg.current.start # b => AllCandles(after) = Append(C, x)
  BY <1>1, AdvanceFields
<1>4. ASSUME NEW k \in DOMAIN C
      PROVE  /\ C[k].start <= b /\ (agg.current.start # b => C[k].start < b)
             /\ C[k].start \in Nat
  <2>1. agg.current # NoCandle
    <3>1. SUFFICES ASSUME agg.current = NoCandle PROVE FALSE
      OBVIOUS
    <3>2. C = <<>>
      BY <1>1, <3>1 DEF Kept, AllCandles
    <3> HIDE DEF C
    <3>3. QED
      BY <3>2
  <2>2. b >= agg.current.start /\ b \in Nat
    <3>1. agg.current \in Bar
      BY <1>1, <2>1 DEF Kept
    <3>2. agg.current.start \in Nat /\ b \in Nat
      BY <1>2, <3>1 DEF Bar
    <3> HIDE DEF b
    <3>3. ~(b < agg.current.start)
      BY DEF Late, b
    <3>4. QED
      BY <3>2, <3>3
  <2> DEFINE N == Len(agg.closed) + 1
  <2>3. /\ agg.current \in Bar /\ C \in Seq(Bar) /\ DOMAIN C = 1..N /\ C[N] = agg.current
        /\ N \in Nat
    <3>1. agg.closed \in Seq(Bar)
      BY <1>1 DEF Kept
    <3>2. QED
      BY <1>1, <2>1, <3>1, CurrentIsLast
  <2> HIDE DEF C, N, b
  <2>4. k < N => C[k].start < C[N].start
    <3>1. N \in DOMAIN C
      BY <2>3
    <3>2. QED
      BY <1>1, <3>1 DEF Groups
  <2>5. C[k] \in Bar /\ k <= N
    BY <2>3
  <2>6. C[k].start \in Nat /\ agg.current.start \in Nat
    BY <2>3, <2>5 DEF Bar
  <2>7. QED
    BY <2>2, <2>3, <2>4, <2>5, <2>6
<1>5. Groups(AllCandles(after), more, f)
  <2>1. CASE agg.current.start = b
    <3> DEFINE c == agg.current
    <3>1. c \in Bar /\ C = Append(agg.closed, c) /\ agg.closed \in Seq(Bar)
      BY <1>1, <1>3, <2>1, CurrentIsLast DEF Kept
    <3>2. AllCandles(after) = Append(agg.closed, Joined(c, x))
      BY <1>3, <2>1, ExtendedIs
    <3>3. Groups(Append(agg.closed, c), items, f) /\ Bucket(more[n + 1].start, f) = c.start
      BY <1>1, <1>2, <2>1, <3>1
    <3> HIDE DEF c, C, items, more, x, after, n
    <3>4. Groups(Append(agg.closed, Joined(c, more[n + 1])), more, f)
      BY <1>1, <1>2, <3>1, <3>3, GroupsJoined
    <3>5. QED
      BY <1>2, <3>2, <3>4
  <2>2. CASE agg.current.start # b
    <3>1. AllCandles(after) = Append(C, x)
      BY <1>3, <2>2
    <3>2. Bucket(more[n + 1].start, f) = more[n + 1].start
      BY <1>2
    <3>3. \A k \in DOMAIN C : C[k].start < more[n + 1].start
      BY <1>2, <1>4, <2>2
    <3> HIDE DEF C, items, more, x, after, n
    <3>4. Groups(Append(C, more[n + 1]), more, f)
      BY <1>1, <1>2, <3>2, <3>3, GroupsNew
    <3>5. QED
      BY <1>2, <3>1, <3>4
  <2>3. QED
    BY <2>1, <2>2
<1>6. InOrder(more, 1..n + 1)
  <2>1. ASSUME NEW i \in 1..n PROVE more[i].start <= x.start /\ more[i] = items[i]
    <3>1. more[i] = items[i] /\ i \in DOMAIN items /\ i \in DOMAIN agg.taken
      BY <1>1, <1>2 DEF OneMore
    <3>2. PICK k \in DOMAIN C : C[k].start = Bucket(items[i].start, f)
      BY <1>1, <3>1 DEF Groups
    <3>3. Bucket(items[i].start, f) = items[i].start
      <4>1. agg.taken[i] \in CandleTick /\ items[i] = NewCandle(agg.taken[i], f)
        BY <1>1, <3>1 DEF AsCandles
      <4>2. QED
        BY <1>1, <4>1, TickCandles
    <3>4. QED
      BY <1>2, <1>4, <3>1, <3>2, <3>3
  <2>2. x.start \in Nat
    BY <1>2 DEF Bar
  <2> HIDE DEF items, more, x, n
  <2>3. ASSUME NEW i \in 1..n + 1, NEW j \in 1..n + 1, i <= j
        PROVE  more[i].start <= more[j].start
    <3>1. CASE j = n + 1 /\ i = n + 1
      BY <1>2, <2>2, <3>1
    <3>2. CASE j = n + 1 /\ i # n + 1
      <4>1. i \in 1..n
        BY <1>1, <3>2
      <4>2. QED
        BY <1>2, <2>1, <3>2, <4>1
    <3>3. CASE j # n + 1
      <4>1. i \in 1..n /\ j \in 1..n
        BY <1>1, <2>3, <3>3
      <4>2. items[i].start <= items[j].start
        BY <1>1, <2>3, <4>1 DEF InOrder
      <4>3. QED
        BY <2>1, <4>1, <4>2
    <3>4. QED
      BY <3>1, <3>2, <3>3
  <2>4. QED
    BY <2>3 DEF InOrder
<1>7. DOMAIN after.taken = 1..n + 1
  BY <1>1, <1>3
<1>8. QED
  BY <1>3, <1>5, <1>6, <1>7 DEF FrameInv

\* Such candles are what MultiTimeframeAggregator makes of the ticks, and so are the wider.
LEMMA FrameGroups ==
  ASSUME NEW f \in Nat \ {0}, NEW agg, FrameInv(agg, f)
  PROVE  /\ Aggregate(AsCandles(agg.taken, f), f) = AllCandles(agg)
         /\ \A g \in Nat \ {0} : g % f = 0 =>
              Aggregate(AllCandles(agg), g) = Aggregate(AsCandles(agg.taken, g), g)
<1> DEFINE n == Len(agg.taken)
           items == AsCandles(agg.taken, f)
<1>1. /\ n \in Nat /\ agg.taken \in Seq(CandleTick) /\ DOMAIN agg.taken = 1..n
      /\ Groups(AllCandles(agg), items, f) /\ InOrder(items, 1..n)
  BY DEF FrameInv, Kept
<1>2. ASSUME NEW i \in 1..n
      PROVE  items[i] \in Bar /\ Bucket(items[i].start, f) = items[i].start
  <2>1. agg.taken[i] \in CandleTick /\ items[i] = NewCandle(agg.taken[i], f)
    BY <1>1 DEF AsCandles
  <2>2. QED
    BY <1>1, <2>1, TickCandles
<1>3. DOMAIN items = 1..n
  BY <1>1 DEF AsCandles
<1> HIDE DEF items, n
<1>4. \A b : InOrder(items, ItemsOf(items, f, b))
  BY <1>1, <1>3 DEF InOrder, ItemsOf
<1>5. Aggregate(items, f) = AllCandles(agg)
  BY <1>1, <1>2, <1>3, <1>4, AggregateIs
<1>6. \A g \in Nat \ {0} : Aggregate(AllCandles(agg), g) = Aggregate(items, g)
  BY <1>1, <1>2, <1>3, AggregateSame
<1>7. ASSUME NEW g \in Nat \ {0}, g % f = 0
      PROVE  Aggregate(items, g) = Aggregate(AsCandles(agg.taken, g), g)
  <2> DEFINE wide == AsCandles(agg.taken, g)
  <2>1. ASSUME NEW i \in 1..n
        PROVE  /\ wide[i] = [items[i] EXCEPT !.start = wide[i].start] /\ wide[i] \in Bar
               /\ wide[i].start = Bucket(items[i].start, g)
               /\ Bucket(wide[i].start, g) = wide[i].start
    <3> DEFINE t == agg.taken[i]
    <3>1. t \in CandleTick /\ items[i] = NewCandle(t, f) /\ wide[i] = NewCandle(t, g)
      BY <1>1 DEF AsCandles, items
    <3>2. t.time \in Nat
      BY <3>1 DEF CandleTick
    <3> HIDE DEF wide, t
    <3>3. /\ items[i].start = Bucket(t.time, f) /\ wide[i].start = Bucket(t.time, g)
          /\ wide[i] \in Bar /\ Bucket(wide[i].start, g) = wide[i].start
      BY <1>1, <3>1, TickCandles
    <3>4. Bucket(Bucket(t.time, f), g) = Bucket(t.time, g)
      BY <1>7, <3>2, BucketOfBucket
    <3>5. wide[i] = [items[i] EXCEPT !.start = wide[i].start]
      BY <3>1, <3>3 DEF NewCandle
    <3>6. QED
      BY <3>3, <3>4, <3>5
  <2>2. DOMAIN wide = 1..n
    BY <1>1 DEF AsCandles
  <2> HIDE DEF wide
  <2>3. Aggregate(items, g) = Aggregate(wide, g)
    <3>1. Framed(wide, items, n, g)
      BY <1>1, <1>2, <1>3, <2>1, <2>2, Zenon DEF Framed
    <3>2. QED
      BY <3>1, AggregateFramed
  <2>4. QED
    BY <2>3 DEF wide
<1>8. QED
  BY <1>5, <1>6, <1>7 DEF items

-----------------------------------------------------------------------------
(* The runs of CandleBuilder.                                               *)

\* The frames, and the wide one a multiple of the other.
LEMMA BaseIs == BaseFrame \in Nat \ {0} /\ WideFrame \in Nat \ {0} /\ WideFrame % BaseFrame = 0
BY CandleAssumption

BaseBucket(taken, n) == Bucket(taken[n].time, BaseFrame)

\* The ticks that begin a run, how many of them there are up to a tick, and the ticks of run k.
Begins(taken) ==
  {n \in DOMAIN taken : n > 1 => BaseBucket(taken, n) # BaseBucket(taken, n - 1)}
BegunBy(taken, n) == {m \in Begins(taken) : m <= n}
RunOf(taken, k) == {n \in DOMAIN taken : Cardinality(BegunBy(taken, n)) = k}

\* The candles are the runs of the ticks.
BuilderInv(agg) ==
  /\ Kept(agg)
  /\ Len(AllCandles(agg)) = Cardinality(Begins(agg.taken))
  /\ \A k \in DOMAIN AllCandles(agg) :
       /\ MakesUp(AllCandles(agg)[k], AsCandles(agg.taken, BaseFrame), RunOf(agg.taken, k))
       /\ \A n \in RunOf(agg.taken, k) : BaseBucket(agg.taken, n) = AllCandles(agg)[k].start

\* One tick more begins a run if its bucket is not that of the tick before.
LEMMA BeginsMore ==
  ASSUME NEW taken \in Seq(CandleTick), NEW tick \in CandleTick
  PROVE  LET n == Len(taken)
             more == Append(taken, tick) IN
         /\ IsFiniteSet(Begins(taken)) /\ Begins(taken) \in SUBSET (1..n)
         /\ n > 0 => BegunBy(taken, n) = Begins(taken)
         /\ \A i \in 1..n : BegunBy(more, i) = BegunBy(taken, i)
         /\ BegunBy(more, n + 1) = Begins(more)
         /\ n > 0 /\ Bucket(tick.time, BaseFrame) = BaseBucket(taken, n) =>
              Begins(more) = Begins(taken)
         /\ n = 0 \/ Bucket(tick.time, BaseFrame) # BaseBucket(taken, n) =>
              Begins(more) = Begins(taken) \cup {n + 1}
<1> DEFINE n == Len(taken)
           more == Append(taken, tick)
<1>1. /\ n \in Nat /\ DOMAIN taken = 1..n /\ DOMAIN more = 1..n + 1
      /\ \A i \in 1..n : more[i] = taken[i] /\ more[n + 1] = tick
  OBVIOUS
<1>2. more[n + 1] = tick
  OBVIOUS
<1> HIDE DEF n, more
<1>3. \A i \in 1..n : BaseBucket(more, i) = BaseBucket(taken, i)
  BY <1>1 DEF BaseBucket
<1>4. BaseBucket(more, n + 1) = Bucket(tick.time, BaseFrame)
  BY <1>2 DEF BaseBucket
<1>5. \A i \in 1..n : i \in Begins(more) <=> i \in Begins(taken)
  <2>1. SUFFICES ASSUME NEW i \in 1..n PROVE i \in Begins(more) <=> i \in Begins(taken)
    OBVIOUS
  <2>2. i \in 1..n + 1 /\ (i > 1 => i - 1 \in 1..n)
    BY <1>1
  <2>3. i > 1 => BaseBucket(more, i - 1) = BaseBucket(taken, i - 1)
    BY <1>3, <2>2
  <2>4. QED
    BY <1>1, <1>3, <2>2, <2>3 DEF Begins
<1>6. Begins(taken) \in SUBSET (1..n) /\ Begins(more) \in SUBSET (1..n + 1)
  BY <1>1 DEF Begins
<1>7. IsFiniteSet(Begins(taken))
  BY <1>1, <1>6, FinitelyMany
<1>8. BegunBy(more, n + 1) = Begins(more)
  <2>1. \A m \in Begins(more) : m <= n + 1
    BY <1>1, <1>6
  <2>2. QED
    BY <2>1 DEF BegunBy
<1>9. BegunBy(taken, n) = Begins(taken)
  <2>1. \A m \in Begins(taken) : m <= n
    BY <1>1, <1>6
  <2>2. QED
    BY <2>1 DEF BegunBy
<1>10. \A i \in 1..n : BegunBy(more, i) = BegunBy(taken, i)
  <2>1. SUFFICES ASSUME NEW i \in 1..n, NEW m PROVE m \in BegunBy(more, i) <=> m \in BegunBy(taken, i)
    OBVIOUS
  <2>2. m \in 1..n + 1 /\ m <= i => m \in 1..n
    BY <1>1
  <2>3. m \in BegunBy(more, i) <=> m \in Begins(more) /\ m <= i
    BY DEF BegunBy
  <2>4. m \in BegunBy(taken, i) <=> m \in Begins(taken) /\ m <= i
    BY DEF BegunBy
  <2>5. QED
    BY <1>5, <1>6, <2>2, <2>3, <2>4
<1>11. n + 1 \in Begins(more) <=>
         (n > 0 => Bucket(tick.time, BaseFrame) # BaseBucket(taken, n))
  <2>1. /\ n + 1 \in Begins(more) <=>
             (n + 1 > 1 => BaseBucket(more, n + 1) # BaseBucket(more, n + 1 - 1))
        /\ n + 1 - 1 = n /\ (n + 1 > 1 <=> n > 0)
    BY <1>1 DEF Begins
  <2>2. n > 0 => n \in 1..n
    BY <1>1
  <2>3. QED
    BY <1>3, <1>4, <2>1, <2>2
<1>12. \A m : m \in Begins(more) <=> m \in Begins(taken) \/ (m = n + 1 /\ n + 1 \in Begins(more))
  <2>1. SUFFICES ASSUME NEW m
                 PROVE  m \in Begins(more) <=>
                          m \in Begins(taken) \/ (m = n + 1 /\ n + 1 \in Begins(more))
    OBVIOUS
  <2>2. m \in 1..n + 1 <=> m \in 1..n \/ m = n + 1
    BY <1>1
  <2>3. QED
    BY <1>5, <1>6, <2>2
<1>13. n > 0 /\ Bucket(tick.time, BaseFrame) = BaseBucket(taken, n) => Begins(more) = Begins(taken)
  BY <1>11, <1>12
<1>14. n = 0 \/ Bucket(tick.time, BaseFrame) # BaseBucket(taken, n) =>
         Begins(more) = Begins(taken) \cup {n + 1}
  <2>1. n = 0 => ~(n > 0)
    OBVIOUS
  <2>2. QED
    BY <1>11, <1>12, <2>1
<1>15. QED
  BY <1>6, <1>7, <1>8, <1>9, <1>10, <1>13, <1>14 DEF n, more

\* No ticks have no runs.
LEMMA BuilderStarts == BuilderInv(Nothing)
<1>1. Kept(Nothing) /\ AllCandles(Nothing) = <<>> /\ Nothing.taken = <<>>
  <2>1. \A f : Kept(Nothing) /\ AllCandles(Nothing) = <<>>
    BY FrameStarts
  <2>2. QED
    BY <2>1 DEF Nothing
<1>2. Begins(<<>>) = {}
  BY DEF Begins
<1>3. Len(<<>>) = 0 /\ DOMAIN <<>> = {} /\ Cardinality({}) = 0
  BY FS_EmptySet
<1>4. QED
  BY <1>1, <1>2, <1>3 DEF BuilderInv

\* The runs are the candles of Runs.
LEMMA BuilderRuns ==
  ASSUME NEW agg, BuilderInv(agg) PROVE AllCandles(agg) = Runs(agg.taken)
<1> DEFINE T == agg.taken
           n == Len(T)
           C == AllCandles(agg)
           N == Cardinality(Begins(T))
           items == AsCandles(T, BaseFrame)
<1>1. /\ n \in Nat /\ T \in Seq(CandleTick) /\ DOMAIN T = 1..n
      /\ C \in Seq(Bar) /\ Len(C) = N
      /\ \A k \in 1..N : /\ C[k] \in Bar /\ MakesUp(C[k], items, RunOf(T, k))
                         /\ \A i \in RunOf(T, k) : BaseBucket(T, i) = C[k].start
  <2>1. Kept(agg) /\ agg.taken \in Seq(CandleTick)
    BY DEF BuilderInv, Kept
  <2>2. C \in Seq(Bar)
    BY <2>1 DEF Kept, AllCandles
  <2>3. Len(C) = N /\ Len(C) \in Nat /\ DOMAIN C = 1..Len(C)
    BY <2>2 DEF BuilderInv
  <2>4. QED
    BY <2>1, <2>2, <2>3 DEF BuilderInv
<1>2. \A i \in 1..n : items[i] \in Bar /\ items[i].start = BaseBucket(T, i)
  <2>1. SUFFICES ASSUME NEW i \in 1..n PROVE items[i] \in Bar /\ items[i].start = BaseBucket(T, i)
    OBVIOUS
  <2>2. T[i] \in CandleTick /\ items[i] = NewCandle(T[i], BaseFrame)
    BY <1>1 DEF AsCandles
  <2>3. QED
    BY <1>1, <2>2, BaseIs, TickCandles DEF BaseBucket
<1>3. DOMAIN items = 1..n
  BY <1>1 DEF AsCandles
<1>4. Runs(T) = [k \in 1..N |-> CandleOf(items, RunOf(T, k), BaseBucket(T, Min(RunOf(T, k))))]
  BY Zenon DEF Runs, Begins, BegunBy, RunOf, BaseBucket
<1> HIDE DEF T, n, C, N, items
<1>5. ASSUME NEW k \in 1..N
      PROVE  CandleOf(items, RunOf(T, k), BaseBucket(T, Min(RunOf(T, k)))) = C[k]
  <2> DEFINE at == RunOf(T, k)
  <2>1. at \in SUBSET (1..n)
    BY <1>1 DEF RunOf
  <2>2. MakesUp(C[k], items, at) /\ C[k] \in Bar /\ \A i \in at : items[i].start = C[k].start
    BY <1>1, <1>2, <2>1
  <2> HIDE DEF at
  <2>3. at # {} /\ at \subseteq Nat
    BY <2>1, <2>2 DEF MakesUp
  <2>4. BaseBucket(T, Min(at)) = C[k].start
    <3>1. Min(at) \in at
      BY <2>3, MinOfNat
    <3>2. QED
      BY <1>1, <3>1 DEF at
  <2>5. InOrder(items, at)
    <3>1. C[k].start <= C[k].start
      BY <2>2 DEF Bar
    <3>2. QED
      BY <2>2, <3>1 DEF InOrder
  <2>6. CandleOf(items, at, C[k].start) = C[k]
    BY <1>1, <1>2, <1>3, <2>1, <2>2, <2>5, CandleIs
  <2>7. QED
    BY <2>4, <2>6 DEF at
<1>6. C = [k \in 1..N |-> C[k]]
  BY <1>1
<1>7. C = Runs(T)
  BY <1>4, <1>5, <1>6, Zenon
<1>8. QED
  BY <1>7 DEF C, T

\* What a tick does to the runs: it joins the last, or is one of its own.
LEMMA RunsMore ==
  ASSUME NEW taken \in Seq(CandleTick), NEW tick \in CandleTick
  PROVE  LET n == Len(taken)
             more == Append(taken, tick)
             N == Cardinality(Begins(taken)) IN
         /\ N \in Nat
         /\ n > 0 => n \in RunOf(taken, N)
         /\ \A k : RunOf(taken, k) \in SUBSET (1..n)
         /\ n > 0 /\ Bucket(tick.time, BaseFrame) = BaseBucket(taken, n) =>
              /\ Cardinality(Begins(more)) = N
              /\ RunOf(more, N) = RunOf(taken, N) \cup {n + 1}
              /\ \A k : k # N => RunOf(more, k) = RunOf(taken, k)
         /\ n = 0 \/ Bucket(tick.time, BaseFrame) # BaseBucket(taken, n) =>
              /\ Cardinality(Begins(more)) = N + 1
              /\ RunOf(more, N + 1) = {n + 1}
              /\ \A k \in 1..N : RunOf(more, k) = RunOf(taken, k)
<1> DEFINE n == Len(taken)
           more == Append(taken, tick)
           N == Cardinality(Begins(taken))
           same == n > 0 /\ Bucket(tick.time, BaseFrame) = BaseBucket(taken, n)
           new == n = 0 \/ Bucket(tick.time, BaseFrame) # BaseBucket(taken, n)
<1>1. n \in Nat /\ DOMAIN taken = 1..n /\ DOMAIN more = 1..n + 1
  OBVIOUS
<1>2. /\ IsFiniteSet(Begins(taken)) /\ Begins(taken) \in SUBSET (1..n)
      /\ n > 0 => BegunBy(taken, n) = Begins(taken)
      /\ \A i \in 1..n : BegunBy(more, i) = BegunBy(taken, i)
      /\ BegunBy(more, n + 1) = Begins(more)
      /\ same => Begins(more) = Begins(taken)
      /\ new => Begins(more) = Begins(taken) \cup {n + 1}
  BY BeginsMore
<1> HIDE DEF n, more, same, new
<1>3. N \in Nat
  BY <1>2, FS_CardinalityType
<1>4. new => Cardinality(Begins(more)) = N + 1
  <2>1. n + 1 \notin Begins(taken)
    BY <1>1, <1>2
  <2>2. QED
    BY <1>2, <2>1, FS_AddElement
<1> DEFINE M == Cardinality(Begins(more))
<1>5. \A k : RunOf(more, k) = IF k = M THEN RunOf(taken, k) \cup {n + 1} ELSE RunOf(taken, k)
  <2>1. ASSUME NEW k, NEW i
        PROVE  i \in RunOf(more, k) <=> i \in RunOf(taken, k) \/ (k = M /\ i = n + 1)
    <3>1. i \in 1..n + 1 <=> i \in 1..n \/ i = n + 1
      BY <1>1
    <3>2. n + 1 \notin 1..n
      BY <1>1
    <3>3. i \in RunOf(more, k) <=> i \in 1..n + 1 /\ Cardinality(BegunBy(more, i)) = k
      BY <1>1 DEF RunOf
    <3>4. i \in RunOf(taken, k) <=> i \in 1..n /\ Cardinality(BegunBy(taken, i)) = k
      BY <1>1 DEF RunOf
    <3>5. QED
      BY <1>2, <3>1, <3>2, <3>3, <3>4
  <2> HIDE DEF M
  <2>2. SUFFICES ASSUME NEW k
                 PROVE  RunOf(more, k) = IF k = M THEN RunOf(taken, k) \cup {n + 1}
                                         ELSE RunOf(taken, k)
    OBVIOUS
  <2>3. k = M => RunOf(more, k) = RunOf(taken, k) \cup {n + 1}
    BY <2>1
  <2>4. k # M => RunOf(more, k) = RunOf(taken, k)
    <3>1. SUFFICES ASSUME k # M PROVE RunOf(more, k) = RunOf(taken, k)
      OBVIOUS
    <3>2. \A i : i \in RunOf(more, k) <=> i \in RunOf(taken, k)
      BY <2>1, <3>1
    <3>3. RunOf(more, k) \subseteq RunOf(taken, k) /\ RunOf(taken, k) \subseteq RunOf(more, k)
      BY <3>2
    <3>4. QED
      BY <3>3
  <2>5. QED
    BY <2>3, <2>4
<1>6. \A k : RunOf(taken, k) \in SUBSET (1..n)
  BY <1>1 DEF RunOf
<1>7. RunOf(taken, N + 1) = {}
  <2>1. SUFFICES ASSUME NEW i \in RunOf(taken, N + 1) PROVE FALSE
    OBVIOUS
  <2>2. Cardinality(BegunBy(taken, i)) = N + 1 /\ BegunBy(taken, i) \in SUBSET Begins(taken)
    BY DEF RunOf, BegunBy
  <2>3. Cardinality(BegunBy(taken, i)) <= N
    BY <1>2, <2>2, FS_Subset
  <2> HIDE DEF N
  <2>4. QED
    BY <1>3, <2>2, <2>3
<1>8. n > 0 => n \in RunOf(taken, N)
  <2>1. n > 0 => n \in 1..n
    BY <1>1
  <2>2. QED
    BY <1>1, <1>2, <2>1 DEF RunOf
<1>9. same => M = N
  BY <1>2
<1> HIDE DEF N, M
<1>10. same => /\ M = N
               /\ RunOf(more, N) = RunOf(taken, N) \cup {n + 1}
               /\ \A k : k # N => RunOf(more, k) = RunOf(taken, k)
  BY <1>5, <1>9
<1>11. new => /\ M = N + 1
              /\ RunOf(more, N + 1) = {n + 1}
              /\ \A k \in 1..N : RunOf(more, k) = RunOf(taken, k)
  <2>1. \A k \in 1..N : k # N + 1
    BY <1>3
  <2>2. new => M = N + 1
    BY <1>4 DEF M
  <2>3. QED
    BY <1>5, <1>7, <2>1, <2>2
<1>12. QED
  BY <1>3, <1>6, <1>8, <1>10, <1>11 DEF n, more, N, M, same, new

\* Any tick keeps the candles of CandleBuilder the runs of its ticks.
LEMMA BuilderAdvances ==
  ASSUME NEW agg, BuilderInv(agg), NEW tick \in CandleTick
  PROVE  BuilderInv(Advance(agg, tick, BaseFrame))
<1> DEFINE T == agg.taken
           n == Len(T)
           more == Append(T, tick)
           items == AsCandles(T, BaseFrame)
           longer == AsCandles(more, BaseFrame)
           x == NewCandle(tick, BaseFrame)
           C == AllCandles(agg)
           N == Cardinality(Begins(T))
           after == Advance(agg, tick, BaseFrame)
           D == AllCandles(after)
           b == Bucket(tick.time, BaseFrame)
<1>1. Kept(agg) /\ T \in Seq(CandleTick) /\ n \in Nat
  BY DEF BuilderInv, Kept
<1>2. /\ x \in Bar /\ x.start = b /\ OneMore(longer, items, n) /\ longer[n + 1] = x
  BY <1>1, BaseIs, TickCandles
<1>3. /\ Kept(after) /\ after.taken = more
      /\ agg.current.start = b =>
           agg.current # NoCandle /\ D = Append(agg.closed, Extended(agg.current, tick))
      /\ agg.current.start # b => D = Append(C, x)
  <2>1. BaseFrame \in Nat \ {0}
    BY BaseIs
  <2>2. /\ Kept(after) /\ after.taken = Append(agg.taken, tick)
        /\ agg.current.start = b =>
             /\ agg.current # NoCandle
             /\ AllCandles(after) = Append(agg.closed, Extended(agg.current, tick))
        /\ agg.current.start # b =>
             AllCandles(after) = Append(AllCandles(agg), NewCandle(tick, BaseFrame))
    BY <1>1, <2>1, AdvanceFields
  <2>3. QED
    BY <2>2
<1>4. /\ N \in Nat
      /\ n > 0 => n \in RunOf(T, N)
      /\ \A k : RunOf(T, k) \in SUBSET (1..n)
      /\ n > 0 /\ b = BaseBucket(T, n) =>
           /\ Cardinality(Begins(more)) = N
           /\ RunOf(more, N) = RunOf(T, N) \cup {n + 1}
           /\ \A k : k # N => RunOf(more, k) = RunOf(T, k)
      /\ n = 0 \/ b # BaseBucket(T, n) =>
           /\ Cardinality(Begins(more)) = N + 1
           /\ RunOf(more, N + 1) = {n + 1}
           /\ \A k \in 1..N : RunOf(more, k) = RunOf(T, k)
  BY <1>1, RunsMore
<1>5. C \in Seq(Bar) /\ Len(C) = N /\ DOMAIN C = 1..N
  <2>1. C \in Seq(Bar)
    BY <1>1 DEF Kept, AllCandles
  <2>2. QED
    BY <2>1 DEF BuilderInv
<1>6. \A k \in 1..N : /\ C[k] \in Bar /\ MakesUp(C[k], items, RunOf(T, k))
                      /\ \A i \in RunOf(T, k) : BaseBucket(T, i) = C[k].start
  BY <1>5 DEF BuilderInv
<1>7. agg.current # NoCandle =>
        /\ n > 0 /\ N > 0 /\ C = Append(agg.closed, agg.current) /\ C[N] = agg.current
        /\ Len(agg.closed) = N - 1 /\ agg.closed \in Seq(Bar)
        /\ BaseBucket(T, n) = agg.current.start /\ agg.current \in Bar
  <2>1. SUFFICES ASSUME agg.current # NoCandle
                 PROVE  /\ n > 0 /\ N > 0 /\ C = Append(agg.closed, agg.current)
                        /\ C[N] = agg.current
                        /\ Len(agg.closed) = N - 1 /\ agg.closed \in Seq(Bar)
                        /\ BaseBucket(T, n) = agg.current.start /\ agg.current \in Bar
    OBVIOUS
  <2>2. /\ agg.current \in Bar /\ C = Append(agg.closed, agg.current)
        /\ agg.closed \in Seq(Bar)
    BY <1>1, <2>1, CurrentIsLast DEF Kept
  <2>3. N > 0 /\ C[N] = agg.current /\ Len(agg.closed) = N - 1
    <3>1. Len(C) = Len(agg.closed) + 1 /\ C[Len(agg.closed) + 1] = agg.current
          /\ Len(agg.closed) \in Nat
      BY <2>2
    <3> HIDE DEF C, N
    <3>2. QED
      BY <1>5, <3>1
  <2> HIDE DEF C, N
  <2>4. N \in 1..N
    BY <1>4, <2>3
  <2>5. MakesUp(C[N], items, RunOf(T, N))
    BY <1>6, <2>4
  <2>6. PICK i \in RunOf(T, N) : TRUE
    BY <2>5 DEF MakesUp
  <2>7. n > 0
    <3>1. i \in 1..n
      BY <1>4, <2>6
    <3>2. QED
      BY <1>1, <3>1
  <2>8. BaseBucket(T, n) = C[N].start
    BY <1>4, <1>6, <2>4, <2>7
  <2>9. QED
    BY <2>2, <2>3, <2>7, <2>8
<1>8. agg.current = NoCandle => n = 0 /\ agg.current.start # b
  <2>1. agg.current = NoCandle => T = <<>>
    BY <1>1 DEF Kept
  <2>2. b \in Nat /\ NoCandle.start = -1
    BY <1>2 DEF Bar, NoCandle
  <2>3. QED
    BY <2>1, <2>2
<1>9. \A i \in 1..n : BaseBucket(more, i) = BaseBucket(T, i)
  BY <1>1 DEF BaseBucket
<1>10. BaseBucket(more, n + 1) = b
  BY <1>1 DEF BaseBucket
<1> HIDE DEF T, n, more, items, longer, x, C, N, after, b
<1>11. ASSUME agg.current.start = b PROVE BuilderInv(after)
  <2> DEFINE c == agg.current
             d == Joined(c, x)
  <2>1. /\ c # NoCandle /\ n > 0 /\ N > 0 /\ C[N] = c /\ Len(agg.closed) = N - 1
        /\ agg.closed \in Seq(Bar) /\ BaseBucket(T, n) = b /\ c \in Bar
        /\ C = Append(agg.closed, c)
    BY <1>3, <1>7, <1>11
  <2>2. D = Append(agg.closed, d)
    BY <1>3, <1>11, ExtendedIs DEF x
  <2>3. /\ d \in Bar /\ d.start = c.start
        /\ MakesUp(d, longer, RunOf(T, N) \cup {n + 1})
    <3>1. N \in 1..N
      BY <1>4, <2>1
    <3>2. MakesUp(c, items, RunOf(T, N))
      BY <1>6, <2>1, <3>1
    <3> HIDE DEF c, d
    <3>3. /\ Joined(c, longer[n + 1]) \in Bar /\ Joined(c, longer[n + 1]).start = c.start
          /\ MakesUp(Joined(c, longer[n + 1]), longer, RunOf(T, N) \cup {n + 1})
      <4> DEFINE at == RunOf(T, N)
      <4>1. at \in SUBSET (1..n) /\ MakesUp(c, items, at) /\ c \in Bar
        BY <1>4, <2>1, <3>2
      <4>2. n \in Nat /\ OneMore(longer, items, n)
        BY <1>1, <1>2
      <4> HIDE DEF at, D
      <4>a. ASSUME NEW s \in SUBSET (1..n), NEW e \in Bar, MakesUp(e, items, s)
            PROVE  /\ Joined(e, longer[n + 1]) \in Bar
                   /\ Joined(e, longer[n + 1]).start = e.start
                   /\ MakesUp(Joined(e, longer[n + 1]), longer, s \cup {n + 1})
        <5>1. n \in Nat
          BY <4>2
        <5>2. OneMore(longer, items, n)
          BY <4>2
        <5>3. QED
          BY <4>a, <5>1, <5>2, MakesUpJoined
      <4>3. /\ Joined(c, longer[n + 1]) \in Bar /\ Joined(c, longer[n + 1]).start = c.start
            /\ MakesUp(Joined(c, longer[n + 1]), longer, at \cup {n + 1})
        BY <4>1, <4>a, Zenon
      <4>4. QED
        BY <4>3 DEF at
    <3>4. QED
      BY <1>2, <3>3 DEF d
  <2> HIDE DEF c, d, D
  <2>4. /\ D \in Seq(Bar) /\ Len(D) = N /\ DOMAIN D = 1..N /\ D[N] = d
        /\ \A k \in 1..N : k # N => D[k] = C[k]
    <3>1. Len(agg.closed) + 1 = N
      BY <1>4, <2>1
    <3>2. \A k \in 1..N : k # N => k \in 1..Len(agg.closed)
      BY <1>4, <3>1
    <3>3. \A k \in 1..Len(agg.closed) : D[k] = agg.closed[k] /\ C[k] = agg.closed[k]
      BY <2>1, <2>2, <2>3
    <3>4. D \in Seq(Bar) /\ Len(D) = Len(agg.closed) + 1 /\ D[Len(agg.closed) + 1] = d
      BY <2>1, <2>2, <2>3
    <3>5. QED
      BY <1>4, <3>1, <3>2, <3>3, <3>4
  <2>5. /\ Cardinality(Begins(more)) = N /\ RunOf(more, N) = RunOf(T, N) \cup {n + 1}
        /\ \A k : k # N => RunOf(more, k) = RunOf(T, k)
    BY <1>4, <2>1
  <2>6. ASSUME NEW k \in 1..N
        PROVE  /\ MakesUp(D[k], longer, RunOf(more, k))
               /\ \A i \in RunOf(more, k) : BaseBucket(more, i) = D[k].start
    <3>1. CASE k = N
      <4>1. ASSUME NEW i \in RunOf(T, N) PROVE BaseBucket(more, i) = d.start
        <5>1. i \in 1..n /\ BaseBucket(T, i) = C[N].start
          BY <1>4, <1>6, <3>1
        <5>2. QED
          BY <1>9, <2>1, <2>3, <5>1
      <4>2. d.start = b
        BY <1>11, <2>3 DEF c
      <4>3. QED
        BY <1>10, <2>3, <2>4, <2>5, <3>1, <4>1, <4>2
    <3>2. CASE k # N
      <4>1. D[k] = C[k] /\ RunOf(more, k) = RunOf(T, k) /\ RunOf(T, k) \in SUBSET (1..n)
        BY <1>4, <2>4, <2>5, <3>2
      <4>2. MakesUp(C[k], longer, RunOf(T, k))
        BY <1>1, <1>2, <1>6, <4>1, MakesUpKept
      <4>3. QED
        BY <1>6, <1>9, <4>1, <4>2
    <3>3. QED
      BY <3>1, <3>2
  <2>7. QED
    BY <1>3, <2>4, <2>5, <2>6 DEF BuilderInv, D, more, longer
<1>12. ASSUME agg.current.start # b PROVE BuilderInv(after)
  <2>1. n = 0 \/ b # BaseBucket(T, n)
    BY <1>7, <1>8, <1>12
  <2>2. D = Append(C, x)
    BY <1>3, <1>12
  <2> HIDE DEF D
  <2>3. /\ D \in Seq(Bar) /\ Len(D) = N + 1 /\ DOMAIN D = 1..N + 1 /\ D[N + 1] = x
        /\ \A k \in 1..N : D[k] = C[k]
    BY <1>2, <1>5, <2>2
  <2>4. /\ Cardinality(Begins(more)) = N + 1 /\ RunOf(more, N + 1) = {n + 1}
        /\ \A k \in 1..N : RunOf(more, k) = RunOf(T, k)
    BY <1>4, <2>1
  <2>5. ASSUME NEW k \in 1..N + 1
        PROVE  /\ MakesUp(D[k], longer, RunOf(more, k))
               /\ \A i \in RunOf(more, k) : BaseBucket(more, i) = D[k].start
    <3>1. CASE k = N + 1
      <4>1. MakesUp(x, longer, {n + 1})
        BY <1>1, <1>2, MakesUpAlone
      <4>2. QED
        BY <1>2, <1>10, <2>3, <2>4, <3>1, <4>1
    <3>2. CASE k \in 1..N
      <4>1. D[k] = C[k] /\ RunOf(more, k) = RunOf(T, k) /\ RunOf(T, k) \in SUBSET (1..n)
        BY <1>4, <2>3, <2>4, <3>2
      <4>2. MakesUp(C[k], longer, RunOf(T, k))
        BY <1>1, <1>2, <1>6, <3>2, <4>1, MakesUpKept
      <4>3. QED
        BY <1>6, <1>9, <3>2, <4>1, <4>2
    <3>3. QED
      BY <1>4, <3>1, <3>2
  <2>6. QED
    BY <1>3, <2>3, <2>4, <2>5 DEF BuilderInv, D, more, longer
<1>13. QED
  BY <1>11, <1>12 DEF after

-----------------------------------------------------------------------------
(* The gaps of the history.                                                 *)

\* A candle of the time t is stored.
Has(t) == \E c \in history.stored : c.start = t

NoGap == [open |-> FALSE, gaps |-> <<>>]

\* What the cursor holds: when a gap is open, it is the last.
Cursors == {acc \in [open : BOOLEAN, gaps : Seq(Nat \X Nat)] : acc.open => Len(acc.gaps) > 0}

\* What the cursor makes of one step, by its fields.
LEMMA LookIs ==
  ASSUME NEW acc \in Cursors, NEW t \in Nat
  PROVE  LET n == Len(acc.gaps)
             next == Look(acc, t) IN
         /\ next \in Cursors
         /\ Has(t) => next.open = FALSE /\ next.gaps = acc.gaps
         /\ ~Has(t) => next.open = TRUE
         /\ ~Has(t) /\ acc.open =>
              /\ Len(next.gaps) = n /\ next.gaps[n] = <<acc.gaps[n][1], t>>
              /\ \A i \in 1..n - 1 : next.gaps[i] = acc.gaps[i]
         /\ ~Has(t) /\ ~acc.open =>
              /\ Len(next.gaps) = n + 1 /\ next.gaps[n + 1] = <<t, t>>
              /\ \A i \in 1..n : next.gaps[i] = acc.gaps[i]
<1> DEFINE n == Len(acc.gaps)
           next == Look(acc, t)
<1>1. /\ acc.gaps \in Seq(Nat \X Nat) /\ n \in Nat /\ acc.open \in BOOLEAN
      /\ acc \in [open : BOOLEAN, gaps : Seq(Nat \X Nat)]
  BY DEF Cursors
<1>2. acc.open => n > 0
  BY DEF Cursors
<1>3. CASE Has(t)
  <2>1. next = [acc EXCEPT !.open = FALSE]
    BY <1>3 DEF Has, Look
  <2> DEFINE S == Seq(Nat \X Nat)
  <2> HIDE DEF next, S
  <2>a. acc \in [open : BOOLEAN, gaps : S]
    BY <1>1, Zenon DEF S
  <2>2. next.open = FALSE /\ next.gaps = acc.gaps /\ next \in [open : BOOLEAN, gaps : S]
    BY <2>1, <2>a
  <2>3. QED
    BY <1>3, <2>2 DEF Cursors, S, next
<1>4. CASE ~Has(t) /\ acc.open
  <2>1. next = [acc EXCEPT !.gaps = [acc.gaps EXCEPT ![n] = <<acc.gaps[n][1], t>>]]
    BY <1>4 DEF Has, Look
  <2>2. n \in 1..n /\ acc.gaps[n] \in Nat \X Nat /\ <<acc.gaps[n][1], t>> \in Nat \X Nat
    BY <1>1, <1>2, <1>4
  <2>3. PICK p \in Nat \X Nat : p = <<acc.gaps[n][1], t>>
    BY <2>2
  <2>4. PICK G : G = [acc.gaps EXCEPT ![n] = p]
    OBVIOUS
  <2>5. /\ G \in Seq(Nat \X Nat) /\ Len(G) = n /\ G[n] = p
        /\ \A i \in 1..n - 1 : G[i] = acc.gaps[i]
    BY <1>1, <2>2, <2>4
  <2>6. next.open = TRUE /\ next.gaps = G /\ next \in [open : BOOLEAN, gaps : Seq(Nat \X Nat)]
    <3> DEFINE S == Seq(Nat \X Nat)
    <3>1. next = [acc EXCEPT !.gaps = G]
      BY <2>1, <2>3, <2>4, Zenon
    <3>2. acc \in [open : BOOLEAN, gaps : S] /\ G \in S /\ acc.open = TRUE
      <4>1. acc \in [open : BOOLEAN, gaps : S] /\ G \in S
        BY <1>1, <2>5, Zenon DEF S
      <4>2. acc.open = TRUE
        BY <1>1, <1>4
      <4>3. QED
        BY <4>1, <4>2
    <3> HIDE DEF S, next
    <3>3. next.open = TRUE /\ next.gaps = G /\ next \in [open : BOOLEAN, gaps : S]
      BY <3>1, <3>2
    <3>4. QED
      BY <3>3 DEF S, next
  <2>7. QED
    BY <1>2, <1>4, <2>3, <2>5, <2>6 DEF Cursors
<1>5. CASE ~Has(t) /\ ~acc.open
  <2>1. next = [open |-> TRUE, gaps |-> Append(acc.gaps, <<t, t>>)]
    BY <1>5 DEF Has, Look
  <2>2. PICK G : G = Append(acc.gaps, <<t, t>>)
    OBVIOUS
  <2>3. /\ G \in Seq(Nat \X Nat) /\ Len(G) = n + 1 /\ G[n + 1] = <<t, t>>
        /\ \A i \in 1..n : G[i] = acc.gaps[i]
    BY <1>1, <2>2
  <2>4. QED
    BY <1>1, <1>5, <2>1, <2>2, <2>3 DEF Cursors
<1>6. QED
  BY <1>3, <1>4, <1>5

\* FindGaps as the fold it is defined by.
LEMMA FoldLook ==
  ASSUME NEW m
  PROVE  FoldLeft(Look, NoGap, m) =
           (CHOOSE F : F = [T \in SUBSET DOMAIN m |->
              IF T = {} THEN NoGap ELSE Look(F[T \ {Max(T)}], m[Max(T)])])[DOMAIN m]
  BY Zenon DEF FoldLeft, MapThenFoldSet

\* The cursor goes through the steps one by one.
LEMMA LookSteps ==
  ASSUME NEW m \in Seq(Nat)
  PROVE  \E F : /\ F[{}] = NoGap /\ FoldLeft(Look, NoGap, m) = F[1..Len(m)]
                /\ \A k \in 1..Len(m) : F[1..k] = Look(F[1..(k - 1)], m[k])
<1> DEFINE n == Len(m)
           Q == Cursors
           step == [acc \in Q |-> [t \in Nat |-> Look(acc, t)]]
           F == CHOOSE G : G = [T \in SUBSET DOMAIN m |->
              IF T = {} THEN NoGap ELSE Look(G[T \ {Max(T)}], m[Max(T)])]
<1>1. n \in Nat /\ DOMAIN m = 1..n /\ \A k \in 1..n : m[k] \in Nat
  OBVIOUS
<1>2. \A acc \in Q : \A t \in Nat : step[acc][t] = Look(acc, t)
  BY Zenon
<1>3. FoldLeft(Look, NoGap, m) = F[1..n]
  BY <1>1, FoldLook, Zenon
<1>4. F = CHOOSE G : G = [T \in SUBSET (1..n) |->
              IF T = {} THEN NoGap ELSE Look(G[T \ {Max(T)}], m[Max(T)])]
  BY <1>1, Zenon
<1>a. NoGap \in Q
  BY DEF NoGap, Cursors
<1>b. \A acc \in Q : \A t \in Nat : Look(acc, t) \in Q
  BY LookIs
<1> HIDE DEF n, Q, step, F
<1>5. PICK G : /\ IsFold(G, step, NoGap, m, n)
               /\ \A T \in SUBSET (1..n) : G[T] \in Q
  <2>1. \A acc \in Q : \A t \in Nat : step[acc][t] \in Q
    BY <1>2, <1>b, Zenon
  <2>2. QED
    BY <1>1, <1>a, <2>1, FoldIn, Zenon
<1>6. G = [T \in SUBSET (1..n) |->
             IF T = {} THEN NoGap ELSE Look(G[T \ {Max(T)}], m[Max(T)])]
  <2>1. ASSUME NEW T \in SUBSET (1..n), T # {}
        PROVE  step[G[T \ {Max(T)}]][m[Max(T)]] = Look(G[T \ {Max(T)}], m[Max(T)])
    <3>1. Max(T) \in 1..n /\ T \ {Max(T)} \in SUBSET (1..n)
      BY <1>1, <2>1, MaxOfPositions
    <3>2. G[T \ {Max(T)}] \in Q /\ m[Max(T)] \in Nat
      BY <1>1, <1>5, <3>1
    <3>3. QED
      BY <1>2, <3>2, Zenon
  <2>2. G = [T \in SUBSET (1..n) |->
               IF T = {} THEN NoGap ELSE step[G[T \ {Max(T)}]][m[Max(T)]]]
    BY <1>5, Zenon DEF IsFold
  <2>3. QED
    BY <2>1, <2>2, Zenon
<1>7. F = [T \in SUBSET (1..n) |->
             IF T = {} THEN NoGap ELSE Look(F[T \ {Max(T)}], m[Max(T)])]
  BY <1>4, <1>6, Zenon
<1>8. \A T \in SUBSET (1..n) :
        F[T] = IF T = {} THEN NoGap ELSE Look(F[T \ {Max(T)}], m[Max(T)])
  BY <1>7, Zenon
<1>9. F[{}] = NoGap
  BY <1>8
<1>10. \A k \in 1..n : F[1..k] = Look(F[1..(k - 1)], m[k])
  BY <1>1, <1>8, LastOfFirst, Zenon
<1>11. QED
  BY <1>3, <1>9, <1>10, Zenon DEF n

\* The gaps of the first k steps: they cover what the history misses of them, each ends at
\* one of them, the open one at the last, and a candle lies between any two.
FoundSoFar(acc, m, k) ==
  /\ acc \in Cursors
  /\ acc.open => k > 0 /\ acc.gaps[Len(acc.gaps)][2] = m[k]
  /\ ~acc.open /\ k > 0 => Has(m[k])
  /\ \A i \in 1..Len(acc.gaps) : acc.gaps[i][1] <= acc.gaps[i][2]
  /\ \A i \in 1..Len(acc.gaps) : \E j \in 1..k : acc.gaps[i][2] = m[j]
  /\ \A j \in 1..k : ~Has(m[j]) <=>
       \E i \in 1..Len(acc.gaps) : acc.gaps[i][1] <= m[j] /\ m[j] <= acc.gaps[i][2]
  /\ \A i \in 2..Len(acc.gaps) : \E j \in 1..k :
       Has(m[j]) /\ acc.gaps[i - 1][2] < m[j] /\ m[j] < acc.gaps[i][1]

\* One step more.
LEMMA FoundMore ==
  ASSUME NEW m \in Seq(Nat), \A i, j \in DOMAIN m : i < j => m[i] < m[j],
         NEW k \in 1..Len(m), NEW acc, FoundSoFar(acc, m, k - 1)
  PROVE  FoundSoFar(Look(acc, m[k]), m, k)
<1> DEFINE n == Len(acc.gaps)
           t == m[k]
           next == Look(acc, t)
<1>1. /\ t \in Nat /\ acc \in Cursors /\ n \in Nat /\ k \in Nat /\ k >= 1
      /\ \A j \in 1..k : m[j] \in Nat
      /\ \A j \in 1..k - 1 : m[j] \in Nat /\ m[j] < t
      /\ \A i \in 1..n : acc.gaps[i][1] \in Nat /\ acc.gaps[i][2] \in Nat
  <2>1. acc \in Cursors /\ acc.gaps \in Seq(Nat \X Nat)
    BY DEF FoundSoFar, Cursors
  <2>2. n \in Nat /\ \A i \in 1..n : acc.gaps[i] \in Nat \X Nat
    BY <2>1
  <2>3. /\ k \in Nat /\ k >= 1 /\ k \in DOMAIN m /\ \A j \in 1..k : m[j] \in Nat /\ j \in DOMAIN m
    OBVIOUS
  <2>4. \A j \in 1..k - 1 : j \in 1..k /\ j < k
    BY <2>3
  <2>5. \A j \in 1..k - 1 : m[j] \in Nat /\ m[j] < t
    BY <2>3, <2>4
  <2>6. \A i \in 1..n : acc.gaps[i][1] \in Nat /\ acc.gaps[i][2] \in Nat
    BY <2>2
  <2>7. QED
    BY <2>1, <2>2, <2>3, <2>5, <2>6
<1>2. /\ \A i \in 1..n : acc.gaps[i][1] <= acc.gaps[i][2]
      /\ \A i \in 1..n : \E j \in 1..k - 1 : acc.gaps[i][2] = m[j]
      /\ \A i \in 1..n : acc.gaps[i][2] < t
  BY <1>1 DEF FoundSoFar
<1>3. /\ \A j \in 1..k - 1 : ~Has(m[j]) <=>
           \E i \in 1..n : acc.gaps[i][1] <= m[j] /\ m[j] <= acc.gaps[i][2]
      /\ \A i \in 2..n : \E j \in 1..k - 1 :
           Has(m[j]) /\ acc.gaps[i - 1][2] < m[j] /\ m[j] < acc.gaps[i][1]
  BY DEF FoundSoFar
<1>4. /\ next \in Cursors
      /\ Has(t) => next.open = FALSE /\ next.gaps = acc.gaps
      /\ ~Has(t) => next.open = TRUE
      /\ ~Has(t) /\ acc.open =>
              /\ Len(next.gaps) = n /\ next.gaps[n] = <<acc.gaps[n][1], t>>
              /\ \A i \in 1..n - 1 : next.gaps[i] = acc.gaps[i]
      /\ ~Has(t) /\ ~acc.open =>
              /\ Len(next.gaps) = n + 1 /\ next.gaps[n + 1] = <<t, t>>
              /\ \A i \in 1..n : next.gaps[i] = acc.gaps[i]
  BY <1>1, LookIs
<1>5. acc.open => n > 0 /\ k - 1 > 0 /\ acc.gaps[n][2] = m[k - 1]
  BY DEF FoundSoFar, Cursors
<1>6. ~acc.open /\ k - 1 > 0 => Has(m[k - 1])
  BY DEF FoundSoFar
<1>7. CASE Has(t)
  <2> HIDE DEF next
  <2>1. next.open = FALSE /\ next.gaps = acc.gaps
    BY <1>4, <1>7
  <2>2. \A j \in 1..k : ~Has(m[j]) <=>
          \E i \in 1..n : acc.gaps[i][1] <= m[j] /\ m[j] <= acc.gaps[i][2]
    <3>1. ~\E i \in 1..n : acc.gaps[i][1] <= t /\ t <= acc.gaps[i][2]
      <4>1. SUFFICES ASSUME NEW i \in 1..n, t <= acc.gaps[i][2] PROVE FALSE
        OBVIOUS
      <4>2. acc.gaps[i][2] \in Nat /\ acc.gaps[i][2] < t /\ t \in Nat
        BY <1>1, <1>2
      <4> HIDE DEF t
      <4>3. QED
        BY <4>1, <4>2
    <3>2. \A j \in 1..k : j \in 1..k - 1 \/ j = k
      BY <1>1
    <3>3. QED
      BY <1>3, <1>7, <3>1, <3>2, Zenon
  <2>3. \A j \in 1..k - 1 : j \in 1..k
    BY <1>1
  <2>4. /\ \A i \in 1..n : \E j \in 1..k : acc.gaps[i][2] = m[j]
        /\ \A i \in 2..n : \E j \in 1..k :
             Has(m[j]) /\ acc.gaps[i - 1][2] < m[j] /\ m[j] < acc.gaps[i][1]
    BY <1>2, <1>3, <2>3, Zenon
  <2>5. QED
    <3>1. /\ next \in Cursors /\ ~next.open /\ Len(next.gaps) = n
          /\ \A i \in 1..n : acc.gaps[i][1] <= acc.gaps[i][2]
      BY <1>2, <1>4, <2>1
    <3>2. FoundSoFar(next, m, k)
      <4>1. \A j \in 1..k : ~Has(m[j]) <=> \E i \in 1..Len(next.gaps) :
              next.gaps[i][1] <= m[j] /\ m[j] <= next.gaps[i][2]
        BY <2>1, <2>2, <3>1, Zenon
      <4>2. /\ \A i \in 1..Len(next.gaps) : next.gaps[i][1] <= next.gaps[i][2]
            /\ \A i \in 1..Len(next.gaps) : \E j \in 1..k : next.gaps[i][2] = m[j]
            /\ \A i \in 2..Len(next.gaps) : \E j \in 1..k :
                 Has(m[j]) /\ next.gaps[i - 1][2] < m[j] /\ m[j] < next.gaps[i][1]
        BY <2>1, <2>4, <3>1, Zenon
      <4>3. QED
        BY <1>7, <3>1, <4>1, <4>2, Zenon DEF FoundSoFar
    <3>3. QED
      BY <3>2 DEF next
<1>8. CASE ~Has(t) /\ acc.open
  <2> HIDE DEF next
  <2>1. /\ next.open = TRUE /\ Len(next.gaps) = n /\ n \in 1..n
        /\ next.gaps[n] = <<acc.gaps[n][1], t>>
        /\ \A i \in 1..n - 1 : next.gaps[i] = acc.gaps[i]
    BY <1>1, <1>4, <1>5, <1>8
  <2>2. next.gaps[n][1] = acc.gaps[n][1] /\ next.gaps[n][2] = t
    BY <2>1
  <2>3. acc.gaps[n][1] <= acc.gaps[n][2] /\ acc.gaps[n][2] = m[k - 1] /\ k - 1 \in 1..k - 1
    <3>1. acc.gaps[n][1] <= acc.gaps[n][2]
      BY <1>2, <2>1
    <3>2. acc.gaps[n][2] = m[k - 1] /\ k - 1 > 0
      BY <1>5, <1>8
    <3>3. QED
      BY <1>1, <3>1, <3>2
  <2>a. \A i \in 1..n : i = n \/ i \in 1..n - 1
    BY <1>1
  <2>b. next.gaps[n][1] <= next.gaps[n][2] /\ acc.gaps[n][1] <= t
    <3>1. acc.gaps[n][1] \in Nat /\ acc.gaps[n][2] \in Nat /\ acc.gaps[n][2] < t /\ t \in Nat
      BY <1>1, <1>2, <2>1
    <3>2. QED
      BY <2>2, <2>3, <3>1
  <2>4. \A i \in 1..n : next.gaps[i][1] <= next.gaps[i][2]
    BY <1>2, <2>1, <2>a, <2>b, Zenon
  <2>5. \A i \in 1..n : \E j \in 1..k : next.gaps[i][2] = m[j]
    <3>1. ASSUME NEW i \in 1..n PROVE \E j \in 1..k : next.gaps[i][2] = m[j]
      <4>1. CASE i = n
        BY <1>1, <2>2, <4>1
      <4>2. CASE i # n
        <5>1. PICK j \in 1..k - 1 : acc.gaps[i][2] = m[j]
          BY <1>2
        <5>2. j \in 1..k /\ i \in 1..n - 1
          BY <1>1, <4>2
        <5>3. QED
          BY <2>1, <5>1, <5>2
      <4>3. QED
        BY <4>1, <4>2
    <3>2. QED
      BY <3>1
  <2>6. ASSUME NEW j \in 1..k
        PROVE  ~Has(m[j]) <=>
                 \E i \in 1..n : next.gaps[i][1] <= m[j] /\ m[j] <= next.gaps[i][2]
    <3>1. CASE j = k
      <4>1. next.gaps[n][1] <= m[j] /\ m[j] <= next.gaps[n][2]
        BY <1>1, <2>2, <2>b, <3>1
      <4>2. QED
        BY <1>8, <2>1, <3>1, <4>1
    <3>2. CASE j # k
      <4>1. j \in 1..k - 1 /\ m[j] <= m[k - 1] /\ m[j] < t /\ m[j] \in Nat
        <5>1. j \in 1..k - 1
          BY <1>1, <3>2
        <5>2. j \in DOMAIN m /\ k - 1 \in DOMAIN m /\ (j < k - 1 \/ j = k - 1)
          BY <1>1, <5>1
        <5>3. m[j] < m[k - 1] \/ m[j] = m[k - 1]
          BY <5>2
        <5>4. m[j] \in Nat /\ m[k - 1] \in Nat /\ m[j] < t
          BY <1>1, <2>3, <5>1
        <5>5. QED
          BY <5>1, <5>3, <5>4
      <4>2. \A i \in 1..n : /\ next.gaps[i][1] <= m[j] <=> acc.gaps[i][1] <= m[j]
                            /\ m[j] <= next.gaps[i][2] <=> m[j] <= acc.gaps[i][2]
        <5>1. ASSUME NEW i \in 1..n
              PROVE  /\ next.gaps[i][1] <= m[j] <=> acc.gaps[i][1] <= m[j]
                     /\ m[j] <= next.gaps[i][2] <=> m[j] <= acc.gaps[i][2]
          <6>1. CASE i = n
            BY <1>1, <2>2, <2>3, <4>1, <6>1
          <6>2. CASE i # n
            BY <2>1, <2>a, <6>2
          <6>3. QED
            BY <6>1, <6>2
        <5>2. QED
          BY <5>1
      <4>3. QED
        BY <1>3, <4>1, <4>2, Zenon
    <3>3. QED
      BY <3>1, <3>2
  <2>7. ASSUME NEW i \in 2..n
        PROVE  \E j \in 1..k :
                 Has(m[j]) /\ next.gaps[i - 1][2] < m[j] /\ m[j] < next.gaps[i][1]
    <3>1. PICK j \in 1..k - 1 :
            Has(m[j]) /\ acc.gaps[i - 1][2] < m[j] /\ m[j] < acc.gaps[i][1]
      BY <1>3
    <3>2. j \in 1..k /\ i - 1 \in 1..n - 1 /\ (i = n \/ i \in 1..n - 1)
      BY <1>1
    <3>3. next.gaps[i - 1] = acc.gaps[i - 1] /\ next.gaps[i][1] = acc.gaps[i][1]
      BY <2>1, <2>2, <3>2
    <3>4. QED
      BY <3>1, <3>2, <3>3
  <2>8. FoundSoFar(next, m, k)
    <3>1. next \in Cursors /\ k > 0 /\ next.gaps[Len(next.gaps)][2] = m[k]
      BY <1>1, <1>4, <2>1, <2>2
    <3>2. \A i \in 1..Len(next.gaps) : /\ next.gaps[i][1] <= next.gaps[i][2]
                                       /\ \E j \in 1..k : next.gaps[i][2] = m[j]
      BY <2>1, <2>4, <2>5
    <3>3. \A j \in 1..k : ~Has(m[j]) <=>
            \E i \in 1..Len(next.gaps) : next.gaps[i][1] <= m[j] /\ m[j] <= next.gaps[i][2]
      BY <2>1, <2>6
    <3>4. \A i \in 2..Len(next.gaps) : \E j \in 1..k :
            Has(m[j]) /\ next.gaps[i - 1][2] < m[j] /\ m[j] < next.gaps[i][1]
      BY <2>1, <2>7
    <3>5. QED
      BY <2>1, <3>1, <3>2, <3>3, <3>4, Zenon DEF FoundSoFar
  <2>9. QED
    BY <2>8 DEF next
<1>9. CASE ~Has(t) /\ ~acc.open
  <2> HIDE DEF next
  <2>1. /\ next.open = TRUE /\ Len(next.gaps) = n + 1
        /\ next.gaps[n + 1] = <<t, t>>
        /\ \A i \in 1..n : next.gaps[i] = acc.gaps[i]
    BY <1>4, <1>9
  <2>2. next.gaps[n + 1][1] = t /\ next.gaps[n + 1][2] = t
    BY <2>1
  <2>3. \A i \in 1..n + 1 : i \in 1..n \/ i = n + 1
    BY <1>1
  <2>4. \A i \in 1..n + 1 : next.gaps[i][1] <= next.gaps[i][2]
    <3>1. next.gaps[n + 1][1] <= next.gaps[n + 1][2]
      BY <1>1, <2>2
    <3>2. QED
      BY <1>2, <2>1, <2>3, <3>1, Zenon
  <2>5. \A i \in 1..n + 1 : \E j \in 1..k : next.gaps[i][2] = m[j]
    <3>1. k \in 1..k /\ \A j \in 1..k - 1 : j \in 1..k
      BY <1>1
    <3>2. \A i \in 1..n : \E j \in 1..k : next.gaps[i][2] = m[j]
      <4>1. \A i \in 1..n : \E j \in 1..k : acc.gaps[i][2] = m[j]
        BY <1>2, <3>1, Zenon
      <4>2. QED
        BY <2>1, <4>1, Zenon
    <3>3. QED
      BY <2>2, <2>3, <3>1, <3>2, Zenon
  <2>6. ASSUME NEW j \in 1..k
        PROVE  ~Has(m[j]) <=>
                 \E i \in 1..n + 1 : next.gaps[i][1] <= m[j] /\ m[j] <= next.gaps[i][2]
    <3>1. n + 1 \in 1..n + 1 /\ \A i \in 1..n : i \in 1..n + 1
      BY <1>1
    <3>2. CASE j = k
      <4>1. next.gaps[n + 1][1] <= m[j] /\ m[j] <= next.gaps[n + 1][2]
        BY <1>1, <2>2, <3>2
      <4>2. QED
        BY <1>9, <3>1, <3>2, <4>1
    <3>3. CASE j # k
      <4>1. j \in 1..k - 1 /\ ~(next.gaps[n + 1][1] <= m[j])
        BY <1>1, <2>2, <3>3
      <4>2. QED
        BY <1>3, <2>1, <2>3, <3>1, <4>1, Zenon
    <3>4. QED
      BY <3>2, <3>3
  <2>7. ASSUME NEW i \in 2..n + 1
        PROVE  \E j \in 1..k :
                 Has(m[j]) /\ next.gaps[i - 1][2] < m[j] /\ m[j] < next.gaps[i][1]
    <3>1. CASE i = n + 1
      <4>1. n \in 1..n /\ i - 1 = n
        BY <1>1, <3>1
      <4>2. PICK j \in 1..k - 1 : acc.gaps[n][2] = m[j]
        BY <1>2, <4>1
      <4>3. k - 1 > 0 /\ k - 1 \in 1..k - 1 /\ Has(m[k - 1])
        <5>1. j \in Int /\ 1 <= j /\ j <= k - 1 /\ k \in Nat
          BY <1>1, <4>2
        <5>2. k - 1 > 0 /\ k - 1 \in 1..k - 1
          BY <5>1
        <5>3. QED
          BY <1>6, <1>9, <5>2
      <4>4. j # k - 1
        <5>1. SUFFICES ASSUME j = k - 1 PROVE FALSE
          OBVIOUS
        <5>2. acc.gaps[n][1] <= m[k - 1] /\ m[k - 1] <= acc.gaps[n][2]
          <6>1. /\ acc.gaps[n][1] <= acc.gaps[n][2]
                /\ acc.gaps[n][1] \in Nat /\ acc.gaps[n][2] \in Nat
            BY <1>1, <1>2, <4>1
          <6>2. acc.gaps[n][2] = m[k - 1]
            BY <4>2, <5>1
          <6>3. QED
            BY <6>1, <6>2
        <5>3. QED
          BY <1>3, <4>1, <4>3, <5>2, Zenon
      <4>5. m[j] < m[k - 1] /\ m[k - 1] < t
        <5>1. j \in DOMAIN m /\ k - 1 \in DOMAIN m /\ j < k - 1
          BY <1>1, <4>2, <4>3, <4>4
        <5>2. QED
          BY <1>1, <4>3, <5>1
      <4>6. k - 1 \in 1..k
        BY <1>1, <4>3
      <4>7. QED
        <5>1. next.gaps[i - 1][2] = m[j] /\ next.gaps[i][1] = t
          BY <2>1, <2>2, <3>1, <4>1, <4>2
        <5>2. QED
          BY <4>3, <4>5, <4>6, <5>1, Zenon
    <3>2. CASE i # n + 1
      <4>1. i \in 2..n /\ i - 1 \in 1..n /\ i \in 1..n
        <5>1. n \in Nat
          BY <1>1
        <5>2. i \in Int /\ 2 <= i /\ i <= n + 1
          BY <5>1
        <5> HIDE DEF n
        <5>3. i <= n
          BY <3>2, <5>1, <5>2
        <5>4. QED
          BY <5>1, <5>2, <5>3
      <4>2. PICK j \in 1..k - 1 :
              Has(m[j]) /\ acc.gaps[i - 1][2] < m[j] /\ m[j] < acc.gaps[i][1]
        BY <1>3, <4>1
      <4>3. j \in 1..k
        BY <1>1
      <4>4. QED
        BY <2>1, <4>1, <4>2, <4>3
    <3>3. QED
      BY <3>1, <3>2
  <2>8. QED
    BY <1>1, <1>4, <1>9, <2>1, <2>2, <2>4, <2>5, <2>6, <2>7 DEF FoundSoFar, next
<1>10. QED
  BY <1>7, <1>8, <1>9

\* What the cursor finds in steps that go up.
LEMMA GapsFound ==
  ASSUME NEW m \in Seq(Nat), \A i, j \in DOMAIN m : i < j => m[i] < m[j]
  PROVE  FoundSoFar(FoldLeft(Look, NoGap, m), m, Len(m))
<1> DEFINE n == Len(m)
<1>1. n \in Nat
  OBVIOUS
<1>2. PICK F : /\ F[{}] = NoGap /\ FoldLeft(Look, NoGap, m) = F[1..n]
               /\ \A k \in 1..n : F[1..k] = Look(F[1..(k - 1)], m[k])
  BY LookSteps
<1> DEFINE Bad == {k \in Nat : k <= n /\ ~FoundSoFar(F[1..k], m, k)}
<1>3. Bad = {}
  <2>1. SUFFICES ASSUME Bad # {} PROVE FALSE
    OBVIOUS
  <2>2. PICK k \in Bad : \A l \in Bad : k <= l
    <3>1. Bad \subseteq Nat
      OBVIOUS
    <3> HIDE DEF Bad
    <3>2. QED
      BY <2>1, <3>1, LeastNumber
  <2>3. CASE k = 0
    <3>1. 1..k = {}
      BY <2>3
    <3>2. F[1..k] = NoGap
      BY <1>2, <3>1
    <3>3. FoundSoFar(NoGap, m, 0)
      BY DEF FoundSoFar, NoGap, Cursors
    <3>4. QED
      BY <2>2, <2>3, <3>2, <3>3
  <2>4. CASE k # 0
    <3>1. k \in 1..n /\ k - 1 \in Nat /\ k - 1 <= n /\ k - 1 \notin Bad
      <4>1. k \in Nat /\ k <= n
        BY <2>2
      <4> HIDE DEF Bad
      <4>2. QED
        BY <1>1, <2>2, <2>4, <4>1
    <3>2. FoundSoFar(F[1..(k - 1)], m, k - 1)
      BY <3>1
    <3>3. FoundSoFar(Look(F[1..(k - 1)], m[k]), m, k)
      BY <3>1, <3>2, FoundMore
    <3>4. QED
      BY <1>2, <2>2, <3>1, <3>3
  <2>5. QED
    BY <2>3, <2>4
<1>4. FoundSoFar(F[1..n], m, n)
  BY <1>1, <1>3
<1>5. QED
  BY <1>2, <1>4

\* The steps of the cursor in an interval.
StepsOf(from, to, f) == [k \in 1..((to - from) \div f + 1) |-> from + (k - 1) * f]

\* The steps of the cursor go up, and every multiple of the frame in the interval is one.
LEMMA CursorSteps ==
  ASSUME NEW f \in Nat \ {0}, NEW from \in Nat, NEW to \in Nat, from <= to, from % f = 0
  PROVE  LET m == StepsOf(from, to, f) IN
         /\ m \in Seq(Nat) /\ \A i, j \in DOMAIN m : i < j => m[i] < m[j]
         /\ \A t \in from..to : t % f = 0 => \E j \in 1..Len(m) : m[j] = t
<1> DEFINE d == to - from
           q == d \div f
           n == q + 1
           m == [k \in 1..n |-> from + (k - 1) * f]
<1>1. d \in Nat
  OBVIOUS
<1> HIDE DEF d
<1>2. q \in Nat /\ d % f \in 0..f - 1 /\ d = (f * q) + (d % f)
  BY <1>1
<1>3. n \in Nat /\ n >= 1
  BY <1>2
<1> HIDE DEF q
<1>4. \A k \in 1..n : m[k] = from + (k - 1) * f
  BY Zenon
<1>5. ASSUME NEW k \in 1..n PROVE m[k] \in Nat /\ k - 1 \in Nat /\ (k - 1) * f \in Nat
  <2>1. k - 1 \in Nat /\ 0 \in Nat
    BY <1>3
  <2>2. k \in Nat /\ k - 1 < k /\ f \in Nat
    BY <1>3
  <2>3. (k - 1) * f \in Nat
    BY <2>1, <2>2, Products
  <2>4. QED
    BY <1>4, <2>1, <2>3
<1>6. m \in Seq(Nat) /\ Len(m) = n /\ DOMAIN m = 1..n
  <2>1. m = [k \in 1..n |-> m[k]]
    BY Zenon
  <2> HIDE DEF m
  <2>2. QED
    <3>1. n \in Nat /\ \A k \in 1..n : m[k] \in Nat
      BY <1>3, <1>5
    <3>2. m \in [1..n -> Nat]
      BY <2>1, <3>1, Zenon
    <3> HIDE DEF n
    <3>3. QED
      BY <3>1, <3>2
<1>7. ASSUME NEW i \in 1..n, NEW j \in 1..n, i < j PROVE m[i] < m[j]
  <2>1. i - 1 \in Nat /\ j - 1 \in Nat /\ i - 1 < j - 1 /\ f \in Nat /\ f >= 1
    BY <1>3, <1>7
  <2> DEFINE a == (i - 1) * f
             b == (j - 1) * f
  <2>2. a + f <= b /\ a \in Nat /\ b \in Nat
    BY <2>1, Products
  <2>3. m[i] = from + a /\ m[j] = from + b
    BY <1>4, <1>7
  <2> HIDE DEF a, b, m
  <2>4. QED
    BY <2>1, <2>2, <2>3
<1>8. ASSUME NEW t \in from..to, t % f = 0 PROVE \E j \in 1..n : m[j] = t
  <2> DEFINE e == t \div f
             g == from \div f
  <2>1. /\ t \in Nat /\ t % f \in 0..f - 1 /\ e \in Nat /\ g \in Nat
        /\ t = (f * e) + (t % f) /\ from = (f * g) + (from % f)
    OBVIOUS
  <2>2. t = (f * e) + 0 /\ from = (f * g) + 0
    BY <1>8, <2>1
  <2> HIDE DEF e, g
  <2>3. f * e = e * f /\ f * g = g * f /\ f * q = q * f /\ f \in Nat
    BY <1>2, <2>1
  <2>4. t = e * f /\ from = g * f /\ e * f \in Nat /\ g * f \in Nat
    <3> DEFINE x == f * e
               y == f * g
               z == e * f
               w == g * f
    <3>1. x = z /\ y = w /\ t = x + 0 /\ from = y + 0 /\ t \in Nat
      BY <2>1, <2>2, <2>3
    <3>2. z \in Nat /\ w \in Nat
      <4>1. e + 1 \in Nat /\ e < e + 1 /\ g + 1 \in Nat /\ g < g + 1
        BY <2>1
      <4>2. QED
        BY <2>1, <2>3, <4>1, Products
    <3> HIDE DEF x, y, z, w
    <3>3. t = z /\ from = w
      BY <3>1, <3>2
    <3>4. QED
      BY <3>2, <3>3 DEF z, w
  <2>5. g <= e
    <3>1. SUFFICES ASSUME e < g PROVE FALSE
      BY <2>1
    <3>2. e * f + f <= g * f
      BY <2>1, <2>3, <3>1, Products
    <3>3. t + f <= from /\ t \in Int /\ from <= t
      BY <2>4, <3>2
    <3>4. f > 0 /\ f \in Int
      OBVIOUS
    <3>5. QED
      BY <3>3, <3>4
  <2>6. PICK h \in Nat : h = e - g /\ e = g + h
    BY <2>1, <2>5
  <2>7. h * f = t - from /\ h * f \in Nat
    <3>1. (g + h) * f = g * f + h * f
      BY <2>1, <2>6
    <3>2. h * f \in Nat
      BY <2>6
    <3> DEFINE x == h * f
               y == g * f
    <3>3. t = y + x /\ from = y /\ x \in Nat
      BY <2>4, <2>6, <3>1, <3>2
    <3> HIDE DEF x, y
    <3>4. x = t - from
      BY <2>1, <3>3
    <3>5. QED
      BY <3>3, <3>4 DEF x
  <2>8. h <= q
    <3>1. SUFFICES ASSUME q < h PROVE FALSE
      BY <1>2, <2>6
    <3>2. q * f + f <= h * f /\ q * f \in Nat
      BY <1>2, <2>3, <2>6, <3>1, Products
    <3> DEFINE x == q * f
               y == h * f
               r == d % f
    <3>3. /\ x + f <= y /\ y = t - from /\ d = x + r /\ r \in 0..f - 1 /\ x \in Nat
          /\ t <= to /\ d = to - from /\ t \in Nat
      BY <1>2, <2>1, <2>3, <2>7, <3>2 DEF d
    <3> HIDE DEF x, y, r
    <3>4. QED
      BY <2>3, <3>3
  <2>9. h + 1 \in 1..n /\ (h + 1) - 1 = h
    BY <1>3, <2>6, <2>8, <1>2
  <2>10. m[h + 1] = from + h * f
    BY <1>4, <2>9
  <2>11. m[h + 1] = t
    BY <2>1, <2>7, <2>10
  <2>12. QED
    BY <2>9, <2>11
<1>9. QED
  <2>1. StepsOf(from, to, f) = m
    BY Zenon DEF StepsOf, d, q
  <2> HIDE DEF m
  <2>2. QED
    BY <1>6, <1>7, <1>8, <2>1

\* The gaps found in an interval cover what the history misses of it, and no more.
LEMMA GapsOfHistory ==
  ASSUME NEW from \in Nat, NEW to \in Nat, from <= to, from % BaseFrame = 0,
         NEW steps, steps \subseteq from..to, \A t \in steps : t % BaseFrame = 0
  PROVE  LET has == {c.start : c \in history.stored}
             gaps == FindGaps(from, to) IN
         /\ (UNION {gap[1]..gap[2] : gap \in ToSet(gaps)}) \cap steps = steps \ has
         /\ \A n \in 2..Len(gaps) : \E t \in has : gaps[n-1][2] < t /\ t < gaps[n][1]
<1> DEFINE has == {c.start : c \in history.stored}
           m == StepsOf(from, to, BaseFrame)
           acc == FoldLeft(Look, NoGap, m)
           gaps == acc.gaps
<1>1. /\ m \in Seq(Nat) /\ \A i, j \in DOMAIN m : i < j => m[i] < m[j]
      /\ \A t \in from..to : t % BaseFrame = 0 => \E j \in 1..Len(m) : m[j] = t
  BY BaseIs, CursorSteps
<1>2. FindGaps(from, to) = gaps
  BY Zenon DEF FindGaps, NoGap, StepsOf
<1>3. \A t : Has(t) <=> t \in has
  BY Zenon DEF Has
<1> HIDE DEF m, has
<1>4. FoundSoFar(acc, m, Len(m))
  BY <1>1, GapsFound
<1> HIDE DEF acc
<1>5. /\ gaps \in Seq(Nat \X Nat)
      /\ \A j \in 1..Len(m) : ~Has(m[j]) <=>
           \E i \in 1..Len(gaps) : gaps[i][1] <= m[j] /\ m[j] <= gaps[i][2]
      /\ \A i \in 2..Len(gaps) : \E j \in 1..Len(m) :
           Has(m[j]) /\ gaps[i - 1][2] < m[j] /\ m[j] < gaps[i][1]
  BY <1>4 DEF FoundSoFar, Cursors
<1>6. ToSet(gaps) = {gaps[i] : i \in 1..Len(gaps)}
  BY <1>5 DEF ToSet
<1>7. ASSUME NEW t \in steps
      PROVE  (\E gap \in ToSet(gaps) : t \in gap[1]..gap[2]) <=> t \notin has
  <2>1. PICK j \in 1..Len(m) : m[j] = t
    BY <1>1
  <2>2. t \in Int /\ \A i \in 1..Len(gaps) : gaps[i] \in Nat \X Nat
    BY <1>5
  <2>3. \A i \in 1..Len(gaps) : gaps[i][1] \in Nat /\ gaps[i][2] \in Nat
    BY <2>2
  <2>4. \A i \in 1..Len(gaps) :
          t \in gaps[i][1]..gaps[i][2] <=> gaps[i][1] <= t /\ t <= gaps[i][2]
    BY <2>2, <2>3
  <2>5. t \notin has <=> \E i \in 1..Len(gaps) : gaps[i][1] <= t /\ t <= gaps[i][2]
    BY <1>3, <1>5, <2>1, Zenon
  <2>6. QED
    BY <1>6, <2>4, <2>5, Zenon
<1>8. (UNION {gap[1]..gap[2] : gap \in ToSet(gaps)}) \cap steps = steps \ has
  <2>1. \A t \in steps : t \in UNION {gap[1]..gap[2] : gap \in ToSet(gaps)} <=> t \notin has
    BY <1>7, Zenon
  <2>2. \A U : (\A t \in steps : t \in U <=> t \notin has) => U \cap steps = steps \ has
    OBVIOUS
  <2>3. QED
    BY <2>1, <2>2, Zenon
<1>9. \A n \in 2..Len(gaps) : \E t \in has : gaps[n-1][2] < t /\ t < gaps[n][1]
  BY <1>3, <1>5, Zenon
<1>10. QED
  BY <1>2, <1>8, <1>9, Zenon DEF has

-----------------------------------------------------------------------------
(* The invariant.                                                           *)

\* The history keeps one candle for a time, none of them newer than its last.
HistoryInv ==
  /\ history.latest \in Int
  /\ \A c \in history.stored : c.start \in Int /\ c.start <= history.latest
  /\ \A c, d \in history.stored : c.start = d.start => c = d

\* Every maker's candles are those of its ticks, and the history is in order.
CandlesInv ==
  /\ FrameInv(canonical, BaseFrame)
  /\ byFrame = [last |-> byFrame.last, of |-> [f \in Frames |-> byFrame.of[f]]]
  /\ \A f \in Frames : FrameInv(byFrame.of[f], f)
  /\ BuilderInv(builder)
  /\ HistoryInv

\* A frame is a positive number.
LEMMA FramesAre == \A f \in Frames : f \in Nat \ {0}
BY BaseIs DEF Frames

\* The invariant is what the property says.
LEMMA CandlesShown == CandlesInv => CandlesAreTheirTicks
<1> SUFFICES ASSUME CandlesInv PROVE CandlesAreTheirTicks
  OBVIOUS
<1>1. GapsAreWhatIsMissing
  <2> DEFINE has == {c.start : c \in history.stored}
             begins == {t \in Times : t % BaseFrame = 0}
  <2>1. \A c, d \in history.stored : c.start = d.start => c = d
    BY DEF CandlesInv, HistoryInv
  <2>2. ASSUME NEW from \in begins, NEW to \in {t \in begins : from <= t}
        PROVE  LET steps == begins \cap (from..to)
                   gaps == FindGaps(from, to) IN
               /\ (UNION {gap[1]..gap[2] : gap \in ToSet(gaps)}) \cap steps = steps \ has
               /\ \A n \in 2..Len(gaps) : \E t \in has : gaps[n-1][2] < t /\ t < gaps[n][1]
    <3> DEFINE steps == begins \cap (from..to)
    <3>1. from \in Nat /\ to \in Nat /\ from <= to /\ from % BaseFrame = 0
      BY CandleAssumption
    <3>2. steps \subseteq from..to /\ \A t \in steps : t % BaseFrame = 0
      OBVIOUS
    <3> HIDE DEF steps
    <3>3. /\ (UNION {gap[1]..gap[2] : gap \in ToSet(FindGaps(from, to))}) \cap steps
               = steps \ has
          /\ \A n \in 2..Len(FindGaps(from, to)) : \E t \in has :
               FindGaps(from, to)[n-1][2] < t /\ t < FindGaps(from, to)[n][1]
      BY <3>1, <3>2, GapsOfHistory
    <3>4. QED
      BY <3>3 DEF steps
  <2>3. QED
    BY <2>1, <2>2, Zenon DEF GapsAreWhatIsMissing
<1>2. /\ AllCandles(canonical) = Aggregate(AsCandles(canonical.taken, BaseFrame), BaseFrame)
      /\ Aggregate(AllCandles(canonical), WideFrame) =
           Aggregate(AsCandles(canonical.taken, WideFrame), WideFrame)
  BY BaseIs, FrameGroups DEF CandlesInv
<1>3. ASSUME NEW f \in Frames
      PROVE  AllCandles(byFrame.of[f]) = Aggregate(AsCandles(byFrame.of[f].taken, f), f)
  BY FramesAre, FrameGroups DEF CandlesInv
<1>4. AllCandles(builder) = Runs(builder.taken)
  BY BuilderRuns DEF CandlesInv
<1>5. QED
  BY <1>1, <1>2, <1>3, <1>4, Zenon DEF CandlesAreTheirTicks

\* Nothing yet is made of no ticks.
LEMMA CandlesStart == CandlesInit => CandlesInv
<1> SUFFICES ASSUME CandlesInit PROVE CandlesInv
  OBVIOUS
<1>1. canonical = Nothing /\ builder = Nothing
  BY DEF CandlesInit
<1>2. byFrame.last = -1 /\ \A f \in Frames : byFrame.of[f] = Nothing
  BY DEF CandlesInit
<1>3. byFrame = [last |-> byFrame.last, of |-> [f \in Frames |-> byFrame.of[f]]]
  BY DEF CandlesInit
<1>4. HistoryInv
  BY DEF CandlesInit, HistoryInv
<1>5. \A f : FrameInv(Nothing, f)
  BY FrameStarts
<1>6. QED
  BY <1>1, <1>2, <1>3, <1>4, <1>5, BuilderStarts DEF CandlesInv

\* A candle put into the history is newer than all it keeps.
LEMMA PutKeeps ==
  ASSUME HistoryInv, NEW c, c.start \in Int, history' = Put(c) PROVE HistoryInv'
<1>1. CASE c.start <= history.latest
  BY <1>1 DEF Put, HistoryInv
<1>2. CASE ~(c.start <= history.latest)
  <2>1. history'.stored = history.stored \cup {c} /\ history'.latest = c.start
    BY <1>2 DEF Put
  <2>2. history.latest \in Int /\ history.latest < c.start
    BY <1>2 DEF HistoryInv
  <2>3. \A e \in history.stored : e.start \in Int /\ e.start < c.start
    BY <2>2 DEF HistoryInv
  <2>4. \A e \in history'.stored : e = c \/ e \in history.stored
    BY <2>1
  <2>5. \A e \in history'.stored : e.start \in Int /\ e.start <= history'.latest
    BY <2>1, <2>3, <2>4
  <2>6. ASSUME NEW e \in history'.stored, NEW d \in history'.stored, e.start = d.start
        PROVE  e = d
    <3>1. CASE e = c /\ d = c
      BY <3>1
    <3>2. CASE e = c /\ d \in history.stored
      BY <2>3, <2>6, <3>2
    <3>3. CASE d = c /\ e \in history.stored
      BY <2>3, <2>6, <3>3
    <3>4. CASE d \in history.stored /\ e \in history.stored
      BY <2>6, <3>4 DEF HistoryInv
    <3>5. QED
      BY <2>4, <3>1, <3>2, <3>3, <3>4
  <2>7. QED
    BY <2>1, <2>5, <2>6 DEF HistoryInv
<1>3. QED
  BY <1>1, <1>2

\* A history that stays keeps it.
LEMMA HistoryKept == ASSUME HistoryInv, history' = history PROVE HistoryInv'
BY DEF HistoryInv

\* What a tick closes is a candle.
LEMMA LastClosed ==
  ASSUME NEW agg, Kept(agg), NEW tick \in CandleTick, Update(agg, tick).closed # agg.closed
  PROVE  Last(Update(agg, tick).closed).start \in Int
<1>1. /\ Update(agg, tick) = Advance(agg, tick, BaseFrame)
      /\ Update(agg, tick).closed = Append(agg.closed, agg.current)
      /\ agg.current # NoCandle
  BY DEF Update, Advance
<1>2. agg.closed \in Seq(Bar) /\ agg.current \in Bar
  BY <1>1 DEF Kept
<1>3. Last(Update(agg, tick).closed) = agg.current
  BY <1>1, <1>2 DEF Last
<1>4. QED
  BY <1>2, <1>3 DEF Bar

\* One tick, late or not, for all makers.
LEMMA TickMeets ==
  ASSUME CandlesInv, NEW tick \in CandleTick, NEW f \in Frames, TickArrives(tick, f)
  PROVE  CandlesInv'
<1>1. /\ canonical' = Update(canonical, tick) /\ byFrame' = Ingest(tick, f)
      /\ builder' = Advance(builder, tick, BaseFrame)
      /\ history' = IF Update(canonical, tick).closed = canonical.closed THEN history
                    ELSE Put(Last(Update(canonical, tick).closed))
  BY DEF TickArrives
<1>2. FrameInv(Update(canonical, tick), BaseFrame)
  <2>1. CASE Late(canonical, tick, BaseFrame)
    BY <2>1 DEF Update, CandlesInv
  <2>2. CASE ~Late(canonical, tick, BaseFrame)
    BY <2>2, BaseIs, FrameAdvances DEF Update, CandlesInv
  <2>3. QED
    BY <2>1, <2>2
<1>3. FrameInv(canonical, BaseFrame)'
  BY <1>1, <1>2 DEF FrameInv, Kept, Groups, AllCandles, AsCandles, InOrder
<1>4. BuilderInv(Advance(builder, tick, BaseFrame))
  BY BuilderAdvances DEF CandlesInv
<1>5. BuilderInv(builder)'
  BY <1>1, <1>4 DEF BuilderInv
<1>6. HistoryInv'
  <2>1. HistoryInv /\ Kept(canonical)
    BY DEF CandlesInv, FrameInv
  <2>2. CASE Update(canonical, tick).closed = canonical.closed
    BY <1>1, <2>1, <2>2, HistoryKept
  <2>3. CASE Update(canonical, tick).closed # canonical.closed
    <3>1. Last(Update(canonical, tick).closed).start \in Int
      BY <2>1, <2>3, LastClosed
    <3>2. QED
      BY <1>1, <2>1, <2>3, <3>1, PutKeeps
  <2>4. QED
    BY <2>2, <2>3
<1>7. /\ byFrame' = [last |-> byFrame'.last, of |-> [g \in Frames |-> byFrame'.of[g]]]
      /\ \A g \in Frames : FrameInv(byFrame'.of[g], g)
  <2>1. CASE tick.time <= byFrame.last
    <3>1. byFrame' = byFrame
      BY <1>1, <2>1 DEF Ingest
    <3>2. QED
      BY <3>1 DEF CandlesInv
  <2>2. CASE ~(tick.time <= byFrame.last)
    <3> DEFINE agg == byFrame.of[f]
               next == IF Late(agg, tick, f) THEN agg ELSE Advance(agg, tick, f)
               of == byFrame.of
    <3>1. byFrame' = [last |-> tick.time, of |-> [of EXCEPT ![f] = next]]
      BY <1>1, <2>2 DEF Ingest
    <3>2. FrameInv(next, f)
      <4>1. FrameInv(agg, f)
        BY DEF CandlesInv
      <4>2. CASE Late(agg, tick, f)
        BY <4>1, <4>2
      <4>3. CASE ~Late(agg, tick, f)
        BY <4>1, <4>3, FramesAre, FrameAdvances
      <4>4. QED
        BY <4>2, <4>3
    <3>3. of = [g \in Frames |-> of[g]]
      <4>1. byFrame = [last |-> byFrame.last, of |-> [g \in Frames |-> byFrame.of[g]]]
        BY DEF CandlesInv
      <4>2. QED
        BY <4>1
    <3>4. \A g \in Frames : FrameInv(of[g], g)
      BY DEF CandlesInv
    <3> HIDE DEF next, agg, of
    <3>5. PICK new : new = [of EXCEPT ![f] = next]
      OBVIOUS
    <3>6. /\ new = [g \in Frames |-> new[g]] /\ new[f] = next
          /\ \A g \in Frames : g # f => new[g] = of[g]
      BY <3>3, <3>5
    <3>7. \A g \in Frames : FrameInv(new[g], g)
      BY <3>2, <3>4, <3>6
    <3>8. byFrame' = [last |-> tick.time, of |-> new]
      BY <3>1, <3>5
    <3>9. QED
      BY <3>6, <3>7, <3>8
  <2>3. QED
    BY <2>1, <2>2
<1>8. QED
  BY <1>3, <1>5, <1>6, <1>7 DEF CandlesInv

\* A flush leaves nothing current, and the history the last candle.
LEMMA FlushMeets == CandlesInv /\ Flush => CandlesInv'
<1> SUFFICES ASSUME CandlesInv, Flush PROVE CandlesInv'
  OBVIOUS
<1>1. /\ canonical.current # NoCandle /\ history' = Put(canonical.current)
      /\ canonical' = Nothing /\ builder' = Nothing
      /\ byFrame' = [byFrame EXCEPT !.of = [f \in Frames |-> Nothing]]
  BY DEF Flush
<1>2. HistoryInv'
  <2>1. HistoryInv /\ canonical.current \in Bar
    BY <1>1 DEF CandlesInv, FrameInv, Kept
  <2>2. canonical.current.start \in Int
    BY <2>1 DEF Bar
  <2>3. QED
    BY <1>1, <2>1, <2>2, PutKeeps
<1>3. /\ byFrame' = [last |-> byFrame'.last, of |-> [f \in Frames |-> byFrame'.of[f]]]
      /\ \A f \in Frames : byFrame'.of[f] = Nothing
  <2>1. byFrame = [last |-> byFrame.last, of |-> [g \in Frames |-> byFrame.of[g]]]
    BY DEF CandlesInv
  <2>2. byFrame' = [last |-> byFrame.last, of |-> [f \in Frames |-> Nothing]]
    BY <1>1, <2>1
  <2>3. QED
    BY <2>2
<1>4. FrameInv(Nothing, BaseFrame) /\ BuilderInv(Nothing) /\ \A f : FrameInv(Nothing, f)
  BY FrameStarts, BuilderStarts
<1>5. FrameInv(canonical, BaseFrame)' /\ BuilderInv(builder)'
  BY <1>1, <1>4
<1>6. QED
  BY <1>2, <1>3, <1>4, <1>5 DEF CandlesInv

\* Every tick of the program is a tick of the invariant.
LEMMA TicksAre ==
  ASSUME NEW time \in Times, NEW price \in TickPrices
  PROVE  [time |-> time, price |-> price, volume |-> 1] \in CandleTick
BY CandleAssumption DEF CandleTick

\* Whatever ticks come, late, twice or out of order, and whenever the makers are flushed,
\* CandleAggregator's candles and TickCandleAggregator's of each frame are the grouping of
\* the ticks they took, one candle for a bucket, in order; the candles of the wide frame
\* are the same made from base candles or from ticks; CandleBuilder's are the runs of its
\* ticks; the history keeps one candle for a time, and find_gaps finds exactly what it
\* misses (aggregator.py, market_data/__init__.py, mtf_aggregator.py, candle_builder.py,
\* historical_backfill.py).
THEOREM CandlesCorrect == CandlesSpec => []CandlesAreTheirTicks
<1>1. CandlesInv /\ [CandlesNext]_candleVars => CandlesInv'
  <2> SUFFICES ASSUME CandlesInv, [CandlesNext]_candleVars PROVE CandlesInv'
    OBVIOUS
  <2>1. CASE UNCHANGED candleVars
    <3>1. UNCHANGED <<canonical, byFrame, builder, history>>
      BY <2>1 DEF candleVars
    <3>2. HistoryInv'
      BY <3>1, HistoryKept DEF CandlesInv
    <3>3. FrameInv(canonical, BaseFrame)' /\ BuilderInv(builder)'
      BY <3>1 DEF CandlesInv
    <3>4. QED
      BY <3>1, <3>2, <3>3 DEF CandlesInv
  <2>2. ASSUME NEW time \in Times, NEW price \in TickPrices, NEW f \in Frames,
               TickArrives([time |-> time, price |-> price, volume |-> 1], f)
        PROVE  CandlesInv'
    BY <2>2, TicksAre, TickMeets
  <2>3. QED
    BY <2>1, <2>2, FlushMeets DEF CandlesNext
<1>2. QED
  BY <1>1, CandlesStart, CandlesShown, PTL DEF CandlesSpec
=============================================================================
