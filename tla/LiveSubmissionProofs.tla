------------------------ MODULE LiveSubmissionProofs ------------------------
(***************************************************************************)
(* Theorems about the live order path, for every set of workers, client    *)
(* order ids and broker orders, and every number of attempts.              *)
(***************************************************************************)
EXTENDS LiveSubmission, TLAPS

\* A worker holds a broker order only if it was sent for the worker's client
\* id, and reads a status only off an order the broker holds.
WorkerOK(r) ==
  LET b == r.broker
      c == r.client
  IN
  /\ r.step # "idle" => c \in ClientIds /\ r.fingerprint \in Fingerprints
  /\ r.step = "sent" => b \in BrokerIds /\ Sent(b) /\ orders[b].client = c
  /\ r.step \in {"getbound", "bind", "record"} =>
       b \in BrokerIds /\ Visible(b) /\ orders[b].client = c
  /\ r.step = "query" /\ b # NoBroker => Visible(b) /\ orders[b].client = c
  /\ r.step \in {"bind", "record"} => r.answer \in BookStatuses
  /\ r.step = "bind" => r.answerFilled <= Quantity[c]
  /\ r.step \in {"record", "resolve", "settle"} => r.lifeFilled <= Quantity[c]

\* An order in the book belongs to a client id and is never overfilled.
OrderOK(b) ==
  LET c == orders[b].client IN
  Sent(b) => /\ c \in ClientIds
             /\ orders[b].filled <= Quantity[c]
             /\ Live(b) => orders[b].filled < Quantity[c]

TypeInv ==
  /\ TypeOK
  /\ BindingsAreReal
  /\ \A w \in Workers : WorkerOK(wk[w])
  /\ \A b \in BrokerIds : OrderOK(b)

USE NullsAreNotIds, ExposureAssumption, LiveAssumption, BookAssumption

LEMMA InitTypeInv == Init => TypeInv
  BY DEF Init, BookInit, TypeInv, TypeOK, BindingsAreReal, WorkerOK, OrderOK,
         IntentsTypeOK, ReservationsTypeOK, IntentsInit, ReservationsInit,
         NoIntent, Intent, Phases, TrackedStatuses, NoReservation, Reservation,
         IdleWorker, Worker, Steps, LifeStates, BookStatuses, TrackedStatuses, NoOrder, Order,
         Sent, Visible, Live, LiveStatuses

-----------------------------------------------------------------------------
(* Most steps replace the state of one worker and leave the book alone.    *)

LEMMA WorkerUpdate ==
  ASSUME TypeInv, NEW w \in Workers, NEW r \in Worker, WorkerOK(r),
         Becomes(w, r), orders' = orders,
         IntentsTypeOK', BindingsAreReal', ReservationsTypeOK',
         attempts' \in 0..MaxAttempts
  PROVE  TypeInv'
<1>1. wk' \in [Workers -> Worker] /\ TypeOK'
  BY DEF TypeInv, TypeOK, Becomes
<1>2. ASSUME NEW v \in Workers PROVE WorkerOK(wk[v])'
  <2>1. wk'[v] = IF v = w THEN r ELSE wk[v]
    BY DEF TypeInv, TypeOK, Becomes
  <2>2. WorkerOK(wk'[v])
    BY <2>1 DEF TypeInv
  <2>3. QED
    BY <2>2 DEF WorkerOK, Sent, Visible
<1>3. ASSUME NEW b \in BrokerIds PROVE OrderOK(b)'
  BY DEF TypeInv, OrderOK, Sent, Live
<1>4. QED
  BY <1>1, <1>2, <1>3 DEF TypeInv

LEMMA UnchangedStores ==
  ASSUME TypeInv, UNCHANGED <<intents, reservations, orders, attempts>>
  PROVE  IntentsTypeOK' /\ BindingsAreReal' /\ ReservationsTypeOK'
         /\ attempts' \in 0..MaxAttempts
  BY DEF TypeInv, TypeOK, IntentsTypeOK, BindingsAreReal, ReservationsTypeOK, Visible

LEMMA IdleIsOK == IdleWorker \in Worker /\ WorkerOK(IdleWorker)
  BY DEF IdleWorker, Worker, WorkerOK, Steps, LifeStates, BookStatuses, TrackedStatuses

LEMMA RaiseIsOK ==
  ASSUME TypeInv, NEW w \in Workers, Raise(w)
  PROVE  \E r \in Worker : Becomes(w, r) /\ WorkerOK(r)
<1> DEFINE r == [wk[w] EXCEPT !.path = "recover", !.step = "reread"]
<1>1. CASE Done(w)
  BY <1>1, IdleIsOK DEF Done
<1>2. CASE wk[w].step \in {"sent", "record", "resolve"} /\ Becomes(w, r)
  <2>0. wk[w] \in Worker /\ WorkerOK(wk[w])
    BY DEF TypeInv, TypeOK
  <2>1. r \in Worker
    BY <2>0 DEF Worker, Steps
  <2>2. WorkerOK(r)
    BY <1>2, <2>0 DEF WorkerOK, Worker
  <2>3. QED
    BY <1>2, <2>1, <2>2
<1>3. QED
  BY <1>1, <1>2 DEF Raise

LEMMA ApplyAnswerIsOK ==
  ASSUME TypeInv, NEW w \in Workers, NEW b \in BrokerIds, ApplyAnswer(w, b),
         Visible(b), orders[b].client = wk[w].client, wk[w].client \in ClientIds,
         wk[w].fingerprint \in Fingerprints
  PROVE  \E r \in Worker : Becomes(w, r) /\ WorkerOK(r)
<1> DEFINE r == [wk[w] EXCEPT !.step = "record",
                              !.life = LifecycleStatus(orders[b].status),
                              !.lifeFilled = orders[b].filled,
                              !.broker = b, !.answer = orders[b].status,
                              !.answerFilled = orders[b].filled]
<1>1. CASE Raise(w)
  BY <1>1, RaiseIsOK
<1>2. CASE AppliesAnswer(w, orders[b].status, orders[b].filled) /\ Becomes(w, r)
  <2>0. wk[w] \in Worker /\ WorkerOK(wk[w]) /\ orders[b] \in Order /\ OrderOK(b)
    BY DEF TypeInv, TypeOK
  <2>1. r \in Worker
    BY <1>2, <2>0 DEF Worker, Steps, Order, Visible, AppliesAnswer,
                LifecycleAllows, LifeStates
  <2>2. WorkerOK(r)
    BY <1>2, <2>0, <2>1 DEF WorkerOK, Worker, OrderOK, Visible, Sent, BookStatuses, TrackedStatuses,
                TrackedStatuses
  <2>3. QED
    BY <1>2, <2>1, <2>2
<1>3. QED
  BY <1>1, <1>2 DEF ApplyAnswer

-----------------------------------------------------------------------------
(* What the store operations keep of the types.                            *)

LEMMA ReservationOps ==
  ASSUME ReservationsTypeOK, NEW c \in ClientIds, NEW n \in Nat,
         NEW s, Reserve(c, n) \/ Release(c) \/ Reconcile(c, s, n)
  PROVE  ReservationsTypeOK'
<1> DEFINE x == reservations'[c]
<1>1. reservations' = [reservations EXCEPT ![c] = x] /\ x \in Reservation
  BY DEF ReservationsTypeOK, Reservation, Reserve, Activate, Release, Reconcile, ReconcileResult
<1>2. QED
  BY <1>1 DEF ReservationsTypeOK

LEMMA IntentOps ==
  ASSUME IntentsTypeOK, BindingsAreReal, orders' = orders, NEW c \in ClientIds,
         NEW b \in BrokerIds, NEW s \in TrackedStatuses,
         ResolveIntent(c)
         \/ (RecordBrokerOrder(c, b, s) /\ Visible(b) /\ orders[b].client = c)
  PROVE  IntentsTypeOK' /\ BindingsAreReal'
<1>1. intents[c] \in Intent
  BY DEF IntentsTypeOK
<1>2. PICK x \in Intent :
         /\ intents' = [intents EXCEPT ![c] = x]
         /\ x.broker \in {NoBroker, intents[c].broker}
            \/ (x.broker = b /\ Visible(b) /\ orders[b].client = c)
  <2>1. CASE ResolveIntent(c)
    <3> DEFINE x == [intents[c] EXCEPT !.phase = "resolved"]
    <3>1. x \in Intent /\ x.broker = intents[c].broker
      BY <1>1 DEF Intent, Phases
    <3>2. intents' = [intents EXCEPT ![c] = x]
      BY <2>1, <1>1 DEF ResolveIntent, Intent, IntentsTypeOK
    <3>3. QED
      BY <3>1, <3>2
  <2>2. CASE RecordBrokerOrder(c, b, s) /\ Visible(b) /\ orders[b].client = c
    <3> DEFINE x == [[intents[c] EXCEPT !.broker = b] EXCEPT !.status = s]
    <3>1. x \in Intent /\ x.broker = b
      BY <1>1 DEF Intent, TrackedStatuses
    <3>2. intents' = [intents EXCEPT ![c] = x]
      BY <2>2, <1>1 DEF RecordBrokerOrder, Intent, IntentsTypeOK
    <3>3. QED
      BY <2>2, <3>1, <3>2
  <2>3. QED
    BY <2>1, <2>2
<1>3. IntentsTypeOK'
  BY <1>2 DEF IntentsTypeOK
<1>4. BindingsAreReal'
  BY <1>2, <1>3 DEF BindingsAreReal, IntentsTypeOK, Visible
<1>5. QED
  BY <1>3, <1>4

-----------------------------------------------------------------------------
(* One lemma per kind of step: it keeps the type invariant.                *)

LEMMA WorkerFacts ==
  ASSUME TypeInv, NEW w \in Workers
  PROVE  wk[w] \in Worker /\ WorkerOK(wk[w])
  BY DEF TypeInv, TypeOK

\* The worker moves on, and touches neither a store nor the book.
LEMMA LocalStep ==
  ASSUME TypeInv, NEW w \in Workers, NEW r \in Worker, Becomes(w, r), WorkerOK(r),
         UNCHANGED <<intents, reservations, orders, attempts>>
  PROVE  TypeInv'
  BY UnchangedStores, WorkerUpdate

LEMMA MoveIsOK ==
  ASSUME TypeInv, NEW w \in Workers, NEW s, wk[w].step # "idle",
         s \in {"authorize", "consume", "lookup", "create", "submit"}
         \/ (s = "resolve" /\ wk[w].step = "record")
         \/ (s = "settle" /\ wk[w].step = "resolve")
  PROVE  /\ [wk[w] EXCEPT !.step = s] \in Worker
         /\ WorkerOK([wk[w] EXCEPT !.step = s])
  BY WorkerFacts DEF WorkerOK, Worker, Steps

LEMMA DoneIsOK ==
  ASSUME TypeInv, NEW w \in Workers, Done(w)
  PROVE  \E r \in Worker : Becomes(w, r) /\ WorkerOK(r)
  BY IdleIsOK DEF Done

LEMMA StartType ==
  ASSUME TypeInv, NEW w \in Workers, NEW c \in ClientIds, NEW f \in Fingerprints,
         Start(w, c, f)
  PROVE  TypeInv'
<1> DEFINE r == [IdleWorker EXCEPT !.step = "reserve", !.client = c, !.fingerprint = f]
<1>1. r \in Worker /\ WorkerOK(r)
  BY DEF IdleWorker, Worker, WorkerOK, Steps, LifeStates, BookStatuses, TrackedStatuses
<1>2. IntentsTypeOK' /\ BindingsAreReal' /\ ReservationsTypeOK' /\ attempts' \in 0..MaxAttempts
  BY DEF Start, TypeInv, TypeOK, IntentsTypeOK, BindingsAreReal, ReservationsTypeOK, Visible
<1>3. QED
  BY <1>1, <1>2, WorkerUpdate DEF Start

LEMMA ReserveRiskType ==
  ASSUME TypeInv, NEW w \in Workers, ReserveRisk(w)
  PROVE  TypeInv'
<1>1. \E r \in Worker : Becomes(w, r) /\ WorkerOK(r)
  <2>1. wk[w].step = "reserve" /\ (GoTo(w, "authorize") \/ Done(w))
    BY DEF ReserveRisk, At
  <2>2. QED
    BY <2>1, MoveIsOK, DoneIsOK DEF GoTo
<1>2. wk[w].client \in ClientIds /\ Quantity[wk[w].client] \in Nat
  BY WorkerFacts DEF WorkerOK, ReserveRisk, At
<1>3. ReservationsTypeOK'
  BY <1>2, ReservationOps DEF ReserveRisk, TypeInv, TypeOK, ReservationsTypeOK
<1>4. IntentsTypeOK' /\ BindingsAreReal' /\ attempts' \in 0..MaxAttempts
  BY DEF ReserveRisk, TypeInv, TypeOK, IntentsTypeOK, BindingsAreReal, Visible
<1>5. QED
  BY <1>1, <1>3, <1>4, WorkerUpdate DEF ReserveRisk

LEMMA AuthorizeType ==
  ASSUME TypeInv, NEW w \in Workers, Authorize(w)
  PROVE  TypeInv'
<1>1. \E r \in Worker : Becomes(w, r) /\ WorkerOK(r)
  <2>1. wk[w].step = "authorize" /\ (GoTo(w, "consume") \/ Done(w))
    BY DEF Authorize, Refuses, At
  <2>2. QED
    BY <2>1, MoveIsOK, DoneIsOK DEF GoTo
<1>2. wk[w].client \in ClientIds
  BY WorkerFacts DEF WorkerOK, Authorize, Refuses, At
<1>3. ReservationsTypeOK'
  BY <1>2, ReservationOps DEF Authorize, Refuses, TypeInv, TypeOK, ReservationsTypeOK
<1>4. IntentsTypeOK' /\ BindingsAreReal' /\ attempts' \in 0..MaxAttempts
  BY DEF Authorize, Refuses, TypeInv, TypeOK, IntentsTypeOK, BindingsAreReal, Visible
<1>5. QED
  BY <1>1, <1>3, <1>4, WorkerUpdate DEF Authorize, Refuses

LEMMA ConsumeType ==
  ASSUME TypeInv, NEW w \in Workers, ConsumeAuthorization(w)
  PROVE  TypeInv'
<1>1. \E r \in Worker : Becomes(w, r) /\ WorkerOK(r)
  <2>1. wk[w].step = "consume" /\ (GoTo(w, "lookup") \/ Done(w))
    BY DEF ConsumeAuthorization, At
  <2>2. QED
    BY <2>1, MoveIsOK, DoneIsOK DEF GoTo
<1>2. QED
  BY <1>1, LocalStep DEF ConsumeAuthorization

LEMMA SettleType ==
  ASSUME TypeInv, NEW w \in Workers, SettleRisk(w)
  PROVE  TypeInv'
<1>1. \E r \in Worker : Becomes(w, r) /\ WorkerOK(r)
  BY DoneIsOK DEF SettleRisk
<1>2. /\ wk[w].client \in ClientIds
      /\ Quantity[wk[w].client] - wk[w].lifeFilled \in Nat
  BY WorkerFacts DEF WorkerOK, SettleRisk, At, Worker
<1>3. ReservationsTypeOK'
  BY <1>2, ReservationOps DEF SettleRisk, TypeInv, TypeOK, ReservationsTypeOK
<1>4. IntentsTypeOK' /\ BindingsAreReal' /\ attempts' \in 0..MaxAttempts
  BY DEF SettleRisk, TypeInv, TypeOK, IntentsTypeOK, BindingsAreReal, Visible
<1>5. QED
  BY <1>1, <1>3, <1>4, WorkerUpdate DEF SettleRisk

LEMMA LookupType ==
  ASSUME TypeInv, NEW w \in Workers, LookupIntent(w)
  PROVE  TypeInv'
<1>0. wk[w] \in Worker /\ WorkerOK(wk[w]) /\ wk[w].step = "lookup" /\ wk[w].client \in ClientIds
  BY WorkerFacts DEF LookupIntent, At, WorkerOK
<1>1. CASE GoTo(w, "create")
  BY <1>0, <1>1, MoveIsOK, LocalStep DEF GoTo, LookupIntent
<1>2. CASE /\ Unresolved(wk[w].client)
           /\ Becomes(w, [wk[w] EXCEPT !.step = IF intents[wk[w].client].broker = NoBroker
                                                THEN "reread" ELSE "getbound",
                                       !.path = "existing",
                                       !.broker = intents[wk[w].client].broker])
  <2> DEFINE b == intents[wk[w].client].broker
             r == [wk[w] EXCEPT !.step = IF b = NoBroker THEN "reread" ELSE "getbound",
                                !.path = "existing", !.broker = b]
  <2>1. b \in BrokerIds \cup {NoBroker}
    BY <1>0 DEF TypeInv, TypeOK, IntentsTypeOK, Intent
  <2>2. r \in Worker
    BY <1>0, <2>1 DEF Worker, Steps
  <2>3. b # NoBroker => Visible(b) /\ orders[b].client = wk[w].client
    BY <1>0 DEF TypeInv, BindingsAreReal
  <2>4. WorkerOK(r)
    <3>1. CASE b = NoBroker
      BY <1>0, <3>1 DEF WorkerOK, Worker
    <3>2. CASE b # NoBroker
      BY <1>0, <2>1, <2>3, <3>2 DEF WorkerOK, Worker
    <3>3. QED
      BY <3>1, <3>2
  <2>5. QED
    BY <1>2, <2>2, <2>4, LocalStep DEF LookupIntent
<1>3. QED
  BY <1>1, <1>2 DEF LookupIntent

LEMMA CreateType ==
  ASSUME TypeInv, NEW w \in Workers, CreateStep(w)
  PROVE  TypeInv'
<1>0. /\ wk[w].step = "create" /\ wk[w].client \in ClientIds
      /\ wk[w].fingerprint \in Fingerprints
  BY WorkerFacts DEF CreateStep, At, WorkerOK
<1>1. \E r \in Worker : Becomes(w, r) /\ WorkerOK(r)
  <2>1. GoTo(w, "submit") \/ Done(w)
    BY DEF CreateStep
  <2>2. QED
    BY <1>0, <2>1, MoveIsOK, DoneIsOK DEF GoTo
<1>2. IntentsTypeOK' /\ BindingsAreReal'
  <2>1. CASE CreateIntent(wk[w].client, wk[w].fingerprint)
    <3>1. [[NoIntent EXCEPT !.phase = "unresolved"] EXCEPT !.fingerprint = wk[w].fingerprint]
            \in Intent
      BY <1>0 DEF NoIntent, Intent, Phases
    <3>2. IntentsTypeOK'
      BY <1>0, <2>1, <3>1 DEF CreateIntent, IntentsTypeOK, TypeInv, TypeOK
    <3>3. BindingsAreReal'
      BY <1>0, <2>1, <3>2 DEF CreateIntent, CreateStep, NoIntent, TypeInv, TypeOK,
                              IntentsTypeOK, BindingsAreReal, Visible
    <3>4. QED
      BY <3>2, <3>3
  <2>2. CASE UNCHANGED intents
    BY <2>2 DEF CreateStep, TypeInv, TypeOK, IntentsTypeOK, BindingsAreReal, Visible
  <2>3. QED
    BY <2>1, <2>2 DEF CreateStep
<1>3. ReservationsTypeOK' /\ attempts' \in 0..MaxAttempts
  BY DEF CreateStep, TypeInv, TypeOK, ReservationsTypeOK
<1>4. QED
  BY <1>1, <1>2, <1>3, WorkerUpdate DEF CreateStep

LEMMA SubmitReturnsType ==
  ASSUME TypeInv, NEW w \in Workers, SubmitReturns(w)
  PROVE  TypeInv'
<1>1. /\ wk[w].client \in ClientIds /\ wk[w].fingerprint \in Fingerprints
      /\ wk[w].broker \in BrokerIds /\ orders[wk[w].broker].client = wk[w].client
  BY WorkerFacts DEF SubmitReturns, At, WorkerOK
<1>2. \E r \in Worker : Becomes(w, r) /\ WorkerOK(r)
  BY <1>1, RaiseIsOK, ApplyAnswerIsOK DEF SubmitReturns
<1>3. QED
  BY <1>2, LocalStep DEF SubmitReturns

LEMMA GetBoundType ==
  ASSUME TypeInv, NEW w \in Workers, GetBoundOrder(w)
  PROVE  TypeInv'
<1>1. /\ wk[w].client \in ClientIds /\ wk[w].fingerprint \in Fingerprints
      /\ wk[w].broker \in BrokerIds /\ Visible(wk[w].broker)
      /\ orders[wk[w].broker].client = wk[w].client
  BY WorkerFacts DEF GetBoundOrder, At, WorkerOK
<1>2. \E r \in Worker : Becomes(w, r) /\ WorkerOK(r)
  BY <1>1, DoneIsOK, ApplyAnswerIsOK DEF GetBoundOrder
<1>3. QED
  BY <1>2, LocalStep DEF GetBoundOrder

LEMMA RecordType ==
  ASSUME TypeInv, NEW w \in Workers, RecordStep(w)
  PROVE  TypeInv'
<1> DEFINE c == wk[w].client
           b == wk[w].broker
           s == wk[w].answer
<1>0. /\ wk[w].step = "record" /\ c \in ClientIds /\ b \in BrokerIds /\ Visible(b)
      /\ orders[b].client = c /\ s \in TrackedStatuses
  BY WorkerFacts DEF RecordStep, At, WorkerOK, BookStatuses, TrackedStatuses
<1>1. \E r \in Worker : Becomes(w, r) /\ WorkerOK(r)
  <2>1. GoTo(w, "resolve") \/ Raise(w)
    BY DEF RecordStep
  <2>2. QED
    BY <1>0, <2>1, MoveIsOK, RaiseIsOK DEF GoTo
<1>2. IntentsTypeOK' /\ BindingsAreReal'
  <2>1. CASE RecordBrokerOrder(c, b, s)
    BY <1>0, <2>1, IntentOps DEF RecordStep, TypeInv, TypeOK
  <2>2. CASE UNCHANGED intents
    BY <2>2 DEF RecordStep, TypeInv, TypeOK, IntentsTypeOK, BindingsAreReal, Visible
  <2>3. QED
    BY <2>1, <2>2 DEF RecordStep
<1>3. ReservationsTypeOK' /\ attempts' \in 0..MaxAttempts
  BY DEF RecordStep, TypeInv, TypeOK, ReservationsTypeOK
<1>4. QED
  BY <1>1, <1>2, <1>3, WorkerUpdate DEF RecordStep

LEMMA ResolveType ==
  ASSUME TypeInv, NEW w \in Workers, ResolveStep(w)
  PROVE  TypeInv'
<1> DEFINE c == wk[w].client
<1>0. wk[w].step = "resolve" /\ c \in ClientIds
  BY WorkerFacts DEF ResolveStep, At, WorkerOK
<1>1. \E r \in Worker : Becomes(w, r) /\ WorkerOK(r)
  <2>1. GoTo(w, "settle") \/ Raise(w)
    BY DEF ResolveStep
  <2>2. QED
    BY <1>0, <2>1, MoveIsOK, RaiseIsOK DEF GoTo
<1>2. IntentsTypeOK' /\ BindingsAreReal'
  <2>1. CASE ResolveIntent(c)
    <3>1. intents[c].broker \in BrokerIds
      BY <1>0, <2>1 DEF ResolveIntent, ResolveAccepts, TypeInv, TypeOK, IntentsTypeOK, Intent
    <3>2. "NEW" \in TrackedStatuses
      BY DEF TrackedStatuses
    <3>3. QED
      BY <1>0, <2>1, <3>1, <3>2, IntentOps DEF ResolveStep, TypeInv, TypeOK
  <2>2. CASE UNCHANGED intents
    BY <2>2 DEF ResolveStep, TypeInv, TypeOK, IntentsTypeOK, BindingsAreReal, Visible
  <2>3. QED
    BY <2>1, <2>2 DEF ResolveStep
<1>3. ReservationsTypeOK' /\ attempts' \in 0..MaxAttempts
  BY DEF ResolveStep, TypeInv, TypeOK, ReservationsTypeOK
<1>4. QED
  BY <1>1, <1>2, <1>3, WorkerUpdate DEF ResolveStep

LEMMA RereadType ==
  ASSUME TypeInv, NEW w \in Workers, RereadIntent(w)
  PROVE  TypeInv'
<1> DEFINE c == wk[w].client
           r == [wk[w] EXCEPT !.step = "query", !.broker = intents[c].broker]
<1>1. CASE Done(w)
  BY <1>1, DoneIsOK, LocalStep DEF RereadIntent
<1>2. CASE Becomes(w, r)
  <2>0. wk[w] \in Worker /\ WorkerOK(wk[w]) /\ wk[w].step = "reread" /\ c \in ClientIds
    BY WorkerFacts DEF RereadIntent, At, WorkerOK
  <2>1. /\ intents[c].broker \in BrokerIds \cup {NoBroker}
        /\ intents[c].broker # NoBroker =>
             Visible(intents[c].broker) /\ orders[intents[c].broker].client = c
    BY <2>0 DEF TypeInv, TypeOK, IntentsTypeOK, Intent, BindingsAreReal
  <2>2. r \in Worker
    BY <2>0, <2>1 DEF Worker, Steps
  <2>3. WorkerOK(r)
    BY <2>0, <2>1 DEF WorkerOK, Worker
  <2>4. QED
    BY <1>2, <2>2, <2>3, LocalStep DEF RereadIntent
<1>3. QED
  BY <1>1, <1>2 DEF RereadIntent

LEMMA QueryType ==
  ASSUME TypeInv, NEW w \in Workers, QueryBroker(w)
  PROVE  TypeInv'
<1> DEFINE c == wk[w].client
           found == IF wk[w].broker # NoBroker THEN {wk[w].broker} ELSE Matches(c)
           r(b) == [wk[w] EXCEPT !.step = "bind", !.broker = b,
                                 !.answer = orders[b].status,
                                 !.answerFilled = orders[b].filled]
<1>1. CASE Done(w)
  BY <1>1, DoneIsOK, LocalStep DEF QueryBroker
<1>2. ASSUME NEW b \in BrokerIds, found = {b}, Becomes(w, r(b))
      PROVE  TypeInv'
  <2>0. wk[w] \in Worker /\ WorkerOK(wk[w]) /\ wk[w].step = "query" /\ c \in ClientIds
    BY WorkerFacts DEF QueryBroker, At, WorkerOK
  <2>1. Visible(b) /\ orders[b].client = c
    BY <1>2, <2>0 DEF WorkerOK, Matches
  <2>2. /\ orders[b] \in Order /\ orders[b].status \in BookStatuses
        /\ orders[b].filled <= Quantity[c] /\ orders[b].filled \in Nat
    BY <2>1 DEF TypeInv, TypeOK, OrderOK, Order, Visible, Sent, BookStatuses, TrackedStatuses
  <2>3. r(b) \in Worker
    BY <2>0, <2>2 DEF Worker, Steps
  <2>4. WorkerOK(r(b))
    BY <2>0, <2>1, <2>2 DEF WorkerOK, Worker
  <2>5. QED
    BY <1>2, <2>3, <2>4, LocalStep DEF QueryBroker
<1>3. QED
  BY <1>1, <1>2 DEF QueryBroker

LEMMA BindType ==
  ASSUME TypeInv, NEW w \in Workers, BindRecovered(w)
  PROVE  TypeInv'
<1> DEFINE c == wk[w].client
           b == wk[w].broker
           s == wk[w].answer
           r == [wk[w] EXCEPT !.step = "record", !.life = LifecycleStatus(s),
                              !.lifeFilled = wk[w].answerFilled]
<1>0. /\ wk[w] \in Worker /\ WorkerOK(wk[w]) /\ wk[w].step = "bind"
      /\ c \in ClientIds /\ b \in BrokerIds /\ Visible(b)
      /\ orders[b].client = c /\ s \in TrackedStatuses
  BY WorkerFacts DEF BindRecovered, At, WorkerOK, BookStatuses, TrackedStatuses
<1>1. \E x \in Worker : Becomes(w, x) /\ WorkerOK(x)
  <2>1. CASE Done(w)
    BY <2>1, DoneIsOK
  <2>2. CASE AppliesAnswer(w, s, wk[w].answerFilled) /\ Becomes(w, r)
    <3>1. r \in Worker
      BY <1>0, <2>2 DEF Worker, Steps, AppliesAnswer, LifecycleAllows
    <3>2. WorkerOK(r)
      BY <1>0 DEF WorkerOK, Worker
    <3>3. QED
      BY <2>2, <3>1, <3>2
  <2>3. QED
    BY <2>1, <2>2 DEF BindRecovered
<1>2. IntentsTypeOK' /\ BindingsAreReal'
  <2>1. CASE RecordBrokerOrder(c, b, s)
    BY <1>0, <2>1, IntentOps DEF BindRecovered, TypeInv, TypeOK
  <2>2. CASE UNCHANGED intents
    BY <2>2 DEF BindRecovered, TypeInv, TypeOK, IntentsTypeOK, BindingsAreReal, Visible
  <2>3. QED
    BY <2>1, <2>2 DEF BindRecovered
<1>3. ReservationsTypeOK' /\ attempts' \in 0..MaxAttempts
  BY DEF BindRecovered, TypeInv, TypeOK, ReservationsTypeOK
<1>4. QED
  BY <1>1, <1>2, <1>3, WorkerUpdate DEF BindRecovered

-----------------------------------------------------------------------------
(* Steps that change the book: what was sent stays sent, to the same client *)
(* id, and what the broker holds stays visible.                             *)

BookGrows ==
  \A b \in BrokerIds :
    /\ Sent(b) => Sent(b)' /\ orders'[b].client = orders[b].client
    /\ Visible(b) => Visible(b)'

LEMMA BookUpdate ==
  ASSUME TypeInv, BookGrows, UNCHANGED intents, NEW v \in Workers, wk'[v] = wk[v]
  PROVE  BindingsAreReal' /\ WorkerOK(wk[v])'
<1>1. \A b \in BrokerIds : Visible(b) => Sent(b)
  BY DEF Visible, Sent, BookStatuses, TrackedStatuses
<1>2. ASSUME NEW b \in BrokerIds, Visible(b)
      PROVE  Visible(b)' /\ orders'[b].client = orders[b].client
  BY <1>1, <1>2 DEF BookGrows
<1>3. BindingsAreReal'
  <2>1. \A c \in ClientIds : intents[c].broker \in BrokerIds \cup {NoBroker}
    BY DEF TypeInv, TypeOK, IntentsTypeOK, Intent
  <2>2. QED
    BY <1>2, <2>1 DEF TypeInv, BindingsAreReal
<1>4. WorkerOK(wk[v])'
  <2>1. WorkerOK(wk[v]) /\ wk[v].broker \in BrokerIds \cup {NoBroker}
    BY WorkerFacts DEF Worker
  <2>2. ASSUME wk[v].broker \in BrokerIds, Sent(wk[v].broker)
        PROVE  Sent(wk[v].broker)' /\ orders'[wk[v].broker].client = orders[wk[v].broker].client
    BY <2>2 DEF BookGrows
  <2>3. QED
    BY <1>2, <2>1, <2>2 DEF WorkerOK
<1>5. QED
  BY <1>3, <1>4

LEMMA SubmitType ==
  ASSUME TypeInv, NEW w \in Workers, Submit(w)
  PROVE  TypeInv'
<1> DEFINE c == wk[w].client
           o == [client |-> c, status |-> "inflight", filled |-> 0]
<1>1. PICK b \in BrokerIds :
        /\ ~Sent(b)
        /\ orders' = [orders EXCEPT ![b] = o]
        /\ Becomes(w, [wk[w] EXCEPT !.step = "sent", !.broker = b])
  BY DEF Submit, Send
<1> DEFINE r == [wk[w] EXCEPT !.step = "sent", !.broker = b]
<1>2. wk[w] \in Worker /\ WorkerOK(wk[w]) /\ wk[w].step = "submit" /\ c \in ClientIds
  BY WorkerFacts DEF Submit, Send, At, WorkerOK
<1>3. o \in Order /\ orders' \in [BrokerIds -> Order] /\ orders'[b] = o
  BY <1>1, <1>2 DEF TypeInv, TypeOK, Order
<1>4. r \in Worker /\ wk' \in [Workers -> Worker] /\ wk'[w] = r
  <2>1. r \in Worker
    BY <1>2 DEF Worker, Steps
  <2>2. QED
    BY <1>1, <2>1 DEF Becomes, TypeInv, TypeOK
<1>5. BookGrows
  <2>1. ASSUME NEW d \in BrokerIds PROVE d # b => orders'[d] = orders[d]
    BY <1>1 DEF TypeInv, TypeOK
  <2>2. ~Visible(b) /\ ~Sent(b)
    BY <1>1 DEF Visible, Sent, BookStatuses, TrackedStatuses
  <2>3. QED
    BY <2>1, <2>2 DEF BookGrows, Sent, Visible
<1>6. TypeOK'
  BY <1>3, <1>4 DEF Submit, Send, TypeInv, TypeOK, IntentsTypeOK, ReservationsTypeOK
<1>7. ASSUME NEW v \in Workers PROVE BindingsAreReal' /\ WorkerOK(wk[v])'
  <2>1. CASE v # w
    <3>1. wk'[v] = wk[v]
      BY <1>1, <2>1 DEF Becomes, TypeInv, TypeOK
    <3>2. QED
      BY <1>5, <3>1, BookUpdate DEF Submit, Send
  <2>2. CASE v = w
    <3>1. BindingsAreReal'
      <4>1. \A d \in BrokerIds : Visible(d) => d # b
        BY <1>1 DEF Visible, Sent, BookStatuses, TrackedStatuses
      <4>2. \A e \in ClientIds : intents[e].broker \in BrokerIds \cup {NoBroker}
        BY DEF TypeInv, TypeOK, IntentsTypeOK, Intent
      <4>3. QED
        BY <1>1, <4>1, <4>2 DEF Submit, Send, TypeInv, TypeOK, BindingsAreReal, Visible
    <3>2. WorkerOK(wk[w])'
      <4>1. /\ wk'[w].step = "sent" /\ wk'[w].client = c /\ wk'[w].broker = b
            /\ wk'[w].fingerprint \in Fingerprints
        BY <1>2, <1>4 DEF Worker, WorkerOK
      <4>2. Sent(b)' /\ orders'[b].client = c
        BY <1>3 DEF Sent
      <4>3. QED
        BY <1>2, <4>1, <4>2 DEF WorkerOK
    <3>3. QED
      BY <2>2, <3>1, <3>2
  <2>3. QED
    BY <2>1, <2>2
<1>8. ASSUME NEW d \in BrokerIds PROVE OrderOK(d)'
  <2>1. CASE d = b
    <3>1. c \in ClientIds /\ Quantity[c] \in Nat \ {0}
      BY <1>2
    <3>2. QED
      BY <1>3, <2>1, <3>1 DEF OrderOK
  <2>2. CASE d # b
    BY <1>1, <2>2 DEF TypeInv, TypeOK, OrderOK, Sent, Live
  <2>3. QED
    BY <2>1, <2>2
<1>9. QED
  BY <1>6, <1>7, <1>8 DEF TypeInv, BindingsAreReal

LEMMA BrokerType ==
  ASSUME TypeInv, NEW b \in BrokerIds, BrokerStep(b)
  PROVE  TypeInv'
<1>1. orders[b] \in Order /\ OrderOK(b) /\ Sent(b)
  BY DEF TypeInv, TypeOK, BrokerStep, BookStep, Receive, FillOne, Cancel, Sent
<1>2. orders[b].client \in ClientIds /\ Quantity[orders[b].client] \in Nat
  BY <1>1 DEF OrderOK
<1>3. PICK o \in Order :
        /\ orders' = [orders EXCEPT ![b] = o]
        /\ o.client = orders[b].client /\ o.status # "unused"
        /\ Visible(b) => o.status \in BookStatuses
        /\ o.filled <= Quantity[o.client]
        /\ o.status \in LiveStatuses => o.filled < Quantity[o.client]
  <2>1. CASE Receive(b)
    <3>1. PICK s \in {"NEW", "REJECTED", "lost"} : SetOrder(b, s)
      BY <2>1 DEF Receive, BookStep
    <3> DEFINE o == [orders[b] EXCEPT !.status = s]
    <3>2. o \in Order /\ o.client = orders[b].client /\ o.filled = orders[b].filled /\ o.status = s
      BY <1>1 DEF Order, BookStatuses, TrackedStatuses
    <3>3. orders' = [orders EXCEPT ![b] = o]
      BY <3>1 DEF SetOrder, TypeInv, TypeOK, Order
    <3>4. orders[b].status = "inflight"
      BY <2>1 DEF Receive, BookStep
    <3>5. QED
      BY <1>1, <1>2, <3>2, <3>3, <3>4
         DEF Visible, OrderOK, Sent, Live, LiveStatuses, BookStatuses, TrackedStatuses
  <2>2. CASE Cancel(b)
    <3> DEFINE o == [orders[b] EXCEPT !.status = "CANCELLED"]
    <3>1. o \in Order /\ o.client = orders[b].client /\ o.filled = orders[b].filled
          /\ o.status = "CANCELLED"
      BY <1>1 DEF Order, BookStatuses, TrackedStatuses
    <3>2. orders' = [orders EXCEPT ![b] = o]
      BY <2>2 DEF Cancel, SetOrder, TypeInv, TypeOK, Order
    <3>3. QED
      BY <1>1, <3>1, <3>2 DEF OrderOK, LiveStatuses, BookStatuses, TrackedStatuses
  <2>3. CASE FillOne(b)
    <3> DEFINE t == IF Remaining(b) = 1 THEN "FILLED" ELSE "PARTIALLY_FILLED"
               n == orders[b].filled + 1
               o == [client |-> orders[b].client, status |-> t, filled |-> n]
    <3>1. t \in {"FILLED", "PARTIALLY_FILLED"} /\ (Remaining(b) = 1 <=> t = "FILLED")
      OBVIOUS
    <3>2. o \in Order
      BY <1>1 DEF Order, BookStatuses, TrackedStatuses
    <3>3. orders' = [orders EXCEPT ![b] = o]
      BY <2>3 DEF FillOne
    <3>4. orders[b].filled < Quantity[orders[b].client]
      BY <1>1, <2>3 DEF OrderOK, FillOne, Live, LiveStatuses
    <3>5. /\ n <= Quantity[orders[b].client]
          /\ t = "PARTIALLY_FILLED" => n < Quantity[orders[b].client]
      BY <1>1, <1>2, <3>1, <3>4 DEF Remaining, Order
    <3>6. /\ o.client = orders[b].client /\ o.status = t /\ o.filled = n
      OBVIOUS
    <3> HIDE DEF o, n, t
    <3>7. /\ t # "unused" /\ t \in BookStatuses
          /\ t \in LiveStatuses => t = "PARTIALLY_FILLED"
      BY <3>1 DEF LiveStatuses, BookStatuses, TrackedStatuses
    <3>8. QED
      BY <3>2, <3>3, <3>5, <3>6, <3>7
  <2>4. QED
    BY <2>1, <2>2, <2>3 DEF BrokerStep, BookStep
<1>4. UNCHANGED <<intents, reservations, wk, attempts>>
  BY DEF BrokerStep, BookStep, Receive, FillOne, Cancel
<1>5. orders'[b] = o /\ \A d \in BrokerIds : d # b => orders'[d] = orders[d]
  BY <1>3 DEF TypeInv, TypeOK
<1>6. BookGrows
  BY <1>3, <1>5 DEF BookGrows, Sent, Visible
<1>7. TypeOK'
  BY <1>3, <1>4 DEF TypeInv, TypeOK, IntentsTypeOK, ReservationsTypeOK
<1>8. \A v \in Workers : WorkerOK(wk[v])'
  BY <1>4, <1>6, BookUpdate
<1>9. BindingsAreReal'
  <2>1. \A c \in ClientIds : intents[c].broker \in BrokerIds \cup {NoBroker}
    BY DEF TypeInv, TypeOK, IntentsTypeOK, Intent
  <2>2. \A d \in BrokerIds : Visible(d) => Sent(d)
    BY DEF Visible, Sent, BookStatuses, TrackedStatuses
  <2>3. QED
    BY <1>4, <1>6, <2>1, <2>2 DEF TypeInv, BindingsAreReal, BookGrows
<1>10. ASSUME NEW d \in BrokerIds PROVE OrderOK(d)'
  <2>1. CASE d = b
    BY <1>2, <1>3, <1>5, <2>1 DEF OrderOK, Sent, Live
  <2>2. CASE d # b
    BY <1>5, <2>2 DEF TypeInv, OrderOK, Sent, Live
  <2>3. QED
    BY <2>1, <2>2
<1>11. QED
  BY <1>7, <1>8, <1>9, <1>10 DEF TypeInv

LEMMA FaultType ==
  ASSUME TypeInv, NEW w \in Workers, StoreFails(w) \/ Crash(w)
  PROVE  TypeInv'
<1>1. \E r \in Worker : Becomes(w, r) /\ WorkerOK(r)
  BY RaiseIsOK, DoneIsOK DEF StoreFails, Crash
<1>2. QED
  BY <1>1, LocalStep DEF StoreFails, Crash

LEMMA StutterType == ASSUME TypeInv, UNCHANGED vars PROVE TypeInv'
<1>1. TypeOK' /\ BindingsAreReal'
  BY DEF TypeInv, vars, TypeOK, IntentsTypeOK, ReservationsTypeOK, BindingsAreReal, Visible
<1>2. \A w \in Workers : WorkerOK(wk[w])'
  BY DEF TypeInv, vars, WorkerOK, Sent, Visible
<1>3. \A b \in BrokerIds : OrderOK(b)'
  BY DEF TypeInv, vars, OrderOK, Sent, Live
<1>4. QED
  BY <1>1, <1>2, <1>3 DEF TypeInv

LEMMA NextTypeInv == TypeInv /\ [Next]_vars => TypeInv'
<1> SUFFICES ASSUME TypeInv, [Next]_vars PROVE TypeInv'
  OBVIOUS
<1>1. ASSUME NEW w \in Workers, NEW c \in ClientIds, NEW f \in Fingerprints, Start(w, c, f)
      PROVE  TypeInv'
  BY <1>1, StartType
<1>2. ASSUME NEW w \in Workers, WorkerStep(w) PROVE TypeInv'
  BY <1>2, ReserveRiskType, AuthorizeType, ConsumeType, SettleType, LookupType,
     CreateType, SubmitType, SubmitReturnsType, RecordType, ResolveType,
     GetBoundType, RereadType, QueryType, BindType
     DEF WorkerStep
<1>3. ASSUME NEW w \in Workers, StoreFails(w) \/ Crash(w) PROVE TypeInv'
  BY <1>3, FaultType
<1>4. ASSUME NEW b \in BrokerIds, BrokerStep(b) PROVE TypeInv'
  BY <1>4, BrokerType
<1>5. CASE UNCHANGED vars
  BY <1>5, StutterType
<1>6. QED
  BY <1>1, <1>2, <1>3, <1>4, <1>5 DEF Next

\* Every state of the live path is well typed, whatever crashes and whoever
\* shares the stores.
THEOREM TypeCorrect == Spec => []TypeOK
<1>1. TypeInv => TypeOK
  BY DEF TypeInv
<1>2. QED
  BY <1>1, InitTypeInv, NextTypeInv, PTL DEF Spec

\* An intent is bound only to an order that the broker holds for its client
\* id: neither the recovery of an ambiguous submission nor a late answer binds
\* a client id to the order of another (record_broker_order, recover_submission).
THEOREM BindingsCorrect == Spec => []BindingsAreReal
<1>1. TypeInv => BindingsAreReal
  BY DEF TypeInv
<1>2. QED
  BY <1>1, InitTypeInv, NextTypeInv, PTL DEF Spec

-----------------------------------------------------------------------------
(* Which steps touch a store, and through which operation.                 *)

LEMMA IntentSteps ==
  ASSUME [Next]_vars
  PROVE  \/ UNCHANGED intents
         \/ \E w \in Workers :
              \/ /\ At(w, "create") /\ GoTo(w, "submit")
                 /\ CreateIntent(wk[w].client, wk[w].fingerprint)
              \/ /\ wk[w].step \in {"record", "bind"}
                 /\ RecordBrokerOrder(wk[w].client, wk[w].broker, wk[w].answer)
              \/ At(w, "resolve") /\ ResolveIntent(wk[w].client)
<1>1. ASSUME NEW w \in Workers, WorkerStep(w)
      PROVE  \/ UNCHANGED intents
             \/ /\ At(w, "create") /\ GoTo(w, "submit")
                /\ CreateIntent(wk[w].client, wk[w].fingerprint)
             \/ /\ wk[w].step \in {"record", "bind"}
                /\ RecordBrokerOrder(wk[w].client, wk[w].broker, wk[w].answer)
             \/ At(w, "resolve") /\ ResolveIntent(wk[w].client)
  BY <1>1 DEF WorkerStep, ReserveRisk, Authorize, Refuses, ConsumeAuthorization, SettleRisk,
     LookupIntent, CreateStep, Submit, Send, SubmitReturns, RecordStep, ResolveStep,
     GetBoundOrder, RereadIntent, QueryBroker, BindRecovered, At
<1>2. QED
  BY <1>1 DEF Next, vars, Start, StoreFails, Crash, BrokerStep, BookStep, Receive, FillOne, Cancel

LEMMA ReservationSteps ==
  ASSUME [Next]_vars
  PROVE  \/ UNCHANGED reservations
         \/ \E w \in Workers :
              LET c == wk[w].client IN
              \/ At(w, "reserve") /\ Reserve(c, Quantity[c])
              \/ At(w, "authorize") /\ Release(c)
              \/ At(w, "settle") /\ Reconcile(c, wk[w].life, Quantity[c] - wk[w].lifeFilled)
<1>1. ASSUME NEW w \in Workers, WorkerStep(w)
      PROVE  \/ UNCHANGED reservations
             \/ LET c == wk[w].client IN
                \/ At(w, "reserve") /\ Reserve(c, Quantity[c])
                \/ At(w, "authorize") /\ Release(c)
                \/ At(w, "settle") /\ Reconcile(c, wk[w].life, Quantity[c] - wk[w].lifeFilled)
  BY <1>1 DEF WorkerStep, ReserveRisk, Authorize, Refuses, ConsumeAuthorization, SettleRisk,
     LookupIntent, CreateStep, Submit, Send, SubmitReturns, RecordStep, ResolveStep,
     GetBoundOrder, RereadIntent, QueryBroker, BindRecovered, At
<1>2. QED
  BY <1>1 DEF Next, vars, Start, StoreFails, Crash, BrokerStep, BookStep, Receive, FillOne, Cancel

\* The three operations of the store, on the record they address.
LEMMA IntentEffects ==
  ASSUME IntentsTypeOK, NEW c \in ClientIds, NEW f, NEW b, NEW s,
         CreateIntent(c, f) \/ RecordBrokerOrder(c, b, s) \/ ResolveIntent(c)
  PROVE  /\ \A d \in ClientIds : d # c => intents'[d] = intents[d]
         /\ \/ intents'[c] = intents[c]
            \/ intents[c].phase = "absent" /\ CreateIntent(c, f)
               /\ intents'[c].phase = "unresolved"
            \/ /\ intents[c].phase = "unresolved"
               /\ intents'[c].phase \in {"unresolved", "resolved"}
               /\ intents'[c].fingerprint = intents[c].fingerprint
               /\ intents[c].broker # NoBroker => intents'[c].broker = intents[c].broker
<1>0. intents[c] \in Intent
  BY DEF IntentsTypeOK
<1>1. CASE CreateIntent(c, f)
  BY <1>0, <1>1 DEF CreateIntent, CreateAccepts, Unresolved, NoIntent, Intent, IntentsTypeOK
<1>2. CASE RecordBrokerOrder(c, b, s)
  <2> DEFINE x == [[intents[c] EXCEPT !.broker = b] EXCEPT !.status = s]
  <2>1. intents' = [intents EXCEPT ![c] = x]
    BY <1>0, <1>2 DEF RecordBrokerOrder, Intent, IntentsTypeOK
  <2>2. x.phase = intents[c].phase /\ x.fingerprint = intents[c].fingerprint /\ x.broker = b
    BY <1>0 DEF Intent
  <2> HIDE DEF x
  <2>3. QED
    BY <1>2, <2>1, <2>2 DEF RecordBrokerOrder, RecordAccepts, Unresolved, IntentsTypeOK
<1>3. CASE ResolveIntent(c)
  <2> DEFINE x == [intents[c] EXCEPT !.phase = "resolved"]
  <2>1. intents' = [intents EXCEPT ![c] = x]
    BY <1>0, <1>3 DEF ResolveIntent, Intent, IntentsTypeOK
  <2>2. /\ x.phase = "resolved" /\ x.fingerprint = intents[c].fingerprint
        /\ x.broker = intents[c].broker
        /\ intents[c].phase = "resolved" => x = intents[c]
    BY <1>0 DEF Intent
  <2>3. intents[c].phase \in {"unresolved", "resolved"}
    BY <1>0, <1>3 DEF ResolveIntent, ResolveAccepts, Intent, Phases
  <2> HIDE DEF x
  <2>4. QED
    BY <2>1, <2>2, <2>3 DEF IntentsTypeOK
<1>4. QED
  BY <1>1, <1>2, <1>3

LEMMA NextIntent ==
  ASSUME TypeInv, [Next]_vars, NEW c \in ClientIds
  PROVE  \/ intents'[c] = intents[c]
         \/ /\ intents[c].phase = "absent" /\ intents'[c].phase = "unresolved"
            /\ \E w \in Workers : At(w, "create") /\ wk[w].client = c
                                  /\ CreateIntent(c, wk[w].fingerprint)
         \/ /\ intents[c].phase = "unresolved"
            /\ intents'[c].phase \in {"unresolved", "resolved"}
            /\ intents'[c].fingerprint = intents[c].fingerprint
            /\ intents[c].broker # NoBroker => intents'[c].broker = intents[c].broker
<1>1. CASE UNCHANGED intents
  BY <1>1
<1>2. ASSUME NEW w \in Workers, wk[w].client \in ClientIds,
             \/ At(w, "create") /\ CreateIntent(wk[w].client, wk[w].fingerprint)
             \/ /\ wk[w].step \in {"record", "bind"}
                /\ RecordBrokerOrder(wk[w].client, wk[w].broker, wk[w].answer)
             \/ At(w, "resolve") /\ ResolveIntent(wk[w].client)
      PROVE  \/ intents'[c] = intents[c]
             \/ /\ intents[c].phase = "absent" /\ intents'[c].phase = "unresolved"
                /\ At(w, "create") /\ wk[w].client = c
                /\ CreateIntent(c, wk[w].fingerprint)
             \/ /\ intents[c].phase = "unresolved"
                /\ intents'[c].phase \in {"unresolved", "resolved"}
                /\ intents'[c].fingerprint = intents[c].fingerprint
                /\ intents[c].broker # NoBroker => intents'[c].broker = intents[c].broker
  <2>1. IntentsTypeOK
    BY DEF TypeInv, TypeOK
  <2>2. CASE c # wk[w].client
    BY <1>2, <2>1, <2>2, IntentEffects
  <2>3. CASE c = wk[w].client
    <3>1. CASE At(w, "create") /\ CreateIntent(c, wk[w].fingerprint)
      BY <2>1, <3>1, IntentEffects, <2>3
    <3>2. CASE RecordBrokerOrder(c, wk[w].broker, wk[w].answer)
      <4>1. intents[c].phase = "unresolved"
        BY <3>2 DEF RecordBrokerOrder, RecordAccepts, Unresolved
      <4>2. QED
        BY <2>1, <3>2, <4>1, IntentEffects
    <3>3. CASE ResolveIntent(c)
      <4>1. intents[c].phase # "absent"
        BY <3>3 DEF ResolveIntent, ResolveAccepts
      <4>2. QED
        BY <2>1, <3>3, <4>1, IntentEffects
    <3>4. QED
      BY <1>2, <2>3, <3>1, <3>2, <3>3
  <2>4. QED
    BY <2>2, <2>3
<1>3. \A w \in Workers : wk[w].step # "idle" => wk[w].client \in ClientIds
  BY WorkerFacts DEF WorkerOK
<1>4. QED
  BY <1>1, <1>2, <1>3, IntentSteps DEF At

-----------------------------------------------------------------------------
(* How a worker comes to the steps before and at the submission, and how a *)
(* request comes to be sent.                                               *)

LEMMA WorkerMoves ==
  ASSUME TypeInv, NEW v \in Workers, NEW w \in Workers, NEW r, Becomes(v, r)
  PROVE  wk'[w] = IF w = v THEN r ELSE wk[w]
  BY DEF TypeInv, TypeOK, Becomes

LEMMA RaiseMoves ==
  ASSUME TypeInv, NEW v \in Workers, Raise(v)
  PROVE  \E r : Becomes(v, r) /\ r.step \in {"idle", "reread"}
                /\ (r.step # "idle" => r.client = wk[v].client)
<1> DEFINE x == [wk[v] EXCEPT !.path = "recover", !.step = "reread"]
<1>1. x.step = "reread" /\ x.client = wk[v].client
  BY WorkerFacts DEF Worker
<1>2. IdleWorker.step = "idle"
  BY DEF IdleWorker
<1>3. Becomes(v, x) \/ Becomes(v, IdleWorker)
  BY DEF Raise, Done
<1>4. QED
  BY <1>1, <1>2, <1>3

LEMMA ApplyMoves ==
  ASSUME TypeInv, NEW v \in Workers, NEW b, ApplyAnswer(v, b)
  PROVE  \E r : Becomes(v, r) /\ r.step \in {"idle", "reread", "record"}
                /\ (r.step # "idle" => r.client = wk[v].client)
<1> DEFINE s == orders[b].status
           f == orders[b].filled
           r == [wk[v] EXCEPT !.step = "record",
                              !.life = LifecycleStatus(s), !.lifeFilled = f,
                              !.broker = b, !.answer = s, !.answerFilled = f]
<1>1. wk[v] \in Worker
  BY WorkerFacts
<1>2. r.step = "record" /\ r.client = wk[v].client
  BY <1>1 DEF Worker
<1>3. Raise(v) \/ Becomes(v, r)
  BY DEF ApplyAnswer
<1>4. QED
  BY <1>2, <1>3, RaiseMoves

\* A step of worker v leaves it with a record that is idle, or serves the same
\* client id; "create" is entered only by a lookup that finds no unresolved
\* intent and "submit" only by a successful create.
LEMMA StepMoves ==
  ASSUME TypeInv, NEW v \in Workers, WorkerStep(v) \/ StoreFails(v) \/ Crash(v)
  PROVE  \E r : /\ Becomes(v, r)
                /\ r.step # "idle" => r.client = wk[v].client /\ wk[v].step # "idle"
                /\ r.step = "create" =>
                     ~Unresolved(wk[v].client) /\ UNCHANGED <<intents, orders>>
                /\ r.step = "submit" =>
                     /\ At(v, "create") /\ UNCHANGED orders
                     /\ CreateIntent(wk[v].client, wk[v].fingerprint)
<1>0. wk[v] \in Worker
  BY WorkerFacts
<1> DEFINE P(r) ==
      /\ r.step # "idle" => r.client = wk[v].client /\ wk[v].step # "idle"
      /\ r.step = "create" => ~Unresolved(wk[v].client) /\ UNCHANGED <<intents, orders>>
      /\ r.step = "submit" => /\ At(v, "create") /\ UNCHANGED orders
                              /\ CreateIntent(wk[v].client, wk[v].fingerprint)
<1>1. CASE Done(v)
  BY <1>1 DEF Done, IdleWorker
<1>2. CASE Raise(v) /\ wk[v].step # "idle"
  BY <1>2, RaiseMoves
<1>3. ASSUME NEW b, ApplyAnswer(v, b), wk[v].step # "idle"
      PROVE  \E r : Becomes(v, r) /\ P(r)
  BY <1>3, ApplyMoves
<1>4. ASSUME NEW s \in Steps \ {"idle", "create", "submit"}, wk[v].step # "idle",
             NEW x \in Worker, x.client = wk[v].client, x.step = s, Becomes(v, x)
      PROVE  \E r : Becomes(v, r) /\ P(r)
  BY <1>4
<1>5. ASSUME NEW s \in Steps \ {"idle", "create", "submit"}, wk[v].step # "idle", GoTo(v, s)
      PROVE  \E r : Becomes(v, r) /\ P(r)
  BY <1>0, <1>4, <1>5 DEF GoTo, Worker
<1>6. CASE ReserveRisk(v)
  BY <1>6, <1>1, <1>5 DEF ReserveRisk, At, Steps
<1>7. CASE Authorize(v)
  BY <1>7, <1>1, <1>5 DEF Authorize, Refuses, At, Steps
<1>8. CASE ConsumeAuthorization(v)
  BY <1>8, <1>1, <1>5 DEF ConsumeAuthorization, At, Steps
<1>9. CASE SettleRisk(v)
  BY <1>9, <1>1 DEF SettleRisk
<1>10. CASE LookupIntent(v)
  <2>1. CASE GoTo(v, "create") /\ ~Unresolved(wk[v].client)
    <3> DEFINE x == [wk[v] EXCEPT !.step = "create"]
    <3>1. x.step = "create" /\ x.client = wk[v].client
      BY <1>0 DEF Worker
    <3>2. QED
      BY <2>1, <3>1, <1>10 DEF GoTo, LookupIntent, At
  <2>2. ASSUME NEW b, Becomes(v, [wk[v] EXCEPT !.step = IF b = NoBroker THEN "reread" ELSE "getbound",
                                               !.path = "existing", !.broker = b])
        PROVE  \E r : Becomes(v, r) /\ P(r)
    <3> DEFINE x == [wk[v] EXCEPT !.step = IF b = NoBroker THEN "reread" ELSE "getbound",
                                  !.path = "existing", !.broker = b]
    <3>1. x.step \in {"reread", "getbound"} /\ x.client = wk[v].client
      BY <1>0 DEF Worker
    <3>2. QED
      BY <2>2, <3>1, <1>10 DEF LookupIntent, At
  <2>3. QED
    BY <1>10, <2>1, <2>2 DEF LookupIntent
<1>11. CASE CreateStep(v)
  <2>1. CASE CreateIntent(wk[v].client, wk[v].fingerprint) /\ GoTo(v, "submit")
    <3> DEFINE x == [wk[v] EXCEPT !.step = "submit"]
    <3>1. x.step = "submit" /\ x.client = wk[v].client
      BY <1>0 DEF Worker
    <3>2. QED
      BY <2>1, <3>1, <1>11 DEF GoTo, CreateStep, At
  <2>2. QED
    BY <1>11, <1>1, <2>1 DEF CreateStep
<1>12. CASE Submit(v)
  <2>1. PICK b \in BrokerIds : Becomes(v, [wk[v] EXCEPT !.step = "sent", !.broker = b])
    BY <1>12 DEF Submit, Send
  <2> DEFINE x == [wk[v] EXCEPT !.step = "sent", !.broker = b]
  <2>2. x.step = "sent" /\ x.client = wk[v].client
    BY <1>0 DEF Worker
  <2>3. QED
    BY <1>12, <2>1, <2>2 DEF Submit, Send, At
<1>13. CASE SubmitReturns(v)
  BY <1>13, <1>2, <1>3 DEF SubmitReturns, At
<1>14. CASE RecordStep(v)
  BY <1>14, <1>2, <1>5 DEF RecordStep, At, Steps
<1>15. CASE ResolveStep(v)
  BY <1>15, <1>2, <1>5 DEF ResolveStep, At, Steps
<1>16. CASE GetBoundOrder(v)
  BY <1>16, <1>1, <1>3 DEF GetBoundOrder, At
<1>17. CASE RereadIntent(v)
  <2> DEFINE x == [wk[v] EXCEPT !.step = "query", !.broker = intents[wk[v].client].broker]
  <2>1. x.step = "query" /\ x.client = wk[v].client
    BY <1>0 DEF Worker
  <2>2. Done(v) \/ Becomes(v, x)
    BY <1>17 DEF RereadIntent
  <2>3. QED
    BY <1>1, <1>17, <2>1, <2>2 DEF RereadIntent, At
<1>18. CASE QueryBroker(v)
  <2>1. ASSUME NEW b, Becomes(v, [wk[v] EXCEPT !.step = "bind", !.broker = b,
                                               !.answer = orders[b].status,
                                               !.answerFilled = orders[b].filled])
        PROVE  \E r : Becomes(v, r) /\ P(r)
    <3> DEFINE x == [wk[v] EXCEPT !.step = "bind", !.broker = b,
                                  !.answer = orders[b].status,
                                  !.answerFilled = orders[b].filled]
    <3>1. x.step = "bind" /\ x.client = wk[v].client
      BY <1>0 DEF Worker
    <3>2. QED
      BY <1>18, <2>1, <3>1 DEF QueryBroker, At
  <2>2. QED
    BY <1>1, <1>18, <2>1 DEF QueryBroker
<1>19. CASE BindRecovered(v)
  <2> DEFINE x == [wk[v] EXCEPT !.step = "record", !.life = LifecycleStatus(wk[v].answer),
                                !.lifeFilled = wk[v].answerFilled]
  <2>1. x.step = "record" /\ x.client = wk[v].client
    BY <1>0 DEF Worker
  <2>2. Done(v) \/ Becomes(v, x)
    BY <1>19 DEF BindRecovered
  <2>3. QED
    BY <1>1, <1>19, <2>1, <2>2 DEF BindRecovered, At
<1>20. CASE StoreFails(v)
  BY <1>20, <1>2 DEF StoreFails
<1>21. CASE Crash(v)
  BY <1>21, <1>1 DEF Crash
<1>22. QED
  BY <1>6, <1>7, <1>8, <1>9, <1>10, <1>11, <1>12, <1>13, <1>14, <1>15, <1>16, <1>17,
     <1>18, <1>19, <1>20, <1>21 DEF WorkerStep

\* The same for any step, seen from a worker w.
LEMMA WorkerHistory ==
  ASSUME TypeInv, [Next]_vars, NEW w \in Workers
  PROVE  \/ wk'[w] = wk[w]
         \/ wk'[w].step = "idle"
         \/ /\ wk'[w].step = "reserve"
            /\ \E c \in ClientIds, f \in Fingerprints : Start(w, c, f) /\ wk'[w].client = c
         \/ /\ wk[w].step # "idle" /\ wk'[w].client = wk[w].client
            /\ wk'[w].step = "create" =>
                 ~Unresolved(wk[w].client) /\ UNCHANGED <<intents, orders>>
            /\ wk'[w].step = "submit" =>
                 /\ At(w, "create") /\ UNCHANGED orders
                 /\ CreateIntent(wk[w].client, wk[w].fingerprint)
<1>1. ASSUME NEW v \in Workers, WorkerStep(v) \/ StoreFails(v) \/ Crash(v)
      PROVE  \/ wk'[w] = wk[w]
             \/ wk'[w].step = "idle"
             \/ /\ wk[w].step # "idle" /\ wk'[w].client = wk[w].client
                /\ wk'[w].step = "create" =>
                     ~Unresolved(wk[w].client) /\ UNCHANGED <<intents, orders>>
                /\ wk'[w].step = "submit" =>
                     /\ At(w, "create") /\ UNCHANGED orders
                     /\ CreateIntent(wk[w].client, wk[w].fingerprint)
  BY <1>1, StepMoves, WorkerMoves
<1>2. ASSUME NEW v \in Workers, NEW c \in ClientIds, NEW f \in Fingerprints, Start(v, c, f)
      PROVE  wk'[w] = wk[w] \/ (v = w /\ wk'[w].step = "reserve" /\ wk'[w].client = c)
  <2> DEFINE x == [IdleWorker EXCEPT !.step = "reserve", !.client = c, !.fingerprint = f]
  <2>1. x.step = "reserve" /\ x.client = c
    BY DEF IdleWorker
  <2>2. Becomes(v, x)
    BY <1>2 DEF Start
  <2> HIDE DEF x
  <2>3. QED
    BY <2>1, <2>2, WorkerMoves
<1>3. ASSUME NEW b \in BrokerIds, BrokerStep(b) PROVE wk'[w] = wk[w]
  BY <1>3 DEF BrokerStep, BookStep, Receive, FillOne, Cancel
<1>4. CASE UNCHANGED vars
  BY <1>4 DEF vars
<1>5. QED
  BY <1>1, <1>2, <1>3, <1>4 DEF Next

\* What was sent stays sent to the same client id; what is newly sent was
\* submitted by a worker of that client id.
LEMMA OrderHistory ==
  ASSUME TypeInv, [Next]_vars, NEW b \in BrokerIds, Sent(b)'
  PROVE  \/ Sent(b) /\ orders'[b].client = orders[b].client
         \/ /\ UNCHANGED intents
            /\ \E w \in Workers :
                 /\ At(w, "submit") /\ orders'[b].client = wk[w].client
                 /\ \A d \in BrokerIds : d # b => orders'[d] = orders[d]
                 /\ wk'[w].step = "sent"
                 /\ \A v \in Workers : v # w => wk'[v] = wk[v]
<1>1. CASE UNCHANGED orders
  BY <1>1 DEF Sent
<1>2. ASSUME NEW w \in Workers, Submit(w)
      PROVE  \/ Sent(b) /\ orders'[b].client = orders[b].client
             \/ /\ UNCHANGED intents
                /\ At(w, "submit") /\ orders'[b].client = wk[w].client
                /\ \A d \in BrokerIds : d # b => orders'[d] = orders[d]
                /\ wk'[w].step = "sent"
                /\ \A v \in Workers : v # w => wk'[v] = wk[v]
  <2>1. PICK e \in BrokerIds :
          /\ orders' = [orders EXCEPT ![e] = [client |-> wk[w].client,
                                              status |-> "inflight", filled |-> 0]]
          /\ Becomes(w, [wk[w] EXCEPT !.step = "sent", !.broker = e])
    BY <1>2 DEF Submit, Send
  <2> DEFINE x == [wk[w] EXCEPT !.step = "sent", !.broker = e]
  <2>2. x.step = "sent"
    BY WorkerFacts DEF Worker
  <2> HIDE DEF x
  <2>3. wk'[w] = x /\ \A v \in Workers : v # w => wk'[v] = wk[v]
    BY <2>1, WorkerMoves DEF x
  <2>4. \A d \in BrokerIds : d # e => orders'[d] = orders[d]
    BY <2>1 DEF TypeInv, TypeOK
  <2>5. orders'[e].client = wk[w].client
    BY <2>1 DEF TypeInv, TypeOK
  <2>6. QED
    BY <1>2, <2>2, <2>3, <2>4, <2>5 DEF Submit, Send, Sent
<1>3. ASSUME NEW d \in BrokerIds, BrokerStep(d)
      PROVE  Sent(b) /\ orders'[b].client = orders[b].client
  <2>1. orders[d] \in Order /\ Sent(d)
    BY <1>3 DEF TypeInv, TypeOK, BrokerStep, BookStep, Receive, FillOne, Cancel, Sent
  <2>2. orders'[d].client = orders[d].client /\ \A e \in BrokerIds : e # d => orders'[e] = orders[e]
    BY <1>3, <2>1 DEF BrokerStep, BookStep, Receive, FillOne, Cancel, SetOrder,
                      TypeInv, TypeOK, Order
  <2>3. QED
    BY <2>1, <2>2 DEF Sent
<1>4. ASSUME NEW w \in Workers, WorkerStep(w), ~Submit(w) PROVE UNCHANGED orders
  BY <1>4 DEF WorkerStep, ReserveRisk, Authorize, Refuses, ConsumeAuthorization, SettleRisk,
     LookupIntent, CreateStep, SubmitReturns, RecordStep, ResolveStep,
     GetBoundOrder, RereadIntent, QueryBroker, BindRecovered
<1>5. QED
  BY <1>1, <1>2, <1>3, <1>4 DEF Next, vars, Start, StoreFails, Crash

-----------------------------------------------------------------------------
(* The durable intent precedes the request.                                *)

\* OrdersFollowIntents is not inductive by itself: a worker about to submit
\* must already have its intent.
PrecedeInv ==
  /\ TypeInv
  /\ \A c \in ClientIds : intents[c].phase = "absent" => intents[c].broker = NoBroker
  /\ OrdersFollowIntents
  /\ \A w \in Workers : At(w, "submit") => intents[wk[w].client].phase # "absent"

LEMMA InitPrecede == Init => PrecedeInv
  BY InitTypeInv DEF Init, BookInit, PrecedeInv, OrdersFollowIntents, IntentsInit, NoIntent,
     IdleWorker, NoOrder, Sent, At

LEMMA NextPrecede == PrecedeInv /\ [Next]_vars => PrecedeInv'
<1> SUFFICES ASSUME PrecedeInv, [Next]_vars PROVE PrecedeInv'
  OBVIOUS
<1>1. TypeInv /\ TypeInv'
  BY NextTypeInv DEF PrecedeInv
<1>2. \A c \in ClientIds : intents[c].phase # "absent" => intents'[c].phase # "absent"
  BY <1>1, NextIntent
<1>3. ASSUME NEW c \in ClientIds, intents'[c].phase = "absent"
      PROVE  intents'[c].broker = NoBroker
  BY <1>1, <1>3, NextIntent DEF PrecedeInv
<1>4. \A w \in Workers : wk[w].step # "idle" => wk[w].client \in ClientIds
  BY <1>1, WorkerFacts DEF WorkerOK
<1>5. \A w \in Workers : wk'[w].step # "idle" => wk'[w].client \in ClientIds
  BY <1>1 DEF TypeInv, WorkerOK
<1>6. OrdersFollowIntents'
  <2> SUFFICES ASSUME NEW b \in BrokerIds, Sent(b)'
               PROVE  intents'[orders'[b].client].phase # "absent"
    BY DEF OrdersFollowIntents
  <2>1. CASE Sent(b) /\ orders'[b].client = orders[b].client
    <3>1. orders[b].client \in ClientIds
      BY <1>1, <2>1 DEF TypeInv, OrderOK
    <3>2. QED
      BY <1>2, <2>1, <3>1 DEF PrecedeInv, OrdersFollowIntents
  <2>2. ASSUME NEW w \in Workers, At(w, "submit"), orders'[b].client = wk[w].client,
               UNCHANGED intents
        PROVE  intents'[orders'[b].client].phase # "absent"
    BY <2>2 DEF PrecedeInv
  <2>3. QED
    BY <1>1, <2>1, <2>2, OrderHistory
<1>7. ASSUME NEW w \in Workers, wk'[w].step = "submit"
      PROVE  intents'[wk'[w].client].phase # "absent"
  <2>1. CASE wk'[w] = wk[w]
    BY <1>2, <1>4, <1>7, <2>1 DEF PrecedeInv, At
  <2>2. ASSUME wk'[w].client = wk[w].client, wk[w].step # "idle",
               CreateIntent(wk[w].client, wk[w].fingerprint)
        PROVE  intents'[wk'[w].client].phase # "absent"
    <3> DEFINE c == wk[w].client
    <3>1. c \in ClientIds /\ IntentsTypeOK
      BY <1>1, <1>4, <2>2 DEF TypeInv, TypeOK
    <3>2. intents'[c] = intents[c] => Unresolved(c) \/ intents'[c].phase = "unresolved"
      BY <2>2, <3>1 DEF CreateIntent, IntentsTypeOK
    <3>3. QED
      BY <2>2, <3>1, <3>2, IntentEffects DEF Unresolved
  <2>3. QED
    BY <1>1, <1>7, <2>1, <2>2, WorkerHistory
<1>8. QED
  BY <1>1, <1>3, <1>6, <1>7 DEF PrecedeInv, At

\* No request leaves for the broker before its durable intent exists, for any
\* number of workers, overlapping calls and crashes (execute(): create, submit).
THEOREM OrdersFollowIntentsCorrect == Spec => []OrdersFollowIntents
<1>1. PrecedeInv => OrdersFollowIntents
  BY DEF PrecedeInv
<1>2. QED
  BY <1>1, InitPrecede, NextPrecede, PTL DEF Spec

\* The durable record of an intention is one way for every interleaving of
\* creates, bindings and resolutions: its fingerprint and its binding are
\* written once, and nothing of it changes after resolve.
THEOREM HistoryCorrect == Spec => HistoryIsWriteOnce
<1> DEFINE Kept(c) ==
      /\ intents[c].phase = "resolved" => intents'[c] = intents[c]
      /\ intents[c].phase # "absent" =>
           /\ intents'[c].phase # "absent"
           /\ intents'[c].fingerprint = intents[c].fingerprint
      /\ intents[c].broker # NoBroker => intents'[c].broker = intents[c].broker
<1>1. PrecedeInv /\ [Next]_vars => [\A c \in ClientIds : Kept(c)]_intents
  <2> SUFFICES ASSUME PrecedeInv, [Next]_vars, NEW c \in ClientIds PROVE Kept(c)
    OBVIOUS
  <2>1. TypeInv /\ (intents[c].phase = "absent" => intents[c].broker = NoBroker)
    BY DEF PrecedeInv
  <2>2. QED
    BY <2>1, NextIntent
<1>2. QED
  BY <1>1, InitPrecede, NextPrecede, PTL DEF Spec, HistoryIsWriteOnce

-----------------------------------------------------------------------------
(* One request per client order id, when calls for an id do not overlap.   *)

\* With disjoint callers only its own worker touches a client id. Before it
\* submits, its intent is unresolved and nothing was sent; it comes to create
\* only when no unresolved intent was found, and create refuses a resolved one.
OneOrderInv ==
  /\ PrecedeInv
  /\ \A w \in Workers : wk[w].step # "idle" => wk[w].client \in Callers[w]
  /\ \A w \in Workers : At(w, "create") => ~Unresolved(wk[w].client)
  /\ \A w \in Workers : At(w, "submit") =>
       /\ Unresolved(wk[w].client)
       /\ \A b \in BrokerIds : Sent(b) => orders[b].client # wk[w].client
  /\ AtMostOneOrder

DisjointCalls ==
  \A v, w \in Workers : v # w => Callers[v] \cap Callers[w] = {}

LEMMA InitOneOrder == Init => OneOrderInv
  BY InitPrecede DEF Init, BookInit, OneOrderInv, IdleWorker, NoOrder, Sent, At, AtMostOneOrder

LEMMA NextOneOrder ==
  ASSUME DisjointCalls, OneOrderInv, [Next]_vars
  PROVE  OneOrderInv'
<1>1. TypeInv /\ PrecedeInv /\ PrecedeInv'
  BY NextPrecede DEF OneOrderInv, PrecedeInv
<1>2. \A w \in Workers : wk[w].step # "idle" => wk[w].client \in ClientIds
  BY <1>1, WorkerFacts DEF WorkerOK
<1>3. ASSUME NEW w \in Workers, wk'[w].step # "idle"
      PROVE  wk'[w].client \in Callers[w]
  <2>1. ASSUME NEW c \in ClientIds, NEW f \in Fingerprints, Start(w, c, f), wk'[w].client = c
        PROVE  wk'[w].client \in Callers[w]
    BY <2>1 DEF Start
  <2>2. QED
    BY <1>1, <1>3, <2>1, WorkerHistory DEF OneOrderInv
\* Another worker's step leaves this worker's intent alone.
<1>4. ASSUME NEW w \in Workers, wk[w].step \in {"create", "submit"}, wk'[w] = wk[w]
      PROVE  intents'[wk[w].client] = intents[wk[w].client]
  <2> DEFINE c == wk[w].client
  <2>1. c \in ClientIds /\ c \in Callers[w] /\ IntentsTypeOK
    BY <1>1, <1>2, <1>4 DEF OneOrderInv, TypeInv, TypeOK
  <2>2. ASSUME NEW v \in Workers, v # w, wk[v].step # "idle" PROVE wk[v].client # c
    BY <2>1, <2>2 DEF OneOrderInv, DisjointCalls
  <2>3. ASSUME NEW v \in Workers, wk[v].step # "idle", v # w,
               CreateIntent(wk[v].client, wk[v].fingerprint)
               \/ RecordBrokerOrder(wk[v].client, wk[v].broker, wk[v].answer)
               \/ ResolveIntent(wk[v].client)
        PROVE  intents'[c] = intents[c]
    BY <1>2, <2>1, <2>2, <2>3, IntentEffects
  <2>4. ASSUME At(w, "create"), GoTo(w, "submit") PROVE FALSE
    <3> DEFINE r == [wk[w] EXCEPT !.step = "submit"]
    <3>1. r.step = "submit" /\ wk'[w] = r
      BY <1>1, <2>4, WorkerFacts, WorkerMoves DEF GoTo, Worker
    <3>2. QED
      BY <1>4, <2>4, <3>1 DEF At
  <2>5. QED
    BY <1>4, <2>3, <2>4, IntentSteps DEF At
<1>5. ASSUME NEW w \in Workers, wk'[w].step = "create"
      PROVE  intents'[wk'[w].client].phase # "unresolved"
  <2>1. CASE wk'[w] = wk[w]
    BY <1>4, <1>5, <2>1 DEF OneOrderInv, Unresolved, At
  <2>2. CASE wk'[w] # wk[w]
    BY <1>1, <1>5, <2>2, WorkerHistory DEF Unresolved
  <2>3. QED
    BY <2>1, <2>2
<1>6. ASSUME NEW w \in Workers, wk'[w].step = "submit"
      PROVE  /\ intents'[wk'[w].client].phase = "unresolved"
             /\ \A b \in BrokerIds : Sent(b)' => orders'[b].client # wk'[w].client
  <2> DEFINE c == wk[w].client
  <2>1. CASE wk'[w] = wk[w]
    <3>1. intents'[c].phase = "unresolved"
      BY <1>4, <1>6, <2>1 DEF OneOrderInv, Unresolved, At
    <3>2. ASSUME NEW b \in BrokerIds, Sent(b)' PROVE orders'[b].client # c
      <4>1. CASE Sent(b) /\ orders'[b].client = orders[b].client
        BY <1>6, <2>1, <4>1 DEF OneOrderInv, At
      <4>2. ASSUME NEW v \in Workers, At(v, "submit"), orders'[b].client = wk[v].client,
                   wk'[v].step = "sent"
            PROVE  orders'[b].client # c
        <5>1. v # w
          BY <1>6, <4>2
        <5>2. wk[v].client # wk[w].client
          BY <1>6, <2>1, <4>2, <5>1 DEF OneOrderInv, DisjointCalls, At
        <5>3. QED
          BY <4>2, <5>2
      <4>3. QED
        BY <1>1, <3>2, <4>1, <4>2, OrderHistory
    <3>3. QED
      BY <2>1, <3>1, <3>2
  <2>2. CASE wk'[w] # wk[w]
    <3>1. /\ wk[w].step = "create" /\ wk'[w].client = c /\ UNCHANGED orders
          /\ CreateIntent(c, wk[w].fingerprint)
      BY <1>1, <1>6, <2>2, WorkerHistory DEF At
    <3>2. c \in ClientIds /\ ~Unresolved(c) /\ IntentsTypeOK
      BY <1>1, <1>2, <3>1 DEF OneOrderInv, At, TypeInv, TypeOK
    <3>3. intents[c].phase = "absent" /\ intents'[c].phase = "unresolved"
      BY <3>1, <3>2 DEF CreateIntent, CreateAccepts, Unresolved, IntentsTypeOK, NoIntent
    <3>4. \A b \in BrokerIds : Sent(b) => orders[b].client # c
      BY <1>1, <3>3 DEF PrecedeInv, OrdersFollowIntents
    <3>5. QED
      BY <3>1, <3>3, <3>4 DEF Sent
  <2>3. QED
    BY <2>1, <2>2
<1>7. AtMostOneOrder'
  <2> SUFFICES ASSUME NEW b \in BrokerIds, NEW d \in BrokerIds, Sent(b)', Sent(d)',
                      orders'[b].client = orders'[d].client, b # d
               PROVE  FALSE
    BY DEF AtMostOneOrder
  \* At most one request leaves in a step, for an id that none left for before.
  <2>1. ASSUME NEW x \in BrokerIds, NEW y \in BrokerIds, x # y, Sent(x)', Sent(y)',
               NEW w \in Workers, At(w, "submit"), orders'[x].client = wk[w].client,
               \A e \in BrokerIds : e # x => orders'[e] = orders[e]
        PROVE  orders'[y].client # orders'[x].client
    <3>1. Sent(y) /\ orders'[y] = orders[y]
      BY <2>1 DEF Sent
    <3>2. QED
      BY <2>1, <3>1 DEF OneOrderInv
  <2>2. CASE Sent(b) /\ orders'[b].client = orders[b].client
             /\ Sent(d) /\ orders'[d].client = orders[d].client
    BY <2>2 DEF OneOrderInv, AtMostOneOrder
  <2>3. QED
    BY <1>1, <2>1, <2>2, OrderHistory
<1>8. QED
  BY <1>1, <1>3, <1>5, <1>6, <1>7 DEF OneOrderInv, At, Unresolved

\* When no two workers execute the same client order id, at most one request
\* per id ever leaves for the broker, whatever is lost, delayed, retried or
\* restarted (get_unresolved before create, create before submit).
THEOREM AtMostOneOrderCorrect ==
  ASSUME DisjointCalls
  PROVE  Spec => []AtMostOneOrder
<1>1. OneOrderInv /\ [Next]_vars => OneOrderInv'
  BY NextOneOrder
<1>2. OneOrderInv => AtMostOneOrder
  BY DEF OneOrderInv
<1>3. QED
  BY <1>1, <1>2, InitOneOrder, PTL DEF Spec

-----------------------------------------------------------------------------
(* Reservations.                                                           *)

\* Every operation of the store keeps the life of a record one way.
LEMMA ReservationEffects ==
  ASSUME ReservationsTypeOK, NEW c \in ClientIds, NEW n \in Nat, NEW s,
         Reserve(c, n) \/ Release(c) \/ Reconcile(c, s, n), NEW d \in ClientIds
  PROVE  /\ reservations[d].status = "RELEASED" => reservations'[d] = reservations[d]
         /\ reservations[d].status = "ACTIVE" =>
              /\ reservations'[d].status # "none"
              /\ reservations'[d].amount <= reservations[d].amount
<1>1. reservations[c] \in Reservation /\ reservations[d] \in Reservation
  BY DEF ReservationsTypeOK
<1>2. CASE d # c
  BY <1>1, <1>2 DEF Reserve, Activate, Release, Reconcile, ReservationsTypeOK, Reservation
<1>3. CASE d = c /\ Reserve(c, n)
  BY <1>1, <1>3 DEF Reserve, Activate, ReserveAccepts, ReserveFits, Replays, ReservationsTypeOK, Reservation
<1>4. ASSUME d = c, Release(c) \/ Reconcile(c, s, n)
      PROVE  \E x : /\ reservations'[c] = x
                    /\ reservations[c].status = "RELEASED" => x = reservations[c]
                    /\ reservations[c].status = "ACTIVE" =>
                         x.status # "none" /\ x.amount <= reservations[c].amount
  <2> DEFINE gone == [reservations[c] EXCEPT !.status = "RELEASED"]
             less == [reservations[c] EXCEPT !.amount = n]
  <2>1. /\ gone.status = "RELEASED" /\ gone.amount = reservations[c].amount
        /\ reservations[c].status = "RELEASED" => gone = reservations[c]
        /\ less.status = reservations[c].status /\ less.amount = n
    BY <1>1 DEF Reservation
  <2>2. CASE Release(c)
    <3>1. reservations'[c] = gone
      BY <1>1, <2>2 DEF Release, ReservationsTypeOK, Reservation
    <3>2. QED
      BY <1>1, <2>1, <3>1 DEF Reservation
  <2>3. CASE Reconcile(c, s, n)
    <3>1. \/ reservations'[c] = gone
          \/ /\ reservations'[c] = less
             /\ reservations[c].status # "RELEASED" /\ s \notin TerminalStatuses
      BY <2>3 DEF Reconcile, ReconcileResult, ReservationsTypeOK
    <3>2. reservations'[c] = less /\ reservations[c].status = "ACTIVE" /\ s \notin TerminalStatuses
            => n <= reservations[c].amount
      BY <2>3 DEF Reconcile, ReconcileAccepts
    <3> HIDE DEF gone, less
    <3>3. QED
      BY <1>1, <2>1, <3>1, <3>2 DEF Reservation
  <2>4. QED
    BY <1>4, <2>2, <2>3
<1>5. QED
  BY <1>2, <1>3, <1>4

\* Exposure once released is never active again under its client order id, and
\* what is active only shrinks, however reserve, release and reconcile of
\* several workers interleave.
THEOREM ReservationsShrinkCorrect == Spec => ReservationsOnlyShrink
<1>1. TypeInv /\ [Next]_vars => [\A c \in ClientIds : ShrinksAtMost(c)]_reservations
  <2> SUFFICES ASSUME TypeInv, [Next]_vars, reservations' # reservations, NEW d \in ClientIds
               PROVE  ShrinksAtMost(d)
    OBVIOUS
  <2>1. PICK w \in Workers :
          LET c == wk[w].client IN
          \/ At(w, "reserve") /\ Reserve(c, Quantity[c])
          \/ At(w, "authorize") /\ Release(c)
          \/ At(w, "settle") /\ Reconcile(c, wk[w].life, Quantity[c] - wk[w].lifeFilled)
    BY ReservationSteps
  <2> DEFINE k == wk[w].client
  <2>2. k \in ClientIds /\ Quantity[k] \in Nat /\ ReservationsTypeOK
    BY <2>1, WorkerFacts DEF WorkerOK, At, TypeInv, TypeOK
  <2>3. At(w, "settle") => Quantity[k] - wk[w].lifeFilled \in Nat
    BY <2>2, WorkerFacts DEF WorkerOK, At, Worker
  <2>4. CASE Reserve(k, Quantity[k])
    BY <2>2, <2>4, ReservationEffects DEF ShrinksAtMost
  <2>5. CASE Release(k)
    BY <2>2, <2>5, ReservationEffects DEF ShrinksAtMost
  <2>6. CASE At(w, "settle") /\ Reconcile(k, wk[w].life, Quantity[k] - wk[w].lifeFilled)
    BY <2>2, <2>3, <2>6, ReservationEffects DEF ShrinksAtMost
  <2>7. QED
    BY <2>1, <2>4, <2>5, <2>6
<1>2. QED
  BY <1>1, InitTypeInv, NextTypeInv, PTL DEF Spec, ReservationsOnlyShrink

-----------------------------------------------------------------------------
(* Nothing is left behind a resolved intent.                               *)

\* A resolved intent is bound; with at most one order for its client id that
\* order is the bound one.
ResolvedInv ==
  /\ OneOrderInv
  /\ \A c \in ClientIds : intents[c].phase = "resolved" => intents[c].broker # NoBroker

\* Only resolve, which asks for a binding, makes an intent resolved.
LEMMA ResolvesBound ==
  ASSUME TypeInv, [Next]_vars, NEW c \in ClientIds,
         intents[c].phase # "resolved", intents'[c].phase = "resolved"
  PROVE  intents[c].broker # NoBroker /\ intents[c].phase = "unresolved"
<1>1. /\ intents[c].phase = "unresolved" /\ IntentsTypeOK /\ intents[c] \in Intent
      /\ intents' # intents
  BY NextIntent DEF TypeInv, TypeOK, IntentsTypeOK
<1>2. \A w \in Workers : wk[w].step # "idle" => wk[w].client \in ClientIds
  BY WorkerFacts DEF WorkerOK
<1>3. PICK w \in Workers :
        \/ At(w, "create") /\ CreateIntent(wk[w].client, wk[w].fingerprint)
        \/ /\ wk[w].step \in {"record", "bind"}
           /\ RecordBrokerOrder(wk[w].client, wk[w].broker, wk[w].answer)
        \/ At(w, "resolve") /\ ResolveIntent(wk[w].client)
  BY <1>1, IntentSteps
<1> DEFINE k == wk[w].client
<1>4. k \in ClientIds
  BY <1>2, <1>3 DEF At
<1>5. ~CreateIntent(k, wk[w].fingerprint)
  BY <1>1, <1>4 DEF CreateIntent, CreateAccepts, Unresolved, NoIntent, IntentsTypeOK
<1>6. ~RecordBrokerOrder(k, wk[w].broker, wk[w].answer)
  <2> SUFFICES ASSUME RecordBrokerOrder(k, wk[w].broker, wk[w].answer) PROVE FALSE
    OBVIOUS
  <2> DEFINE x == [[intents[k] EXCEPT !.broker = wk[w].broker] EXCEPT !.status = wk[w].answer]
  <2>1. intents' = [intents EXCEPT ![k] = x]
    BY <1>1, <1>4 DEF RecordBrokerOrder, Intent, IntentsTypeOK
  <2>2. x.phase = intents[k].phase
    BY <1>1, <1>4 DEF Intent, IntentsTypeOK
  <2> HIDE DEF x
  <2>3. QED
    BY <1>1, <1>4, <2>1, <2>2 DEF IntentsTypeOK
<1>7. ResolveIntent(k)
  BY <1>3, <1>5, <1>6
<1>8. k = c
  BY <1>1, <1>4, <1>7 DEF ResolveIntent, IntentsTypeOK
<1>9. QED
  BY <1>1, <1>7, <1>8 DEF ResolveIntent, ResolveAccepts

LEMMA InitResolved == Init => ResolvedInv
  BY InitOneOrder DEF Init, ResolvedInv, IntentsInit, NoIntent

LEMMA NextResolved ==
  ASSUME DisjointCalls, ResolvedInv, [Next]_vars
  PROVE  ResolvedInv'
<1>1. OneOrderInv'
  BY NextOneOrder DEF ResolvedInv
<1>2. TypeInv
  BY DEF ResolvedInv, OneOrderInv, PrecedeInv
<1>3. ASSUME NEW c \in ClientIds, intents'[c].phase = "resolved"
      PROVE  intents'[c].broker # NoBroker
  BY <1>2, <1>3, ResolvesBound, NextIntent DEF ResolvedInv
<1>4. QED
  BY <1>1, <1>3 DEF ResolvedInv

LEMMA ResolvedHidesNone == ResolvedInv => ResolvedIntentsHideNoOrder
<1> SUFFICES ASSUME ResolvedInv, NEW b \in BrokerIds, Sent(b),
                    intents[orders[b].client].phase = "resolved"
             PROVE  intents[orders[b].client].broker = b
  BY DEF ResolvedIntentsHideNoOrder
<1> DEFINE c == orders[b].client
           d == intents[c].broker
<1>1. TypeInv /\ BindingsAreReal /\ AtMostOneOrder
  BY DEF ResolvedInv, OneOrderInv, PrecedeInv, TypeInv
<1>2. c \in ClientIds
  BY <1>1 DEF TypeInv, OrderOK
<1>3. d # NoBroker /\ d \in BrokerIds
  BY <1>1, <1>2 DEF ResolvedInv, TypeInv, TypeOK, IntentsTypeOK, Intent
<1>4. Visible(d) /\ orders[d].client = c
  BY <1>1, <1>2, <1>3 DEF BindingsAreReal
<1>5. Sent(d)
  BY <1>4 DEF Visible, Sent, BookStatuses
<1>6. QED
  BY <1>1, <1>3, <1>4, <1>5 DEF AtMostOneOrder

\* When no two workers execute the same client order id, what unresolved() no
\* longer shows has left nothing at the broker but the order it is bound to
\* (live_execution_gateway.py execute, recover_submission).
THEOREM ResolvedIntentsHideNoOrderCorrect ==
  ASSUME DisjointCalls
  PROVE  Spec => []ResolvedIntentsHideNoOrder
<1>1. ResolvedInv /\ [Next]_vars => ResolvedInv'
  BY NextResolved
<1>2. QED
  BY <1>1, InitResolved, ResolvedHidesNone, PTL DEF Spec

-----------------------------------------------------------------------------
(* The live path implements the ledger.                                    *)

LEMMA BookGrowsAlways == ASSUME TypeInv, [Next]_vars PROVE BookGrows
<1>1. CASE UNCHANGED orders
  BY <1>1 DEF BookGrows, Sent, Visible
<1>2. ASSUME NEW w \in Workers, Submit(w) PROVE BookGrows
  BY <1>2 DEF Submit, Send, BookGrows, Sent, Visible, BookStatuses, TypeInv, TypeOK, Order
<1>3. ASSUME NEW b \in BrokerIds, BrokerStep(b) PROVE BookGrows
  <2>1. orders[b] \in Order /\ orders \in [BrokerIds -> Order]
    BY DEF TypeInv, TypeOK
  <2>2. /\ orders'[b].client = orders[b].client /\ orders'[b].status # "unused"
        /\ Visible(b) => orders'[b].status \in BookStatuses
        /\ \A e \in BrokerIds : e # b => orders'[e] = orders[e]
    BY <1>3, <2>1 DEF BrokerStep, BookStep, Receive, FillOne, Cancel, SetOrder, Order,
                      Visible, BookStatuses
  <2>3. QED
    BY <2>2 DEF BookGrows, Sent, Visible
<1>4. ASSUME NEW w \in Workers, WorkerStep(w), ~Submit(w) PROVE UNCHANGED orders
  BY <1>4 DEF WorkerStep, ReserveRisk, Authorize, Refuses, ConsumeAuthorization, SettleRisk,
     LookupIntent, CreateStep, SubmitReturns, RecordStep, ResolveStep,
     GetBoundOrder, RereadIntent, QueryBroker, BindRecovered
<1>5. QED
  BY <1>1, <1>2, <1>3, <1>4 DEF Next, vars, Start, StoreFails, Crash

\* What an entry of the ledger is, from the phase of the intent and the order.
EntryOK(c) ==
  /\ \/ OrdersOf(c) = {} /\ intents[c].phase # "resolved"
     \/ intents[c].phase # "absent" /\ \E b \in BrokerIds : OrdersOf(c) = {b}
  /\ OrdersOf(c) = {} =>
       LedgerEntry(c) = [stage |-> IF intents[c].phase = "absent" THEN "new" ELSE "intended",
                         order |-> NoBroker]
  /\ \A b \in BrokerIds : OrdersOf(c) = {b} =>
       LedgerEntry(c) = [stage |-> IF intents[c].phase = "resolved" THEN "tracked" ELSE "sent",
                         order |-> b]

Entries == \A c \in ClientIds : EntryOK(c)

LEMMA EntryValues == ResolvedInv => Entries
<1> SUFFICES ASSUME ResolvedInv, NEW c \in ClientIds PROVE EntryOK(c)
  BY DEF Entries
<1>0. TypeInv /\ BindingsAreReal /\ AtMostOneOrder /\ OrdersFollowIntents
  BY DEF ResolvedInv, OneOrderInv, PrecedeInv, TypeInv
<1>1. intents[c].phase \in Phases
  BY <1>0 DEF TypeInv, TypeOK, IntentsTypeOK, Intent
<1>2. \A b \in OrdersOf(c) : /\ b \in BrokerIds /\ intents[c].phase # "absent"
                             /\ OrdersOf(c) = {b}
  BY <1>0 DEF OrdersFollowIntents, OrdersOf, AtMostOneOrder
<1>3. intents[c].phase = "resolved" => OrdersOf(c) # {}
  <2> SUFFICES ASSUME intents[c].phase = "resolved" PROVE intents[c].broker \in OrdersOf(c)
    OBVIOUS
  <2>1. intents[c].broker # NoBroker /\ intents[c].broker \in BrokerIds
    BY <1>0 DEF ResolvedInv, TypeInv, TypeOK, IntentsTypeOK, Intent
  <2>2. QED
    BY <1>0, <2>1 DEF BindingsAreReal, OrdersOf, Visible, Sent, BookStatuses
<1>4. \A b \in BrokerIds : OrdersOf(c) = {b} => (CHOOSE d \in OrdersOf(c) : TRUE) = b
  OBVIOUS
<1>5. OrdersOf(c) = {} =>
        LedgerEntry(c) = [stage |-> IF intents[c].phase = "absent" THEN "new" ELSE "intended",
                          order |-> NoBroker]
  BY <1>1, <1>3 DEF LedgerEntry, Phases
<1>6. ASSUME NEW b \in BrokerIds, OrdersOf(c) = {b}
      PROVE  LedgerEntry(c) = [stage |-> IF intents[c].phase = "resolved" THEN "tracked" ELSE "sent",
                               order |-> b]
  <2>1. intents[c].phase # "absent" /\ OrdersOf(c) # {}
    BY <1>2, <1>6
  <2>2. (CHOOSE d \in OrdersOf(c) : TRUE) = b
    BY <1>4, <1>6
  <2>3. QED
    BY <1>1, <2>1, <2>2 DEF LedgerEntry, Phases
<1>7. QED
  BY <1>2, <1>3, <1>5, <1>6 DEF EntryOK

\* The entries of the ids whose phase and orders stay as they are stay, too.
LEMMA EntryStays ==
  ASSUME Entries, Entries', NEW c \in ClientIds, OrdersOf(c)' = OrdersOf(c),
         intents'[c].phase = intents[c].phase
  PROVE  LedgerEntry(c)' = LedgerEntry(c)
<1>1. EntryOK(c) /\ EntryOK(c)'
  BY DEF Entries
<1>2. CASE OrdersOf(c) = {}
  BY <1>1, <1>2 DEF EntryOK
<1>3. CASE \E b \in BrokerIds : OrdersOf(c) = {b}
  BY <1>1, <1>3 DEF EntryOK
<1>4. QED
  BY <1>1, <1>2, <1>3 DEF EntryOK

TheLedger == [c \in ClientIds |-> LedgerEntry(c)]

LEMMA EntryMoves ==
  ASSUME Entries, Entries', NEW c \in ClientIds, NEW e, LedgerEntry(c)' = e,
         \A d \in ClientIds \ {c} :
            intents'[d].phase = intents[d].phase /\ OrdersOf(d)' = OrdersOf(d)
  PROVE  TheLedger' = [TheLedger EXCEPT ![c] = e]
  BY EntryStays DEF TheLedger

\* The mapping of a step: to an action of the ledger or to none.
LedgerStep ==
  \/ \E c \in ClientIds :
       \/ /\ TheLedger[c].stage = "new"
          /\ TheLedger' = [TheLedger EXCEPT ![c].stage = "intended"]
       \/ \E b \in BrokerIds :
            /\ TheLedger[c].stage = "intended"
            /\ \A d \in ClientIds : TheLedger[d].order # b
            /\ TheLedger' = [TheLedger EXCEPT ![c] = [stage |-> "sent", order |-> b]]
       \/ /\ TheLedger[c].stage = "sent"
          /\ TheLedger' = [TheLedger EXCEPT ![c].stage = "tracked"]
  \/ TheLedger' = TheLedger

\* A step that sends nothing leaves the orders of every client id as they are.
LEMMA NothingSent ==
  ASSUME TypeInv, [Next]_vars, NEW c \in ClientIds,
         \A b \in BrokerIds : Sent(b)' => Sent(b) /\ orders'[b].client = orders[b].client
  PROVE  OrdersOf(c)' = OrdersOf(c)
  BY BookGrowsAlways DEF BookGrows, OrdersOf, Sent

\* One phase at most changes in a step, and only in one that sends nothing.
LEMMA OnePhase ==
  ASSUME TypeInv, [Next]_vars, intents' # intents
  PROVE  /\ \E c \in ClientIds :
              /\ \A d \in ClientIds \ {c} : intents'[d].phase = intents[d].phase
              /\ \/ intents'[c].phase = intents[c].phase
                 \/ intents[c].phase = "absent" /\ intents'[c].phase = "unresolved"
                 \/ intents[c].phase = "unresolved" /\ intents'[c].phase = "resolved"
         /\ \A d \in ClientIds : OrdersOf(d)' = OrdersOf(d)
<1>1. \A b \in BrokerIds : Sent(b)' => Sent(b) /\ orders'[b].client = orders[b].client
  BY OrderHistory
<1>2. PICK w \in Workers :
        \/ At(w, "create") /\ CreateIntent(wk[w].client, wk[w].fingerprint)
        \/ /\ wk[w].step \in {"record", "bind"}
           /\ RecordBrokerOrder(wk[w].client, wk[w].broker, wk[w].answer)
        \/ At(w, "resolve") /\ ResolveIntent(wk[w].client)
  BY IntentSteps
<1>3. wk[w].client \in ClientIds /\ IntentsTypeOK
  BY <1>2, WorkerFacts DEF WorkerOK, At, TypeInv, TypeOK
<1>4. \A d \in ClientIds \ {wk[w].client} : intents'[d] = intents[d]
  BY <1>2, <1>3, IntentEffects
<1>5. LET c == wk[w].client
      IN  \/ intents'[c].phase = intents[c].phase
          \/ intents[c].phase = "absent" /\ intents'[c].phase = "unresolved"
          \/ intents[c].phase = "unresolved" /\ intents'[c].phase = "resolved"
  BY <1>3, NextIntent
<1>6. QED
  BY <1>1, <1>3, <1>4, <1>5, NothingSent

\* create of a new id intends; resolve tracks.
LEMMA PhaseImplements ==
  ASSUME ResolvedInv, Entries, Entries', NEW c \in ClientIds,
         \A d \in ClientIds : OrdersOf(d)' = OrdersOf(d),
         \A d \in ClientIds \ {c} : intents'[d].phase = intents[d].phase,
         \/ intents'[c].phase = intents[c].phase
         \/ intents[c].phase = "absent" /\ intents'[c].phase = "unresolved"
         \/ intents[c].phase = "unresolved" /\ intents'[c].phase = "resolved"
  PROVE  LedgerStep
<1>1. EntryOK(c) /\ EntryOK(c)'
  BY DEF Entries
<1>2. CASE intents'[c].phase = intents[c].phase
  BY <1>2, EntryStays DEF LedgerStep, TheLedger
<1>3. ASSUME NEW s, NEW t, NEW b, LedgerEntry(c) = [stage |-> s, order |-> b],
             LedgerEntry(c)' = [stage |-> t, order |-> b]
      PROVE  TheLedger[c].stage = s /\ TheLedger' = [TheLedger EXCEPT ![c].stage = t]
  <2>1. TheLedger' = [TheLedger EXCEPT ![c] = [stage |-> t, order |-> b]]
    BY <1>3, EntryMoves
  <2>2. TheLedger[c] = [stage |-> s, order |-> b]
    BY <1>3 DEF TheLedger
  <2>3. [TheLedger[c] EXCEPT !.stage = t] = [stage |-> t, order |-> b]
    BY <2>2
  <2>4. [TheLedger EXCEPT ![c].stage = t]
          = [TheLedger EXCEPT ![c] = [TheLedger[c] EXCEPT !.stage = t]]
    OBVIOUS
  <2>5. TheLedger' = [TheLedger EXCEPT ![c].stage = t]
    BY <2>1, <2>2, <2>3, <2>4, Zenon
  <2>6. QED
    BY <2>2, <2>5
<1>4. CASE intents[c].phase = "absent" /\ intents'[c].phase = "unresolved"
  <2>1. OrdersOf(c) = {} /\ OrdersOf(c)' = {}
    BY <1>1, <1>4 DEF EntryOK
  <2>2. LedgerEntry(c) = [stage |-> "new", order |-> NoBroker]
    BY <1>1, <1>4, <2>1 DEF EntryOK
  <2>3. LedgerEntry(c)' = [stage |-> "intended", order |-> NoBroker]
    BY <1>1, <1>4, <2>1 DEF EntryOK
  <2>4. TheLedger[c].stage = "new" /\ TheLedger' = [TheLedger EXCEPT ![c].stage = "intended"]
    BY <1>3, <2>2, <2>3
  <2>5. QED
    BY <2>4, Zenon DEF LedgerStep
<1>5. CASE intents[c].phase = "unresolved" /\ intents'[c].phase = "resolved"
  <2>1. OrdersOf(c)' # {}
    BY <1>1, <1>5 DEF EntryOK
  <2>2. PICK b \in BrokerIds : OrdersOf(c) = {b}
    BY <1>1, <2>1 DEF EntryOK
  <2>3. OrdersOf(c)' = {b}
    BY <2>2
  <2>4. LedgerEntry(c) = [stage |-> "sent", order |-> b]
    BY <1>1, <1>5, <2>2 DEF EntryOK
  <2>5. LedgerEntry(c)' = [stage |-> "tracked", order |-> b]
    BY <1>1, <1>5, <2>3 DEF EntryOK
  <2>6. TheLedger[c].stage = "sent" /\ TheLedger' = [TheLedger EXCEPT ![c].stage = "tracked"]
    BY <1>3, <2>4, <2>5
  <2>7. QED
    BY <2>6, Zenon DEF LedgerStep
<1>6. QED
  BY <1>2, <1>4, <1>5

\* submit_order sends, for an id that is intended and that nothing was sent for.
LEMMA SubmitImplements ==
  ASSUME ResolvedInv, Entries, Entries', NEW w \in Workers, Submit(w)
  PROVE  LedgerStep
<1>0. PICK c \in ClientIds : c = wk[w].client
  BY WorkerFacts DEF ResolvedInv, OneOrderInv, PrecedeInv, Submit, At, WorkerOK
<1> DEFINE o == [client |-> c, status |-> "inflight", filled |-> 0]
<1>1. TypeInv /\ c \in ClientIds /\ Unresolved(c)
      /\ \A d \in BrokerIds : Sent(d) => orders[d].client # c
  BY <1>0 DEF ResolvedInv, OneOrderInv, PrecedeInv, Submit, At
<1>2. PICK b \in BrokerIds : ~Sent(b) /\ orders' = [orders EXCEPT ![b] = o]
  BY <1>0 DEF Submit, Send
<1>3. orders'[b] = o /\ \A d \in BrokerIds \ {b} : orders'[d] = orders[d]
  BY <1>1, <1>2 DEF TypeInv, TypeOK
<1>4. OrdersOf(c) = {} /\ OrdersOf(c)' = {b}
  <2>1. OrdersOf(c) = {}
    BY <1>1 DEF OrdersOf
  <2>2. o.client = c /\ o.status # "unused"
    OBVIOUS
  <2>3. \A d \in BrokerIds : Sent(d)' /\ orders'[d].client = c <=> d = b
    BY <1>1, <1>3, <2>2 DEF Sent
  <2>4. QED
    BY <2>1, <2>3, Zenon DEF OrdersOf
<1>5. ASSUME NEW d \in ClientIds \ {c} PROVE OrdersOf(d)' = OrdersOf(d)
  <2>1. o.client # d /\ ~Sent(b)
    BY <1>2
  <2>2. QED
    BY <1>3, <2>1 DEF OrdersOf, Sent
<1>6. intents' = intents /\ EntryOK(c) /\ EntryOK(c)'
  BY <1>1 DEF Submit, Entries
<1>7. LedgerEntry(c) = [stage |-> "intended", order |-> NoBroker]
  BY <1>1, <1>4, <1>6 DEF EntryOK, Unresolved
<1>8. LedgerEntry(c)' = [stage |-> "sent", order |-> b]
  BY <1>1, <1>4, <1>6 DEF EntryOK, Unresolved
<1>9. TheLedger' = [TheLedger EXCEPT ![c] = [stage |-> "sent", order |-> b]]
  BY <1>1, <1>5, <1>6, <1>8, EntryMoves
<1>10. ASSUME NEW d \in ClientIds PROVE TheLedger[d].order # b
  <2>1. EntryOK(d) /\ b \notin OrdersOf(d) /\ b # NoBroker
    BY <1>2 DEF Entries, OrdersOf
  <2>2. LedgerEntry(d).order # b
    BY <2>1 DEF EntryOK
  <2>3. QED
    BY <2>2 DEF TheLedger
<1>11. TheLedger[c].stage = "intended"
  BY <1>1, <1>7 DEF TheLedger
<1>12. QED
  BY <1>1, <1>9, <1>10, <1>11, Zenon DEF LedgerStep

LEMMA StepImplements ==
  ASSUME ResolvedInv, Entries, Entries', [Next]_vars
  PROVE  LedgerStep
<1>0. TypeInv
  BY DEF ResolvedInv, OneOrderInv, PrecedeInv
<1>1. CASE intents' # intents
  BY <1>0, <1>1, OnePhase, PhaseImplements
<1>2. ASSUME NEW w \in Workers, Submit(w) PROVE LedgerStep
  BY <1>2, SubmitImplements
<1>3. CASE intents' = intents /\ \A w \in Workers : ~Submit(w)
  <2>1. UNCHANGED orders \/ \E b \in BrokerIds : BrokerStep(b)
    BY <1>3 DEF Next, vars, Start, StoreFails, Crash, WorkerStep, ReserveRisk, Authorize, Refuses,
       ConsumeAuthorization, SettleRisk, LookupIntent, CreateStep, SubmitReturns, RecordStep,
       ResolveStep, GetBoundOrder, RereadIntent, QueryBroker, BindRecovered
  <2>2. ASSUME NEW b \in BrokerIds, BrokerStep(b)
        PROVE  \A d \in BrokerIds : Sent(d)' => Sent(d)
    <3>1. orders[b] \in Order /\ Sent(b)
      BY <1>0, <2>2 DEF TypeInv, TypeOK, BrokerStep, BookStep, Receive, FillOne, Cancel, Sent
    <3>2. \A e \in BrokerIds : e # b => orders'[e] = orders[e]
      BY <1>0, <2>2, <3>1 DEF BrokerStep, BookStep, Receive, FillOne, Cancel, SetOrder,
                              TypeInv, TypeOK
    <3>3. QED
      BY <3>1, <3>2 DEF Sent
  <2>3. \A d \in BrokerIds : Sent(d)' => Sent(d) /\ orders'[d].client = orders[d].client
    BY <1>0, <2>1, <2>2, BookGrowsAlways DEF BookGrows, Sent
  <2>4. \A c \in ClientIds : OrdersOf(c)' = OrdersOf(c)
    BY <1>0, <2>3, NothingSent
  <2>5. QED
    BY <1>3, <2>4, EntryStays DEF LedgerStep, TheLedger
<1>4. QED
  BY <1>1, <1>2, <1>3

\* When no two workers execute the same client order id, the gateway with its
\* crashes, retries and recoveries is an OrderLedger: for every client id an
\* intention is written, one order at most is sent, and it is tracked, each once
\* (live_execution_gateway.py execute, recover_submission).
THEOREM LedgerImplemented ==
  ASSUME DisjointCalls
  PROVE  Spec => ImplementsLedger
<1>1. Init => Ledger!Init
  <2> SUFFICES ASSUME Init PROVE Ledger!Init
    OBVIOUS
  <2>1. Entries /\ \A c \in ClientIds : OrdersOf(c) = {} /\ intents[c].phase = "absent"
    BY InitResolved, EntryValues DEF Init, BookInit, NoOrder, OrdersOf, Sent, IntentsInit, NoIntent
  <2>2. \A c \in ClientIds : LedgerEntry(c) = [stage |-> "new", order |-> NoBroker]
    BY <2>1 DEF Entries, EntryOK
  <2>3. QED
    BY <2>2 DEF Ledger!Init
<1>2. ResolvedInv /\ [Next]_vars => ResolvedInv'
  BY NextResolved
<1>3. ResolvedInv /\ [Next]_vars => Entries /\ Entries'
  <2>1. ResolvedInv => Entries
    BY EntryValues
  <2>2. ResolvedInv' => Entries'
    BY EntryValues, PTL
  <2>3. QED
    BY <1>2, <2>1, <2>2
<1>4. ResolvedInv /\ [Next]_vars => [Ledger!Next]_TheLedger
  <2> SUFFICES ASSUME ResolvedInv, [Next]_vars PROVE [Ledger!Next]_TheLedger
    OBVIOUS
  <2>1. LedgerStep
    BY <1>3, StepImplements
  <2>2. QED
    BY <2>1 DEF LedgerStep, Ledger!Next, Ledger!Intend, Ledger!Send, Ledger!Track, TheLedger
<1>5. QED
  BY <1>1, <1>2, <1>4, InitResolved, PTL DEF Spec, ImplementsLedger, Ledger!Spec, TheLedger

-----------------------------------------------------------------------------
(* What may still fill stays reserved.                                     *)

\* Between the reservation and the request nothing shrinks it; what a worker
\* read of an order lags behind the order, and an end it read is final.
Reserving == {"authorize", "consume", "lookup", "create", "submit"}

Ended == {"FILLED", "CANCELLED", "REJECTED"}

LagsBehind(b, status, filled) ==
  /\ filled <= orders[b].filled
  /\ status \in Ended => ~Live(b)

WorkerReserves(r) ==
  /\ r.step \in Reserving =>
       reservations[r.client] = [status |-> "ACTIVE", amount |-> Quantity[r.client]]
  /\ r.step = "bind" => LagsBehind(r.broker, r.answer, r.answerFilled)
  /\ r.step \in {"record", "resolve", "settle"} =>
       /\ r.broker \in BrokerIds /\ Sent(r.broker) /\ orders[r.broker].client = r.client
       /\ LagsBehind(r.broker, r.life, r.lifeFilled)

ReservedInv ==
  /\ OneOrderInv
  /\ \A w \in Workers : WorkerReserves(wk[w])

LEMMA InitReserved == Init => ReservedInv
  BY InitOneOrder DEF Init, ReservedInv, WorkerReserves, IdleWorker, Reserving

\* A fill is never taken back, and an order that ended stays so.
BookLags ==
  \A b \in BrokerIds : Sent(b) =>
    /\ Sent(b)' /\ orders'[b].client = orders[b].client
    /\ orders[b].filled <= orders'[b].filled
    /\ Live(b)' => Live(b)

LEMMA BookStepLags == ASSUME TypeInv, NEW b \in BrokerIds, BrokerStep(b) PROVE BookLags
<1>1. orders[b] \in Order /\ orders \in [BrokerIds -> Order] /\ Live(b)
  BY DEF TypeInv, TypeOK, BrokerStep, BookStep, Receive, FillOne, Cancel, Live, LiveStatuses
<1>2. /\ orders'[b].client = orders[b].client /\ orders'[b].status # "unused"
      /\ orders[b].filled <= orders'[b].filled
  <2>1. CASE Receive(b)
    BY <1>1, <2>1 DEF Receive, SetOrder, Order
  <2>2. CASE Cancel(b)
    BY <1>1, <2>2 DEF Cancel, SetOrder, Order
  <2>3. CASE FillOne(b)
    <3> DEFINE s == IF Remaining(b) = 1 THEN "FILLED" ELSE "PARTIALLY_FILLED"
    <3>1. orders' = [orders EXCEPT ![b] = [client |-> orders[b].client, status |-> s,
                                           filled |-> orders[b].filled + 1]]
          /\ s # "unused"
      BY <2>3 DEF FillOne
    <3> HIDE DEF s
    <3>2. QED
      BY <1>1, <3>1 DEF Order
  <2>4. QED
    BY <2>1, <2>2, <2>3 DEF BrokerStep, BookStep
<1>3. \A e \in BrokerIds : e # b => orders'[e] = orders[e]
  BY <1>1 DEF BrokerStep, BookStep, Receive, FillOne, Cancel, SetOrder
<1>4. \A e \in BrokerIds : orders[e].filled \in Nat
  BY <1>1 DEF Order
<1>5. QED
  BY <1>1, <1>2, <1>3, <1>4 DEF BookLags, Sent, Live

LEMMA BookLagsAlways == ASSUME TypeInv, [Next]_vars PROVE BookLags
<1>0. \A e \in BrokerIds : orders[e].filled \in Nat
  BY DEF TypeInv, TypeOK, Order
<1>1. CASE UNCHANGED orders
  BY <1>0, <1>1 DEF BookLags, Sent, Live
<1>2. ASSUME NEW w \in Workers, Submit(w) PROVE BookLags
  BY <1>0, <1>2 DEF Submit, Send, BookLags, Sent, Live, TypeInv, TypeOK
<1>3. ASSUME NEW b \in BrokerIds, BrokerStep(b) PROVE BookLags
  BY <1>3, BookStepLags
<1>4. ASSUME NEW w \in Workers, WorkerStep(w), ~Submit(w) PROVE UNCHANGED orders
  BY <1>4 DEF WorkerStep, ReserveRisk, Authorize, Refuses, ConsumeAuthorization, SettleRisk,
     LookupIntent, CreateStep, SubmitReturns, RecordStep, ResolveStep,
     GetBoundOrder, RereadIntent, QueryBroker, BindRecovered
<1>5. QED
  BY <1>1, <1>2, <1>3, <1>4 DEF Next, vars, Start, StoreFails, Crash

\* What a worker read keeps lagging behind.
LEMMA LagStays ==
  ASSUME TypeInv, BookLags, NEW b \in BrokerIds, Sent(b), NEW s, NEW n \in Nat,
         LagsBehind(b, s, n)
  PROVE  orders'[b].filled \in Nat => LagsBehind(b, s, n)'
<1>1. orders[b].filled \in Nat
  BY DEF TypeInv, TypeOK, Order
<1>2. QED
  BY <1>1 DEF BookLags, LagsBehind

\* A worker that does not step keeps what it knows while its reservation stays.
LEMMA OthersReserve ==
  ASSUME TypeInv, TypeInv', BookLags, NEW w \in Workers, WorkerReserves(wk[w]), wk'[w] = wk[w],
         wk[w].step \in Reserving => reservations'[wk[w].client] = reservations[wk[w].client]
  PROVE  WorkerReserves(wk[w])'
<1>1. /\ wk[w] \in Worker /\ WorkerOK(wk[w])
      /\ \A b \in BrokerIds : orders'[b].filled \in Nat
  BY WorkerFacts DEF TypeInv, TypeOK, Order
<1>2. CASE wk[w].step \in Reserving
  BY <1>2 DEF WorkerReserves, Reserving
<1>3. CASE wk[w].step = "bind"
  <2>1. wk[w].broker \in BrokerIds /\ Sent(wk[w].broker)
    BY <1>1, <1>3 DEF WorkerOK, Visible, Sent, BookStatuses
  <2>2. LagsBehind(wk[w].broker, wk[w].answer, wk[w].answerFilled) /\ wk[w].answerFilled \in Nat
    BY <1>1, <1>3 DEF WorkerReserves, Worker
  <2>3. LagsBehind(wk[w].broker, wk[w].answer, wk[w].answerFilled)'
    BY <1>1, <2>1, <2>2, LagStays DEF LagsBehind, BookLags
  <2>4. QED
    BY <1>3, <2>3 DEF WorkerReserves, Reserving
<1>4. CASE wk[w].step \in {"record", "resolve", "settle"}
  <2>1. wk[w].broker \in BrokerIds /\ Sent(wk[w].broker) /\ orders[wk[w].broker].client = wk[w].client
    BY <1>4 DEF WorkerReserves
  <2>2. LagsBehind(wk[w].broker, wk[w].life, wk[w].lifeFilled) /\ wk[w].lifeFilled \in Nat
    BY <1>1, <1>4 DEF WorkerReserves, Worker
  <2>3. LagsBehind(wk[w].broker, wk[w].life, wk[w].lifeFilled)'
    BY <1>1, <2>1, <2>2, LagStays DEF LagsBehind, BookLags
  <2>4. Sent(wk[w].broker)' /\ orders'[wk[w].broker].client = orders[wk[w].broker].client
    BY <2>1 DEF BookLags
  <2>5. QED
    BY <1>4, <2>1, <2>3, <2>4 DEF WorkerReserves, Reserving
<1>5. QED
  BY <1>2, <1>3, <1>4 DEF WorkerReserves

-----------------------------------------------------------------------------
(* The worker that steps.                                                  *)

\* A record that is at none of the steps the invariant speaks of.
LEMMA ElsewhereReserves ==
  ASSUME NEW r, r.step \notin Reserving \cup {"bind", "record", "resolve", "settle"}
  PROVE  WorkerReserves(r)
  BY DEF WorkerReserves

LEMMA RaiseReserves ==
  ASSUME TypeInv, NEW w \in Workers, Raise(w)
  PROVE  wk'[w].step \in {"idle", "reread"}
  BY RaiseMoves, WorkerMoves

LEMMA DoneReserves ==
  ASSUME TypeInv, NEW w \in Workers, Done(w)
  PROVE  wk'[w].step = "idle"
  BY WorkerMoves DEF Done, IdleWorker

LEMMA GoToMoves ==
  ASSUME TypeInv, NEW w \in Workers, NEW s, GoTo(w, s)
  PROVE  wk'[w] = [wk[w] EXCEPT !.step = s] /\ wk'[w].step = s /\ wk'[w].client = wk[w].client
<1>1. wk[w] \in Worker
  BY WorkerFacts
<1>2. wk'[w] = [wk[w] EXCEPT !.step = s]
  BY WorkerMoves DEF GoTo
<1>3. QED
  BY <1>1, <1>2 DEF Worker

\* The worker reads an answer off the book and takes it for its own.
LEMMA ApplyReserves ==
  ASSUME TypeInv, NEW w \in Workers, NEW b \in BrokerIds, ApplyAnswer(w, b), Visible(b),
         orders[b].client = wk[w].client, UNCHANGED orders
  PROVE  WorkerReserves(wk[w])'
<1> DEFINE r == [wk[w] EXCEPT !.step = "record",
                              !.life = LifecycleStatus(orders[b].status),
                              !.lifeFilled = orders[b].filled,
                              !.broker = b, !.answer = orders[b].status,
                              !.answerFilled = orders[b].filled]
<1>0. wk[w] \in Worker /\ orders[b] \in Order
  BY WorkerFacts DEF TypeInv, TypeOK
<1>1. CASE Raise(w)
  BY <1>1, RaiseReserves DEF WorkerReserves, Reserving
<1>2. CASE Becomes(w, r)
  <2>1. wk'[w] = r
    BY <1>2, WorkerMoves
  <2>2. /\ r.step = "record" /\ r.broker = b /\ r.client = wk[w].client
        /\ r.life = LifecycleStatus(orders[b].status) /\ r.lifeFilled = orders[b].filled
    BY <1>0 DEF Worker
  <2>3. LagsBehind(b, r.life, r.lifeFilled)
    BY <1>0, <2>2 DEF LagsBehind, LifecycleStatus, Ended, Live, LiveStatuses, Order
  <2>4. Sent(b)
    BY DEF Visible, Sent, BookStatuses
  <2> HIDE DEF r
  <2>5. QED
    BY <2>1, <2>2, <2>3, <2>4 DEF WorkerReserves, Reserving, LagsBehind, Sent, Live
<1>3. QED
  BY <1>1, <1>2 DEF ApplyAnswer

\* The steps before the request.
LEMMA EarlyReserves ==
  ASSUME TypeInv, NEW w \in Workers, WorkerReserves(wk[w]),
         ReserveRisk(w) \/ Authorize(w) \/ ConsumeAuthorization(w) \/ LookupIntent(w)
         \/ CreateStep(w)
  PROVE  WorkerReserves(wk[w])'
<1>0. wk[w] \in Worker /\ WorkerOK(wk[w])
  BY WorkerFacts
<1>1. CASE Done(w)
  BY <1>1, DoneReserves DEF WorkerReserves, Reserving
<1>2. ASSUME NEW s \in Reserving, wk[w].step \in Reserving, GoTo(w, s), UNCHANGED reservations
      PROVE  WorkerReserves(wk[w])'
  <2>1. wk'[w].step = s /\ wk'[w].client = wk[w].client
    BY <1>2, GoToMoves
  <2>2. QED
    BY <1>2, <2>1 DEF WorkerReserves, Reserving
<1>3. CASE ReserveRisk(w)
  <2>1. CASE Reserve(wk[w].client, Quantity[wk[w].client]) /\ GoTo(w, "authorize")
    <3>1. wk'[w].step = "authorize" /\ wk'[w].client = wk[w].client
      BY <2>1, GoToMoves
    <3>2. wk[w].client \in ClientIds
      BY <1>0, <1>3 DEF WorkerOK, ReserveRisk, At
    <3>3. reservations'[wk[w].client] = [status |-> "ACTIVE", amount |-> Quantity[wk[w].client]]
      BY <2>1, <3>2 DEF Reserve, Activate, TypeInv, TypeOK, ReservationsTypeOK
    <3>4. QED
      BY <3>1, <3>3 DEF WorkerReserves, Reserving
  <2>2. QED
    BY <1>1, <1>3, <2>1 DEF ReserveRisk
<1>4. CASE Authorize(w)
  BY <1>1, <1>2, <1>4 DEF Authorize, Refuses, At, Reserving
<1>5. CASE ConsumeAuthorization(w)
  BY <1>1, <1>2, <1>5 DEF ConsumeAuthorization, At, Reserving
<1>6. CASE LookupIntent(w)
  <2> DEFINE b == intents[wk[w].client].broker
             r == [wk[w] EXCEPT !.step = IF b = NoBroker THEN "reread" ELSE "getbound",
                                !.path = "existing", !.broker = b]
  <2>1. CASE Becomes(w, r)
    <3>1. wk'[w] = r
      BY <2>1, WorkerMoves
    <3>2. r.step \in {"reread", "getbound"}
      BY <1>0 DEF Worker
    <3> HIDE DEF r
    <3>3. QED
      BY <3>1, <3>2 DEF WorkerReserves, Reserving
  <2>2. QED
    BY <1>2, <1>6, <2>1 DEF LookupIntent, At, Reserving
<1>7. CASE CreateStep(w)
  BY <1>1, <1>2, <1>7 DEF CreateStep, At, Reserving
<1>8. QED
  BY <1>3, <1>4, <1>5, <1>6, <1>7

\* The steps from the request on.
LEMMA LateReserves ==
  ASSUME TypeInv, NEW w \in Workers, WorkerReserves(wk[w]),
         Submit(w) \/ SubmitReturns(w) \/ RecordStep(w) \/ ResolveStep(w) \/ SettleRisk(w)
         \/ GetBoundOrder(w) \/ RereadIntent(w) \/ QueryBroker(w) \/ BindRecovered(w)
         \/ StoreFails(w) \/ Crash(w)
  PROVE  WorkerReserves(wk[w])'
<1>0. wk[w] \in Worker /\ WorkerOK(wk[w])
  BY WorkerFacts
<1>1. CASE Done(w)
  BY <1>1, DoneReserves DEF WorkerReserves, Reserving
<1>2. CASE Raise(w)
  BY <1>2, RaiseReserves DEF WorkerReserves, Reserving
<1>3. CASE Submit(w)
  <2>1. PICK b \in BrokerIds : Becomes(w, [wk[w] EXCEPT !.step = "sent", !.broker = b])
    BY <1>3 DEF Submit
  <2> DEFINE r == [wk[w] EXCEPT !.step = "sent", !.broker = b]
  <2>2. r.step = "sent"
    BY <1>0 DEF Worker
  <2>3. wk'[w] = r
    BY <2>1, WorkerMoves
  <2> HIDE DEF r
  <2>4. QED
    BY <2>2, <2>3 DEF WorkerReserves, Reserving
<1>4. CASE SubmitReturns(w)
  <2>1. wk[w].broker \in BrokerIds /\ orders[wk[w].broker].client = wk[w].client
    BY <1>0, <1>4 DEF WorkerOK, SubmitReturns, At
  <2>2. QED
    BY <1>2, <1>4, <2>1, ApplyReserves DEF SubmitReturns
\* The next step keeps the order and the life of the answer.
<1>5. ASSUME NEW s \in {"resolve", "settle"}, wk[w].step \in {"record", "resolve"}, GoTo(w, s),
             UNCHANGED orders
      PROVE  WorkerReserves(wk[w])'
  <2> DEFINE r == [wk[w] EXCEPT !.step = s]
  <2>1. wk'[w] = r
    BY <1>5, GoToMoves
  <2>2. /\ r.step = s /\ r.broker = wk[w].broker /\ r.client = wk[w].client
        /\ r.life = wk[w].life /\ r.lifeFilled = wk[w].lifeFilled
    BY <1>0 DEF Worker
  <2> HIDE DEF r
  <2>3. QED
    BY <1>5, <2>1, <2>2 DEF WorkerReserves, Reserving, LagsBehind, Sent, Live
<1>6. CASE RecordStep(w)
  BY <1>2, <1>5, <1>6 DEF RecordStep, At
<1>7. CASE ResolveStep(w)
  BY <1>2, <1>5, <1>7 DEF ResolveStep, At
<1>8. CASE GetBoundOrder(w)
  <2>1. wk[w].broker \in BrokerIds /\ Visible(wk[w].broker)
        /\ orders[wk[w].broker].client = wk[w].client
    BY <1>0, <1>8 DEF WorkerOK, GetBoundOrder, At
  <2>2. QED
    BY <1>1, <1>8, <2>1, ApplyReserves DEF GetBoundOrder
<1>9. CASE RereadIntent(w)
  <2> DEFINE r == [wk[w] EXCEPT !.step = "query", !.broker = intents[wk[w].client].broker]
  <2>1. CASE Becomes(w, r)
    <3>1. r.step = "query"
      BY <1>0 DEF Worker
    <3>2. wk'[w] = r
      BY <2>1, WorkerMoves
    <3> HIDE DEF r
    <3>3. QED
      BY <3>1, <3>2 DEF WorkerReserves, Reserving
  <2>2. QED
    BY <1>1, <1>9, <2>1 DEF RereadIntent
<1>10. CASE QueryBroker(w)
  <2>1. ASSUME NEW b \in BrokerIds,
               Becomes(w, [wk[w] EXCEPT !.step = "bind", !.broker = b,
                                        !.answer = orders[b].status,
                                        !.answerFilled = orders[b].filled])
        PROVE  WorkerReserves(wk[w])'
    <3> DEFINE r == [wk[w] EXCEPT !.step = "bind", !.broker = b,
                                  !.answer = orders[b].status,
                                  !.answerFilled = orders[b].filled]
    <3>1. wk'[w] = r
      BY <2>1, WorkerMoves
    <3>2. /\ r.step = "bind" /\ r.broker = b /\ r.answer = orders[b].status
          /\ r.answerFilled = orders[b].filled
      BY <1>0 DEF Worker
    <3> HIDE DEF r
    <3>3. UNCHANGED orders /\ orders[b].filled \in Nat
      BY <1>10 DEF QueryBroker, TypeInv, TypeOK, Order
    <3>4. QED
      <4>1. LagsBehind(b, orders[b].status, orders[b].filled)
        BY <3>3 DEF LagsBehind, Live, Ended, LiveStatuses
      <4>2. QED
        BY <3>1, <3>2, <3>3, <4>1 DEF WorkerReserves, Reserving, LagsBehind, Live
  <2>2. QED
    BY <1>1, <1>10, <2>1 DEF QueryBroker
<1>11. CASE BindRecovered(w)
  <2> DEFINE r == [wk[w] EXCEPT !.step = "record", !.life = LifecycleStatus(wk[w].answer),
                                !.lifeFilled = wk[w].answerFilled]
  <2>1. CASE Becomes(w, r)
    <3>1. wk'[w] = r
      BY <2>1, WorkerMoves
    <3>2. /\ r.step = "record" /\ r.broker = wk[w].broker /\ r.client = wk[w].client
          /\ r.life = LifecycleStatus(wk[w].answer) /\ r.lifeFilled = wk[w].answerFilled
      BY <1>0 DEF Worker
    <3> HIDE DEF r
    <3>3. /\ wk[w].broker \in BrokerIds /\ Sent(wk[w].broker)
          /\ orders[wk[w].broker].client = wk[w].client
          /\ LagsBehind(wk[w].broker, wk[w].answer, wk[w].answerFilled) /\ UNCHANGED orders
      BY <1>0, <1>11 DEF WorkerOK, WorkerReserves, BindRecovered, At, Visible, Sent, BookStatuses
    <3>4. LagsBehind(wk[w].broker, r.life, r.lifeFilled)
      BY <3>2, <3>3 DEF LagsBehind, LifecycleStatus, Ended
    <3>5. QED
      BY <3>1, <3>2, <3>3, <3>4 DEF WorkerReserves, Reserving, LagsBehind, Sent, Live
  <2>2. QED
    BY <1>1, <1>11, <2>1 DEF BindRecovered
<1>12. QED
  BY <1>1, <1>2, <1>3, <1>4, <1>6, <1>7, <1>8, <1>9, <1>10, <1>11
     DEF SettleRisk, StoreFails, Crash

-----------------------------------------------------------------------------
(* The reservations.                                                       *)

\* A step leaves the reservation of every client id but that of its worker.
LEMMA OwnReservation ==
  ASSUME TypeInv, [Next]_vars, NEW c \in ClientIds, reservations'[c] # reservations[c]
  PROVE  \E w \in Workers :
           /\ wk[w].client = c
           /\ \/ At(w, "reserve") /\ Reserve(c, Quantity[c])
              \/ At(w, "authorize") /\ Refuses(w) /\ wk'[w].step = "idle"
              \/ At(w, "settle") /\ Reconcile(c, wk[w].life, Quantity[c] - wk[w].lifeFilled)
<1>1. ASSUME NEW w \in Workers, WorkerStep(w)
      PROVE  \/ UNCHANGED reservations
             \/ LET k == wk[w].client IN
                \/ At(w, "reserve") /\ Reserve(k, Quantity[k])
                \/ At(w, "authorize") /\ Refuses(w)
                \/ At(w, "settle") /\ Reconcile(k, wk[w].life, Quantity[k] - wk[w].lifeFilled)
  BY <1>1 DEF WorkerStep, ReserveRisk, Authorize, ConsumeAuthorization, SettleRisk,
     LookupIntent, CreateStep, Submit, Send, SubmitReturns, RecordStep, ResolveStep,
     GetBoundOrder, RereadIntent, QueryBroker, BindRecovered, At
<1>2. PICK w \in Workers :
        LET k == wk[w].client IN
        \/ At(w, "reserve") /\ Reserve(k, Quantity[k])
        \/ At(w, "authorize") /\ Refuses(w)
        \/ At(w, "settle") /\ Reconcile(k, wk[w].life, Quantity[k] - wk[w].lifeFilled)
  BY <1>1 DEF Next, vars, Start, StoreFails, Crash, BrokerStep
<1>3. wk[w].client = c
  BY <1>2 DEF Refuses, Reserve, Activate, Release, Reconcile, TypeInv, TypeOK,
     ReservationsTypeOK
<1>4. QED
  BY <1>2, <1>3, DoneReserves DEF Refuses

\* Before its request, only the worker itself touches its reservation; and of its steps
\* from there to the request only a refusal does, which ends the call.
LEMMA StableReservation ==
  ASSUME DisjointCalls, ReservedInv, [Next]_vars, NEW w \in Workers,
         wk[w].step \in Reserving, wk'[w] = wk[w]
  PROVE  reservations'[wk[w].client] = reservations[wk[w].client]
<1>1. TypeInv /\ OneOrderInv
  BY DEF ReservedInv, OneOrderInv, PrecedeInv
<1>2. PICK c \in ClientIds : c = wk[w].client /\ c \in Callers[w]
  BY <1>1, WorkerFacts DEF WorkerOK, OneOrderInv, Reserving
<1>3. SUFFICES ASSUME reservations'[c] # reservations[c] PROVE FALSE
  BY <1>2
<1>4. PICK v \in Workers :
        /\ wk[v].client = c /\ wk[v].step \in {"reserve", "authorize", "settle"}
        /\ wk[v].step = "authorize" => wk'[v].step = "idle"
  BY <1>1, <1>3, OwnReservation DEF At
<1>5. c \in Callers[v]
  BY <1>1, <1>4 DEF OneOrderInv
<1>6. v # w
  BY <1>4 DEF Reserving
<1>7. QED
  BY <1>2, <1>5, <1>6 DEF DisjointCalls

LEMMA NextLiveReserved ==
  ASSUME ReservedInv, TypeInv', [Next]_vars, NEW b \in BrokerIds, Live(b)',
         Sent(b) => Reserved(b),
         ~\E w \in Workers : At(w, "authorize") /\ wk[w].client = orders[b].client /\ Refuses(w)
  PROVE  Reserved(b)'
<1>0. TypeInv /\ AtMostOneOrder /\ BookLags
  BY BookLagsAlways DEF ReservedInv, OneOrderInv, PrecedeInv
<1> SUFFICES /\ reservations'[orders'[b].client].status = "ACTIVE"
             /\ Remaining(b)' <= reservations'[orders'[b].client].amount
  BY DEF Reserved
<1>1. Sent(b)' /\ orders'[b].client \in ClientIds /\ orders'[b].filled \in Nat
      /\ orders'[b].filled < Quantity[orders'[b].client]
  BY DEF Live, LiveStatuses, Sent, TypeInv, OrderOK, TypeOK, Order
<1>2. PICK c \in ClientIds : c = orders'[b].client
  BY <1>1
<1>3. Quantity[c] \in Nat /\ reservations[c] \in Reservation /\ Remaining(b)' = Quantity[c] - orders'[b].filled
  BY <1>0, <1>2 DEF TypeInv, TypeOK, ReservationsTypeOK, Remaining
<1>4. CASE ~Sent(b)
  <2>1. PICK w \in Workers : At(w, "submit") /\ c = wk[w].client /\ orders' # orders
    BY <1>0, <1>1, <1>2, <1>4, OrderHistory DEF Sent
  <2>2. reservations[c] = [status |-> "ACTIVE", amount |-> Quantity[c]]
    BY <2>1 DEF ReservedInv, WorkerReserves, At, Reserving
  <2>3. UNCHANGED reservations
    BY <2>1 DEF Next, vars, Start, StoreFails, Crash, WorkerStep, ReserveRisk, Authorize, Refuses,
       ConsumeAuthorization, SettleRisk, LookupIntent, CreateStep, Submit, SubmitReturns,
       RecordStep, ResolveStep, GetBoundOrder, RereadIntent, QueryBroker, BindRecovered,
       BrokerStep
  <2>4. QED
    BY <1>1, <1>2, <1>3, <2>2, <2>3
<1>5. CASE Sent(b)
  <2>1. Live(b) /\ orders[b].client = c /\ orders[b].filled <= orders'[b].filled
        /\ orders[b].filled \in Nat
    BY <1>0, <1>2, <1>5 DEF BookLags, TypeInv, TypeOK, Order
  <2>2. reservations[c].status = "ACTIVE" /\ Quantity[c] - orders[b].filled <= reservations[c].amount
    BY <1>5, <2>1 DEF Reserved, Remaining
  <2>3. CASE reservations'[c] = reservations[c]
    BY <1>1, <1>2, <1>3, <2>1, <2>2, <2>3 DEF Reservation
  <2>4. CASE reservations'[c] # reservations[c]
    <3>1. PICK w \in Workers :
            /\ wk[w].client = c
            /\ \/ At(w, "reserve") /\ Reserve(c, Quantity[c])
               \/ At(w, "settle") /\ Reconcile(c, wk[w].life, Quantity[c] - wk[w].lifeFilled)
      BY <1>0, <2>1, <2>4, OwnReservation
    <3>2. CASE Reserve(c, Quantity[c])
      <4>1. reservations'[c] = [status |-> "ACTIVE", amount |-> Quantity[c]]
        BY <1>0, <3>2 DEF Reserve, Activate, TypeInv, TypeOK, ReservationsTypeOK
      <4>2. QED
        BY <1>1, <1>2, <1>3, <4>1
    <3>3. CASE At(w, "settle") /\ Reconcile(c, wk[w].life, Quantity[c] - wk[w].lifeFilled)
      <4> DEFINE left == Quantity[c] - wk[w].lifeFilled
      <4>1. /\ wk[w].broker \in BrokerIds /\ Sent(wk[w].broker)
            /\ orders[wk[w].broker].client = c
            /\ LagsBehind(wk[w].broker, wk[w].life, wk[w].lifeFilled)
        BY <3>1, <3>3 DEF ReservedInv, WorkerReserves, At
      <4>2. wk[w].broker = b
        BY <1>0, <1>5, <2>1, <4>1 DEF AtMostOneOrder
      <4>3. wk[w].life \notin TerminalStatuses /\ wk[w].lifeFilled <= orders[b].filled
            /\ wk[w].lifeFilled \in Nat
        BY <1>0, <2>1, <4>1, <4>2, WorkerFacts DEF LagsBehind, Ended, TerminalStatuses, Worker
      <4>4. left # 0 /\ left \in Nat /\ Quantity[c] - orders[b].filled <= left
        BY <1>1, <1>2, <1>3, <2>1, <4>3
      <4>5. reservations'[c] = [reservations[c] EXCEPT !.amount = left]
        BY <1>0, <2>2, <3>3, <4>3, <4>4 DEF Reconcile, ReconcileResult, TypeInv, TypeOK, ReservationsTypeOK
      <4>6. reservations'[c].status = "ACTIVE" /\ reservations'[c].amount = left
        BY <1>3, <2>2, <4>5 DEF Reservation
      <4> HIDE DEF left
      <4>7. QED
        BY <1>1, <1>2, <1>3, <2>1, <4>4, <4>6
    <3>4. QED
      BY <3>1, <3>2, <3>3
  <2>5. QED
    BY <2>3, <2>4
<1>6. QED
  BY <1>4, <1>5

LEMMA NextReserved ==
  ASSUME DisjointCalls, ReservedInv, [Next]_vars
  PROVE  ReservedInv'
<1>1. OneOrderInv' /\ TypeInv /\ TypeInv' /\ BookLags
  BY NextOneOrder, BookLagsAlways, NextTypeInv DEF ReservedInv, OneOrderInv, PrecedeInv
<1>2. ASSUME NEW w \in Workers PROVE WorkerReserves(wk[w])'
  <2>0. WorkerReserves(wk[w])
    BY DEF ReservedInv
  <2>1. CASE wk'[w] = wk[w]
    BY <1>1, <2>0, <2>1, OthersReserve, StableReservation
  <2>2. CASE WorkerStep(w) \/ StoreFails(w) \/ Crash(w)
    BY <1>1, <2>0, <2>2, EarlyReserves, LateReserves DEF WorkerStep
  <2>3. ASSUME NEW c \in ClientIds, NEW f \in Fingerprints, Start(w, c, f)
        PROVE  WorkerReserves(wk[w])'
    <3>1. wk'[w] = [IdleWorker EXCEPT !.step = "reserve", !.client = c, !.fingerprint = f]
      BY <1>1, <2>3, WorkerMoves DEF Start
    <3>2. wk'[w].step = "reserve"
      BY <3>1 DEF IdleWorker
    <3>3. QED
      BY <3>2 DEF WorkerReserves, Reserving
  <2>4. ASSUME NEW v \in Workers, v # w,
               \/ WorkerStep(v) \/ StoreFails(v) \/ Crash(v)
               \/ \E c \in ClientIds, f \in Fingerprints : Start(v, c, f)
        PROVE  wk'[w] = wk[w]
    <3>1. PICK r : Becomes(v, r)
      BY <1>1, <2>4, StepMoves DEF Start
    <3>2. QED
      BY <1>1, <2>4, <3>1, WorkerMoves
  <2>5. ASSUME NEW b \in BrokerIds, BrokerStep(b) PROVE wk'[w] = wk[w]
    BY <2>5 DEF BrokerStep
  <2>6. CASE UNCHANGED vars
    BY <2>1, <2>6 DEF vars
  <2>7. QED
    BY <2>1, <2>2, <2>3, <2>4, <2>5, <2>6 DEF Next
<1>3. QED
  BY <1>1, <1>2 DEF ReservedInv

\* What LiveOrdersAreReserved says of a step.
StaysReserved ==
  \A b \in BrokerIds : Live(b)' /\ ~Reserved(b)' =>
    \/ Live(b) /\ ~Reserved(b)
    \/ \E w \in Workers : At(w, "authorize") /\ wk[w].client = orders[b].client /\ Refuses(w)

\* When no two workers execute the same client order id, an order goes to the broker
\* reserved, and its exposure stays reserved as long as the broker may still fill it,
\* whatever is retried, recovered or settled late, and however old the answer that settles
\* it; only a refused authorization of the same client id takes it away
\* (ai_execution_orchestrator.py evaluate_and_execute, risk_reservation_store.py reconcile).
THEOREM LiveOrdersAreReservedCorrect ==
  ASSUME DisjointCalls
  PROVE  Spec => LiveOrdersAreReserved
<1>1. ReservedInv /\ [Next]_vars => ReservedInv'
  BY NextReserved
<1>2. ReservedInv /\ [Next]_vars => [StaysReserved]_vars
  <2> SUFFICES ASSUME ReservedInv, [Next]_vars, NEW b \in BrokerIds, Live(b)', ~Reserved(b)',
                      ~\E w \in Workers : At(w, "authorize") /\ wk[w].client = orders[b].client
                                         /\ Refuses(w)
               PROVE  Live(b) /\ ~Reserved(b)
    BY DEF StaysReserved
  <2>1. TypeInv /\ TypeInv'
    BY NextTypeInv DEF ReservedInv, OneOrderInv, PrecedeInv
  <2>2. Sent(b) /\ ~Reserved(b)
    BY <2>1, NextLiveReserved
  <2>3. QED
    BY <2>1, <2>2, BookLagsAlways DEF BookLags
<1>3. QED
  BY <1>1, <1>2, InitReserved, PTL DEF Spec, LiveOrdersAreReserved, StaysReserved
=============================================================================
