---------------------------- MODULE EventDelivery ----------------------------
(***************************************************************************)
(* The way of a broker's execution event: a callback thread resolves the   *)
(* broker order to an order of ours, applies the event or puts it in       *)
(* quarantine; publishers take the committed messages from the outbox to a *)
(* consumer that has a database of its own.                                *)
(*                                                                         *)
(* approve_and_apply of the recovery service has no action: it calls       *)
(* _apply_event_tx without its required event_sequence, so every approval  *)
(* raises, is rolled back and leaves the case open.                        *)
(*                                                                         *)
(* What the broker sends (Feed) may arrive at any time, any number of      *)
(* times, in any order, on any of the three callback paths:                *)
(*   "quarantining"  TransactionalQuarantiningDispatcher                   *)
(*   "scoped"        TransactionalIdentityAwareDispatcher                  *)
(*   "bridge"        LiveExecutionRepositoryBridge                         *)
(***************************************************************************)
EXTENDS ExecutionRepository, FiniteSetsExt, Functions

CONSTANTS Threads,     \* callback threads
          Publishers,  \* processes that run ReliableExecutionOutboxPublisher
          Feed,        \* the events the broker sends
          NoMessage,
          MaxFaults    \* bound on crashes, failed and slow deliveries

ASSUME DeliveryAssumption ==
  /\ NoHolder \notin Publishers
  /\ MaxFaults \in Nat
  /\ NoMessage \notin Feed
  /\ \A m \in Feed : /\ m.id \in EventIds /\ m.broker \in BrokerOrders
                     /\ m.scope \in Scopes
                     /\ m.kind \in Kinds \cup {"ACKNOWLEDGED"}
                     /\ m.quantity \in Nat /\ m.seq \in Nat

VARIABLES callback,    \* what each thread is doing
          publisher,   \* what each publisher is doing
          consumed,    \* the event ids in the consumer's database
          effects,     \* how often the consumer's handler ran for each event
          repeats,     \* how often it ran and a crash undid the consumer's row
          faults       \* faults so far

vars == <<repository, callback, publisher, consumed, effects, repeats, faults>>

delivery == <<publisher, consumed, effects, repeats, faults>>

Idle == [step |-> "idle", path |-> "none", message |-> NoMessage, order |-> "none"]

Init ==
  /\ RepositoryInit
  /\ callback = [t \in Threads |-> Idle]
  /\ publisher = [p \in Publishers |-> [step |-> "idle", batch |-> {}]]
  /\ consumed = {}
  /\ effects = [e \in EventIds |-> 0]
  /\ repeats = [e \in EventIds |-> 0]
  /\ faults = 0

-----------------------------------------------------------------------------
(* Orders and identities.                                                   *)

CreateOrder(o) ==
  /\ InsertOrder(o)
  /\ UNCHANGED <<callback, delivery>>

\* ExecutionIdentityGateway.bind
Bind(o, b) ==
  /\ CanBind(o, b, ScopeOf[o])
  /\ identity' = [identity EXCEPT ![o] = b]
  /\ UNCHANGED <<order, positions, events, cursor, outbox, callback, delivery>>

-----------------------------------------------------------------------------
(* The callback paths.                                                      *)

\* Mutant of EventKind: the broker's word is stored as it comes.
RawKind(k) == k

\* An acknowledgement is applied as SUBMITTED.
EventKind(k) == IF k = "ACKNOWLEDGED" THEN "SUBMITTED" ELSE k

\* The event a dispatcher hands to apply_event: it carries no sequence number.
Dispatched(m, o) == [id |-> m.id, order |-> o, kind |-> EventKind(m.kind),
                     quantity |-> m.quantity, scope |-> m.scope, seq |-> NoSeq]

\* The event the bridge hands to apply_broker_event, with its sequence number.
Sequenced(m) == [Dispatched(m, m.client) EXCEPT !.seq = m.seq]

\* The identity of the broker order is read in a transaction of its own. Without
\* one the scoped dispatcher raises, and nothing is left of the call.
Resolve(t, m, path) ==
  LET found == OrdersBoundTo(m.broker, m.scope) IN
  /\ callback[t].step = "idle"
  /\ path \in {"quarantining", "scoped"}
  /\ \/ /\ found = {} /\ path = "quarantining"
        /\ callback' = [callback EXCEPT ![t] =
             [step |-> "unknown", path |-> path, message |-> m, order |-> "none"]]
     \/ \E o \in found :
          callback' = [callback EXCEPT ![t] =
            [step |-> "resolved", path |-> path, message |-> m, order |-> o]]
  /\ UNCHANGED <<repository, delivery>>

\* The event is kept for recovery, in a case that no later step of the program reads to an
\* end.
Quarantine(t) ==
  /\ callback[t].step = "unknown"
  /\ callback' = [callback EXCEPT ![t] = Idle]
  /\ UNCHANGED <<repository, delivery>>

\* The quarantining dispatcher rebuilds an event that names another client order
\* without its account, and the canonical dispatcher refuses that.
ScopeKept(c) == c.path = "scoped" \/ c.order = c.message.client

\* The canonical dispatcher: the gate, whose inputs the caller gives, and apply_event.
Dispatch(t) ==
  LET c == callback[t] IN
  /\ c.step = "resolved"
  /\ IF ScopeKept(c) THEN TryEvent(Dispatched(c.message, c.order))
     ELSE UNCHANGED <<order, positions, events, cursor, outbox>>
  /\ callback' = [callback EXCEPT ![t] = Idle]
  /\ UNCHANGED <<identity, delivery>>

\* The statuses from which the bridge lets an event through.
BridgeAllows(k) ==
  CASE k = "SUBMITTED" -> {"CREATED"}
    [] k = "FILL"      -> {"SUBMITTED", "PARTIALLY_FILLED"}
    [] k = "CANCELLED" -> {"SUBMITTED", "PARTIALLY_FILLED"}
    [] k = "REJECTED"  -> {"CREATED", "SUBMITTED"}
    [] OTHER           -> {}

\* _require_transition: the row is read before the transaction that changes it.
BridgeCheck(t, m) ==
  /\ callback[t].step = "idle"
  /\ m.client \in Orders /\ Exists(m.client) /\ ScopeOf[m.client] = m.scope
  /\ order[m.client].status \in BridgeAllows(m.kind)
  /\ callback' = [callback EXCEPT ![t] =
       [step |-> "checked", path |-> "bridge", message |-> m, order |-> m.client]]
  /\ UNCHANGED <<repository, delivery>>

BridgeApply(t) ==
  /\ callback[t].step = "checked"
  /\ TryEvent(Sequenced(callback[t].message))
  /\ callback' = [callback EXCEPT ![t] = Idle]
  /\ UNCHANGED <<identity, delivery>>

\* The gate refuses, or the process dies: the callback is gone.
DropCallback(t) ==
  /\ callback[t].step # "idle"
  /\ callback' = [callback EXCEPT ![t] = Idle]
  /\ UNCHANGED <<repository, delivery>>

-----------------------------------------------------------------------------
(* Publishing.                                                              *)

GoPublish(p, step, batch) ==
  publisher' = [publisher EXCEPT ![p] = [step |-> step, batch |-> batch]]

\* claim_outbox takes every row that is free or whose lease has run out.
Claim(p) ==
  LET rows == {i \in DOMAIN outbox : Claimable(i)} IN
  /\ publisher[p].step = "idle" /\ rows # {}
  /\ ClaimRows(rows, p)
  /\ GoPublish(p, "publish", rows)
  /\ UNCHANGED <<order, positions, events, cursor, identity, callback,
                 consumed, effects, repeats, faults>>

\* Mutant of Consume: the event id is not looked up first.
ConsumeAgain(e) ==
  /\ effects' = [effects EXCEPT ![e] = @ + 1]
  /\ consumed' = consumed \cup {e}

\* DurableExecutionConsumer.consume: the handler runs only for an event id that is
\* not in the consumer's database yet.
Consume(e) ==
  /\ effects' = IF e \in consumed THEN effects ELSE [effects EXCEPT ![e] = @ + 1]
  /\ consumed' = consumed \cup {e}

\* The rows of a batch are published in the order of their ids.
Current(p) == Min(publisher[p].batch)

Publish(p) ==
  /\ publisher[p].step = "publish"
  /\ Consume(outbox[Current(p)].event)
  /\ GoPublish(p, "mark", publisher[p].batch)
  /\ UNCHANGED <<repository, callback, repeats, faults>>

\* A claim that another publisher took over in the meantime ends the call, and so
\* does the end of the batch.
Mark(p) ==
  LET i == Current(p)
      rest == publisher[p].batch \ {i} IN
  /\ publisher[p].step = "mark"
  /\ IF OwnsRow(i, p)
     THEN /\ MarkPublished(i)
          /\ GoPublish(p, IF rest = {} THEN "idle" ELSE "publish", rest)
     ELSE UNCHANGED outbox /\ GoPublish(p, "idle", {})
  /\ UNCHANGED <<order, positions, events, cursor, identity, callback,
                 consumed, effects, repeats, faults>>

Fault == faults < MaxFaults /\ faults' = faults + 1

\* The handler raises, or the process dies between two steps: the claim stays.
PublisherStops(p) ==
  /\ publisher[p].step # "idle" /\ Fault
  /\ GoPublish(p, "idle", {})
  /\ UNCHANGED <<repository, callback, consumed, effects, repeats>>

\* The process dies after the handler and before the consumer's commit.
PublisherDiesInHandler(p) ==
  LET e == outbox[Current(p)].event IN
  /\ publisher[p].step = "publish" /\ e \notin consumed /\ Fault
  /\ effects' = [effects EXCEPT ![e] = @ + 1]
  /\ repeats' = [repeats EXCEPT ![e] = @ + 1]
  /\ GoPublish(p, "idle", {})
  /\ UNCHANGED <<repository, callback, consumed>>

\* drain_once of the recovery worker: the first free message is consumed; the
\* acknowledgement lacks the token and raises, so the row stays and the call ends.
Drain ==
  LET rows == {i \in DOMAIN outbox : Claimable(i)} IN
  /\ rows # {}
  /\ Consume(outbox[Min(rows)].event)
  /\ UNCHANGED <<repository, callback, publisher, repeats, faults>>

Working(i) == \E p \in Publishers : i \in publisher[p].batch /\ outbox[i].holder = p

Lapse(i) == outbox' = [outbox EXCEPT ![i].state = "lapsed"]

\* The lease of a claim whose publisher has stopped runs out.
LeaseRunsOut(i) ==
  /\ outbox[i].state = "claimed" /\ ~Working(i)
  /\ Lapse(i)
  /\ UNCHANGED <<order, positions, events, cursor, identity, callback, delivery>>

\* A delivery takes longer than the lease.
LeaseTooShort(i) ==
  /\ outbox[i].state = "claimed" /\ Working(i) /\ Fault
  /\ Lapse(i)
  /\ UNCHANGED <<order, positions, events, cursor, identity, callback,
                 publisher, consumed, effects, repeats>>

-----------------------------------------------------------------------------
CallbackStep(t) ==
  \/ \E m \in Feed, path \in {"quarantining", "scoped"} : Resolve(t, m, path)
  \/ \E m \in Feed : BridgeCheck(t, m)
  \/ Quarantine(t) \/ Dispatch(t) \/ BridgeApply(t) \/ DropCallback(t)

PublisherStep(p) == Claim(p) \/ Publish(p) \/ Mark(p)

Next ==
  \/ \E o \in Orders : CreateOrder(o) \/ \E b \in BrokerOrders : Bind(o, b)
  \/ \E t \in Threads : CallbackStep(t)
  \/ \E p \in Publishers :
       PublisherStep(p) \/ PublisherStops(p) \/ PublisherDiesInHandler(p)
  \/ Drain
  \/ \E i \in DOMAIN outbox : LeaseRunsOut(i) \/ LeaseTooShort(i)

Spec == Init /\ [][Next]_vars

\* A publisher is called again and again, and its steps end; time passes, so a claim
\* nobody works on runs out. Nothing is assumed of callbacks or operators.
EventsFairness ==
  /\ \A p \in Publishers : WF_vars(PublisherStep(p))
  /\ WF_vars(\E i \in DOMAIN outbox : LeaseRunsOut(i))

FairSpec == Spec /\ EventsFairness

-----------------------------------------------------------------------------
(* Properties.                                                              *)

TypeOK ==
  /\ RepositoryTypeOK
  /\ \A t \in Threads : callback[t].step \in {"idle", "unknown", "resolved", "checked"}
  /\ \A p \in Publishers : publisher[p].step \in {"idle", "publish", "mark"}
  /\ consumed \subseteq EventIds
  /\ effects \in [EventIds -> Nat] /\ repeats \in [EventIds -> Nat] /\ faults \in Nat

\* However often and in whatever order events are delivered, on whatever path, the
\* position of a scope is the sum of the fills recorded for it, and the quantity
\* filled of an order the sum of its own, never above the quantity ordered
\* (_apply_event_tx of transactional_execution_repository.py).
PositionsAreTheFills ==
  LET deltas == [e \in events |-> Delta(e)]
      quantities == [e \in events |-> e.quantity]
      fills(o) == {e \in events : e.order = o /\ e.kind = "FILL"} IN
  /\ \A s \in Scopes : positions[s] = SumFunctionOnSet(deltas, {e \in events : e.scope = s})
  /\ \A o \in Orders : /\ order[o].filled = SumFunctionOnSet(quantities, fills(o))
                       /\ order[o].filled <= Total[o]

\* A message is acknowledged only after the consumer has committed it, whichever
\* publisher took the claim over; and the consumer's handler runs once for an event,
\* but for the crashes between the handler and its commit
\* (reliable_execution_outbox.py, durable_execution_consumer.py).
ConsumerSeesEachEventOnce ==
  /\ \A i \in DOMAIN outbox :
       outbox[i].state = "published" => outbox[i].event \in consumed
  /\ \A e \in EventIds :
       effects[e] = repeats[e] + (IF e \in consumed THEN 1 ELSE 0)

\* Every committed event is published in the end, though publishers die, fail, and
\* lose their claims (reliable_execution_outbox.py: a row whose publisher crashed is
\* claimable after its lease).
EventsArePublished ==
  \A e \in EventIds :
    (\E i \in DOMAIN outbox : outbox[i].event = e)
      ~> (\E i \in DOMAIN outbox : outbox[i].event = e /\ outbox[i].state = "published")
=============================================================================
