--------------------------- MODULE LiveSubmission ---------------------------
(***************************************************************************)
(* The live order path: AIExecutionOrchestrator.evaluate_and_execute drives *)
(* AuthoritativeLiveExecutionGateway (authorize_request, execute_request)   *)
(* against the durable submission intents, the durable risk reservations    *)
(* and the broker.                                                          *)
(*                                                                          *)
(* Several workers share the stores and the broker. One action is one call  *)
(* to a store or to the broker, together with the local work up to the next *)
(* call; a worker may crash between any two. A request to the broker may be *)
(* delayed, lost, or answered after the caller gave up; the broker does not *)
(* deduplicate client order ids (the Upstox "tag" is only a label).         *)
(***************************************************************************)
EXTENDS SubmissionIntents, RiskReservations, BrokerBook

CONSTANTS
  Workers,        \* processes that run evaluate_and_execute
  Callers,        \* the client order ids each worker is asked to execute
  MaxAttempts     \* bound: calls of evaluate_and_execute

ASSUME LiveAssumption ==
  /\ Callers \in [Workers -> SUBSET ClientIds]
  /\ MaxAttempts \in Nat

VARIABLES
  wk,        \* per worker: the local state of its call
  attempts   \* calls started so far

vars == <<intents, reservations, wk, orders, attempts>>

-----------------------------------------------------------------------------
(* The worker.                                                             *)

\* broker_order_lifecycle: the states a gateway call's lifecycle can be in.
\* execute() applies ACCEPTED before it has any answer, and a "NEW" answer
\* is mapped to ACCEPTED again.
LifeStates == {"ACCEPTED", "PARTIALLY_FILLED", "FILLED", "REJECTED", "CANCELLED"}

LifecycleStatus(s) == IF s = "NEW" THEN "ACCEPTED" ELSE s

LifecycleAllows(from, to) ==
  from \in {"ACCEPTED", "PARTIALLY_FILLED"} /\ to \in LifeStates \ {"ACCEPTED"}

Steps == {"idle", "reserve", "authorize", "consume", "lookup", "create",
          "submit", "sent", "reread", "query", "bind", "getbound",
          "record", "resolve", "settle"}

Worker == [step: Steps,
           client: ClientIds \cup {NoClient},
           fingerprint: Fingerprints \cup {NoFingerprint},
           path: {"submit", "recover", "existing"},
           life: LifeStates,
           lifeFilled: Nat,
           broker: BrokerIds \cup {NoBroker},
           answer: BookStatuses \cup {"none"},
           answerFilled: Nat]

IdleWorker == [step |-> "idle", client |-> NoClient, fingerprint |-> NoFingerprint,
               path |-> "submit", life |-> "ACCEPTED", lifeFilled |-> 0,
               broker |-> NoBroker, answer |-> "none", answerFilled |-> 0]

TypeOK ==
  /\ IntentsTypeOK
  /\ ReservationsTypeOK
  /\ wk \in [Workers -> Worker]
  /\ orders \in [BrokerIds -> Order]
  /\ attempts \in 0..MaxAttempts

Init ==
  /\ IntentsInit
  /\ ReservationsInit
  /\ wk = [w \in Workers |-> IdleWorker]
  /\ BookInit
  /\ attempts = 0

At(w, s) == wk[w].step = s
Becomes(w, r) == wk' = [wk EXCEPT ![w] = r]
GoTo(w, s) == Becomes(w, [wk[w] EXCEPT !.step = s])

\* The call ends, by returning or by raising; its local state is gone.
Done(w) == Becomes(w, IdleWorker)

\* An exception inside the try around the submission enters the recovery of
\* its except clause; anywhere else it ends the call.
Raise(w) ==
  IF wk[w].path = "submit" /\ wk[w].step \in {"sent", "record", "resolve"}
  THEN Becomes(w, [wk[w] EXCEPT !.path = "recover", !.step = "reread"])
  ELSE Done(w)

\* _apply_broker_result on a verified answer for broker order b: the next
\* step is record_broker_order, unless the lifecycle refuses the status.
AppliesAnswer(w, s, f) ==
  /\ LifecycleAllows(wk[w].life, LifecycleStatus(s))
  /\ f >= wk[w].lifeFilled

ApplyAnswer(w, b) ==
  LET s == orders[b].status
      f == orders[b].filled
  IN  IF AppliesAnswer(w, s, f)
      THEN Becomes(w, [wk[w] EXCEPT !.step = "record",
                                    !.life = LifecycleStatus(s), !.lifeFilled = f,
                                    !.broker = b, !.answer = s, !.answerFilled = f])
      ELSE Raise(w)

-----------------------------------------------------------------------------
(* evaluate_and_execute                                                    *)

\* The decision is made and passes the risk evaluation.
Start(w, c, f) ==
  /\ At(w, "idle")
  /\ c \in Callers[w]
  /\ attempts < MaxAttempts
  /\ attempts' = attempts + 1
  /\ Becomes(w, [IdleWorker EXCEPT !.step = "reserve", !.client = c, !.fingerprint = f])
  /\ UNCHANGED <<intents, reservations, orders>>

ReserveRisk(w) ==
  LET c == wk[w].client IN
  /\ At(w, "reserve")
  /\ \/ Reserve(c, Quantity[c]) /\ GoTo(w, "authorize")
     \/ ~ReserveAccepts(c, Quantity[c]) /\ Done(w) /\ UNCHANGED reservations
  /\ UNCHANGED <<intents, orders, attempts>>

\* A validation of authorize_request raises: the order, the age and the identity of the
\* context, the reconciliation. The reservation is released.
Refuses(w) == Release(wk[w].client) /\ Done(w)

\* authorize_request issues a token, or raises.
Authorize(w) ==
  /\ At(w, "authorize")
  /\ \/ GoTo(w, "consume") /\ UNCHANGED reservations
     \/ Refuses(w)
  /\ UNCHANGED <<intents, orders, attempts>>

\* execute() consumes the token, or raises (kill switch, expired, mismatch).
ConsumeAuthorization(w) ==
  /\ At(w, "consume")
  /\ GoTo(w, "lookup") \/ Done(w)
  /\ UNCHANGED <<intents, reservations, orders, attempts>>

\* reconcile_client_order after execute_request returned: a lifecycle that
\* reached a fill or a terminal state settles the reservation.
SettleRisk(w) ==
  LET c == wk[w].client
      left == Quantity[c] - wk[w].lifeFilled
  IN
  /\ At(w, "settle")
  /\ \/ Reconcile(c, wk[w].life, left)
     \/ ~ReconcileAccepts(c, wk[w].life, left) /\ UNCHANGED reservations
  /\ Done(w)
  /\ UNCHANGED <<intents, orders, attempts>>

-----------------------------------------------------------------------------
(* LiveExecutionGateway.execute                                            *)

\* Mutant: an unresolved intent does not stop a retry from submitting.
LookupIntentIgnored(w) ==
  /\ At(w, "lookup")
  /\ GoTo(w, "create")
  /\ UNCHANGED <<intents, reservations, orders, attempts>>

\* Mutant: the broker is called without a durable intent.
LookupIntentSubmits(w) ==
  /\ At(w, "lookup")
  /\ GoTo(w, "submit")
  /\ UNCHANGED <<intents, reservations, orders, attempts>>

\* get_unresolved: an unresolved intent is recovered, bound ones by order id.
LookupIntent(w) ==
  LET c == wk[w].client
      b == intents[c].broker
  IN
  /\ At(w, "lookup")
  /\ \/ ~Unresolved(c) /\ GoTo(w, "create")
     \/ /\ Unresolved(c)
        /\ Becomes(w, [wk[w] EXCEPT !.step = IF b = NoBroker THEN "reread" ELSE "getbound",
                                    !.path = "existing", !.broker = b])
  /\ UNCHANGED <<intents, reservations, orders, attempts>>

\* create: the durable record that precedes the broker call.
CreateStep(w) ==
  LET c == wk[w].client
      f == wk[w].fingerprint
  IN
  /\ At(w, "create")
  /\ \/ CreateIntent(c, f) /\ GoTo(w, "submit")
     \/ ~CreateAccepts(c, f) /\ Done(w) /\ UNCHANGED intents
  /\ UNCHANGED <<reservations, orders, attempts>>

\* executor.submit_order leaves for the broker.
Submit(w) ==
  /\ At(w, "submit")
  /\ \E b \in BrokerIds :
       /\ Send(b, wk[w].client)
       /\ Becomes(w, [wk[w] EXCEPT !.step = "sent", !.broker = b])
  /\ UNCHANGED <<intents, reservations, attempts>>

\* The call returns a verified update, or raises: a timeout, a transport
\* error, an answer that fails verification.
SubmitReturns(w) ==
  /\ At(w, "sent")
  /\ \/ Visible(wk[w].broker) /\ ApplyAnswer(w, wk[w].broker)
     \/ Raise(w)
  /\ UNCHANGED <<intents, reservations, orders, attempts>>

\* record_broker_order with the verified identity.
RecordStep(w) ==
  LET c == wk[w].client
      b == wk[w].broker
  IN
  /\ At(w, "record")
  /\ \/ RecordBrokerOrder(c, b, wk[w].answer) /\ GoTo(w, "resolve")
     \/ ~RecordAccepts(c, b) /\ Raise(w) /\ UNCHANGED intents
  /\ UNCHANGED <<reservations, orders, attempts>>

\* resolve, then TrackedExecution is returned.
ResolveStep(w) ==
  LET c == wk[w].client IN
  /\ At(w, "resolve")
  /\ \/ ResolveIntent(c) /\ GoTo(w, "settle")
     \/ ~ResolveAccepts(c) /\ Raise(w) /\ UNCHANGED intents
  /\ UNCHANGED <<reservations, orders, attempts>>

-----------------------------------------------------------------------------
(* _recover_existing_submission and recover_submission                     *)

\* A bound existing intent: executor.get_order of the binding, and no fallback.
GetBoundOrder(w) ==
  /\ At(w, "getbound")
  /\ \/ ApplyAnswer(w, wk[w].broker)
     \/ Done(w)
  /\ UNCHANGED <<intents, reservations, orders, attempts>>

\* recover_submission re-reads the intent; without one there is no recovery.
RereadIntent(w) ==
  LET c == wk[w].client IN
  /\ At(w, "reread")
  /\ IF Unresolved(c)
     THEN Becomes(w, [wk[w] EXCEPT !.step = "query", !.broker = intents[c].broker])
     ELSE Done(w)
  /\ UNCHANGED <<intents, reservations, orders, attempts>>

\* The broker is asked for the bound order, or for the single order of the
\* client id; the query may fail, find nothing, or find several.
QueryBroker(w) ==
  LET c == wk[w].client
      found == IF wk[w].broker # NoBroker THEN {wk[w].broker} ELSE Matches(c)
  IN
  /\ At(w, "query")
  /\ \/ \E b \in BrokerIds :
          /\ found = {b}
          /\ Becomes(w, [wk[w] EXCEPT !.step = "bind", !.broker = b,
                                      !.answer = orders[b].status,
                                      !.answerFilled = orders[b].filled])
     \/ Done(w)
  /\ UNCHANGED <<intents, reservations, orders, attempts>>

\* recover_submission records the binding; the gateway applies the answer.
BindRecovered(w) ==
  LET c == wk[w].client
      b == wk[w].broker
      s == wk[w].answer
  IN
  /\ At(w, "bind")
  /\ \/ /\ RecordBrokerOrder(c, b, s)
        /\ IF AppliesAnswer(w, s, wk[w].answerFilled)
           THEN Becomes(w, [wk[w] EXCEPT !.step = "record", !.life = LifecycleStatus(s),
                                         !.lifeFilled = wk[w].answerFilled])
           ELSE Done(w)
     \/ ~RecordAccepts(c, b) /\ Done(w) /\ UNCHANGED intents
  /\ UNCHANGED <<reservations, orders, attempts>>

-----------------------------------------------------------------------------
(* Faults and the broker's own steps.                                      *)

\* A store call fails (I/O error, lock or database unavailable) without effect.
StoreFails(w) ==
  /\ wk[w].step \in {"reserve", "lookup", "create", "record", "resolve", "bind", "reread", "settle"}
  /\ Raise(w)
  /\ UNCHANGED <<intents, reservations, orders, attempts>>

\* The process dies; what it had stored and sent remains.
Crash(w) ==
  /\ ~At(w, "idle")
  /\ Done(w)
  /\ UNCHANGED <<intents, reservations, orders, attempts>>

WorkerStep(w) ==
  \/ ReserveRisk(w) \/ Authorize(w) \/ ConsumeAuthorization(w) \/ SettleRisk(w)
  \/ LookupIntent(w) \/ CreateStep(w) \/ Submit(w) \/ SubmitReturns(w)
  \/ RecordStep(w) \/ ResolveStep(w)
  \/ GetBoundOrder(w) \/ RereadIntent(w) \/ QueryBroker(w) \/ BindRecovered(w)

BrokerStep(b) ==
  /\ BookStep(b)
  /\ UNCHANGED <<intents, reservations, wk, attempts>>

Next ==
  \/ \E w \in Workers, c \in ClientIds, f \in Fingerprints : Start(w, c, f)
  \/ \E w \in Workers : WorkerStep(w) \/ StoreFails(w) \/ Crash(w)
  \/ \E b \in BrokerIds : BrokerStep(b)

Spec == Init /\ [][Next]_vars

-----------------------------------------------------------------------------
(* The ledger this implements, when no client id is executed concurrently. *)

LedgerEntry(c) ==
  [stage |-> CASE intents[c].phase = "absent" -> "new"
               [] intents[c].phase = "resolved" -> "tracked"
               [] OTHER -> IF OrdersOf(c) = {} THEN "intended" ELSE "sent",
   order |-> IF OrdersOf(c) = {} THEN NoBroker ELSE CHOOSE b \in OrdersOf(c) : TRUE]

Ledger == INSTANCE OrderLedger WITH ledger <- [c \in ClientIds |-> LedgerEntry(c)]

\* The whole path, with its crashes, retries and recoveries, is a ledger that
\* only ever moves forward: intend, send once, track what was sent.
ImplementsLedger == Ledger!Spec

-----------------------------------------------------------------------------
(* Properties                                                              *)

\* No request ever leaves for the broker before its durable intent exists,
\* whatever crashes: the order of create and submit in execute().
OrdersFollowIntents ==
  \A b \in BrokerIds : Sent(b) => intents[orders[b].client].phase # "absent"

\* The binding of an intent is an order that the broker really holds, and
\* holds for that client order id: recovery never adopts another's order.
BindingsAreReal ==
  \A c \in ClientIds :
    LET b == intents[c].broker IN
    b # NoBroker => Visible(b) /\ orders[b].client = c

\* What an order may still fill at the broker is covered by its reservation.
Reserved(b) ==
  LET r == reservations[orders[b].client] IN
  r.status = "ACTIVE" /\ Remaining(b) <= r.amount

\* An order goes to the broker reserved, and while it may still fill its remaining exposure
\* stays reserved: "Keep the reservation on ambiguous broker outcomes so another worker
\* cannot reuse the same exposure before reconciliation" (ai_execution_orchestrator.py:
\* 110-111). One step alone takes it away: a retry of the same client id whose
\* authorization is refused releases the reservation of the order that an earlier call
\* has sent (ai_execution_orchestrator.py:105).
LiveOrdersAreReserved ==
  [][\A b \in BrokerIds : Live(b)' /\ ~Reserved(b)' =>
       \/ Live(b) /\ ~Reserved(b)
       \/ \E w \in Workers : At(w, "authorize") /\ wk[w].client = orders[b].client /\ Refuses(w)
    ]_vars

\* A resolved intent leaves nothing behind at the broker: the one order that
\* was sent for its client id is the one it is bound to. unresolved() would
\* never show any other again.
ResolvedIntentsHideNoOrder ==
  \A b \in BrokerIds :
    Sent(b) /\ intents[orders[b].client].phase = "resolved"
      => intents[orders[b].client].broker = b
=============================================================================
