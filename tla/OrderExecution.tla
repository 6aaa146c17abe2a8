--------------------------- MODULE OrderExecution ---------------------------
(***************************************************************************)
(* The HTTP order path: create_order of api/orders.py commits a row, builds *)
(* an OrderExecutionService on a copy of the execution-state file, and runs *)
(* its submit() against the idempotency claims, the risk reservations, the  *)
(* safety state and BrokerRouter.submit.                                    *)
(*                                                                          *)
(* Workers are request threads; those of one process share _claim_lock,     *)
(* taken by Authorize and held until the request has a result. One action   *)
(* is one call to a store, the router or the broker. BrokerRouter.submit as *)
(* written never returns: after the adapter answered it reads .value of a   *)
(* plain string (broker_router.py:190, 217) and raises.                     *)
(***************************************************************************)
EXTENDS RiskReservations, BrokerBook

CONSTANTS
  Processes,    \* API processes sharing the stores
  Workers,      \* request threads
  ProcessOf,    \* the process of each worker
  Durable,      \* a RiskReservationStore is configured
  MaxRequests,  \* bound: create_order calls per client order id
  MaxRestarts   \* bound: process restarts

ASSUME ExecutionAssumption ==
  /\ NoBroker \notin BrokerIds
  /\ ProcessOf \in [Workers -> Processes]
  /\ Durable \in BOOLEAN
  /\ MaxRequests \in [ClientIds -> Nat]
  /\ MaxRestarts \in Nat

VARIABLES
  rows,      \* status of each order row of the API database
  file,      \* the execution-state file: a lifecycle record per client id
  claims,    \* IdempotencyStore
  safety,    \* SafetyStateStore, see SafetyStates
  ready,     \* per process: its startup state machine is READY
  wk,        \* per worker: the local state of its request
  requests,  \* create_order calls so far, per client order id
  restarts   \* restarts so far

stores == <<rows, file, claims, reservations, orders, safety, ready>>
bounds == <<requests, restarts>>
vars == <<stores, wk, bounds>>

-----------------------------------------------------------------------------

\* OrderStatus; a terminal record is never executed again.
RecordStatuses == TerminalStatuses \cup
  {"none", "SUBMISSION_INTENT", "SUBMITTED", "PARTIALLY_FILLED"}

Record == [status: RecordStatuses, filled: Nat]

NoRecord == [status |-> "none", filled |-> 0]

Files == [ClientIds -> Record]

RowStatuses == RecordStatuses \cup {"PENDING"}

\* Rows that create_order submits again when their client id is retried.
RetryableRows == {"PENDING", "SUBMISSION_INTENT", "SUBMITTED", "PARTIALLY_FILLED"}

\* "clear": not halted, and the reconciled fingerprint is the broker's present
\* one; "stale": not halted, but the broker has changed since; "halted".
SafetyStates == {"clear", "stale", "halted"}

Steps == {"idle", "load", "authorize", "reserve", "claim", "refind", "find", "intent",
          "submit", "send", "sent", "ambiguous", "save", "settle", "finalize", "mark", "reply"}

\* The steps of submit() inside "with self._claim_lock".
LockedSteps == Steps \ {"idle", "load", "authorize", "reply"}

Worker == [step: Steps,
           client: ClientIds \cup {NoClient},
           path: {"fresh", "claimed", "ambiguous"},
           mem: Files,
           exposure: Nat,
           found: BookStatuses \cup {"none"},
           foundFilled: Nat,
           result: RowStatuses]

IdleWorker == [step |-> "idle", client |-> NoClient, path |-> "fresh",
               mem |-> [c \in ClientIds |-> NoRecord], exposure |-> 0,
               found |-> "none", foundFilled |-> 0, result |-> "none"]

TypeOK ==
  /\ rows \in [ClientIds -> RowStatuses]
  /\ file \in Files
  /\ claims \in [ClientIds -> {"none", "CLAIMED", "COMPLETED"}]
  /\ ReservationsTypeOK
  /\ orders \in [BrokerIds -> Order]
  /\ safety \in SafetyStates
  /\ ready \in [Processes -> BOOLEAN]
  /\ wk \in [Workers -> Worker]
  /\ requests \in [ClientIds -> Nat]
  /\ restarts \in 0..MaxRestarts

\* A new deployment, after its first successful startup.
Init ==
  /\ rows = [c \in ClientIds |-> "none"]
  /\ file = [c \in ClientIds |-> NoRecord]
  /\ claims = [c \in ClientIds |-> "none"]
  /\ ReservationsInit
  /\ BookInit
  /\ safety = "clear"
  /\ ready = [p \in Processes |-> TRUE]
  /\ wk = [w \in Workers |-> IdleWorker]
  /\ requests = [c \in ClientIds |-> 0]
  /\ restarts = 0

At(w, s) == wk[w].step = s
Becomes(w, r) == wk' = [wk EXCEPT ![w] = r]
GoTo(w, s) == Becomes(w, [wk[w] EXCEPT !.step = s])

\* submit() returns an ExecutionResult; the lock, if held, is free again.
Reply(w, s) == Becomes(w, [wk[w] EXCEPT !.step = "reply", !.result = s])

\* An exception leaves submit(): the request ends with an error, its row as it was.
Abort(w) == Becomes(w, IdleWorker)

Ready(w) == ready[ProcessOf[w]]

LockFree(p) == \A w \in Workers : ProcessOf[w] = p => wk[w].step \notin LockedSteps

\* risk_gate.release: reconcile_client_order(CANCELLED); without the durable
\* store the released book is the request's own and dies with it.
ReleaseRisk(c) ==
  IF Durable THEN Reconcile(c, "CANCELLED", 0) ELSE UNCHANGED reservations

\* Release the reservation and reply; when the release itself fails the
\* exception leaves submit().
GivesUp(w, s) ==
  \/ ReleaseRisk(wk[w].client) /\ Reply(w, s)
  \/ Abort(w) /\ UNCHANGED reservations

-----------------------------------------------------------------------------
(* create_order up to the service.                                         *)

\* require_trading_ready, then a new row is committed, or a retryable one is
\* taken up again.
CreateOrder(w, c) ==
  /\ At(w, "idle")
  /\ requests[c] < MaxRequests[c]
  /\ safety # "halted" /\ Ready(w)
  /\ \/ rows[c] = "none" /\ rows' = [rows EXCEPT ![c] = "PENDING"]
     \/ rows[c] \in RetryableRows /\ UNCHANGED rows
  /\ requests' = [requests EXCEPT ![c] = @ + 1]
  /\ Becomes(w, [IdleWorker EXCEPT !.step = "load", !.client = c])
  /\ UNCHANGED <<file, claims, reservations, orders, safety, ready, restarts>>

\* _assert_safety_ready and _assert_broker_connectivity let a request go on.
MayExecute(w) == safety # "halted" /\ Ready(w)

\* _execution_service loads the file outside any lock; submit() then checks
\* the safety state, the startup state and the broker connection, which may refuse.
LoadLifecycle(w) ==
  /\ At(w, "load")
  /\ \/ /\ MayExecute(w)
        /\ Becomes(w, [wk[w] EXCEPT !.step = "authorize", !.mem = file])
     \/ Reply(w, "REJECTED")
  /\ UNCHANGED <<stores, bounds>>

-----------------------------------------------------------------------------
(* OrderExecutionService.submit under _claim_lock.                          *)

\* The position the broker snapshot shows on top of CurrentExposure.
VisibleFills ==
  SumFunction([b \in {d \in BrokerIds : Visible(d)} |-> orders[b].filled])

\* PreTradeRiskGate.evaluate: the order and the position together keep the limit.
EvaluateAllows(c, exposure) == exposure + Quantity[c] <= MaxTotalExposure

\* ExecutionAuthorization.check: the broker snapshot must be the reconciled
\* one and leave room for the order; any error refuses.
Authorize(w) ==
  /\ At(w, "authorize")
  /\ LockFree(ProcessOf[w])
  /\ \/ \E exposure \in 0..MaxTotalExposure :
           /\ safety = "clear"
           /\ exposure = CurrentExposure + VisibleFills
           /\ EvaluateAllows(wk[w].client, exposure)
           /\ Becomes(w, [wk[w] EXCEPT !.step = "reserve", !.exposure = exposure])
     \/ Reply(w, "REJECTED")
  /\ UNCHANGED <<stores, bounds>>

\* The reservation book a request rebuilds from its copy of the file.
BookedIn(mem) ==
  {d \in ClientIds : /\ mem[d].status \notin TerminalStatuses \cup {"none"}
                     /\ mem[d].filled < Quantity[d]}

BookFits(w) ==
  LET c == wk[w].client
      mem == wk[w].mem
      booked == SumFunction([d \in BookedIn(mem) |-> Quantity[d] - mem[d].filled])
  IN  IF c \in BookedIn(mem) THEN mem[c].filled = 0
      ELSE wk[w].exposure + booked + Quantity[c] <= MaxTotalExposure

\* DurableExposureReservationAdapter.reserve, in the store.
ReservesDurably(w) ==
  LET c == wk[w].client IN
  ReserveFits(c, Quantity[c], wk[w].exposure) /\ Activate(c, Quantity[c])

\* risk_gate.reserve: an exception of the store is a rejection.
ReserveRisk(w) ==
  /\ At(w, "reserve")
  /\ \/ /\ IF Durable THEN ReservesDurably(w) ELSE BookFits(w) /\ UNCHANGED reservations
        /\ GoTo(w, "claim")
     \/ Reply(w, "REJECTED") /\ UNCHANGED reservations
  /\ UNCHANGED <<rows, file, claims, orders, safety, ready, bounds>>

\* Mutant: the claim does not exclude a second submission.
ClaimIgnored(w) ==
  /\ At(w, "claim")
  /\ Ready(w)
  /\ GoTo(w, "find")
  /\ UNCHANGED <<stores, bounds>>

\* A terminal record is replayed; otherwise the durable claim decides whether
\* this request submits or only looks for what an earlier one submitted.
Claim(w) ==
  LET c == wk[w].client
      replay == wk[w].mem[c].status
  IN
  /\ At(w, "claim")
  /\ \/ /\ replay \in TerminalStatuses
        /\ GivesUp(w, replay)
        /\ UNCHANGED claims
     \/ /\ replay \notin TerminalStatuses /\ ~Ready(w)
        /\ GivesUp(w, "SUBMITTED")
        /\ UNCHANGED claims
     \/ /\ replay \notin TerminalStatuses /\ Ready(w)
        /\ IF claims[c] = "none"
           THEN claims' = [claims EXCEPT ![c] = "CLAIMED"] /\ GoTo(w, "find")
           ELSE /\ Becomes(w, [wk[w] EXCEPT !.step = "refind", !.path = "claimed"])
                /\ UNCHANGED claims
        /\ UNCHANGED reservations
  /\ UNCHANGED <<rows, file, orders, safety, ready, bounds>>

\* find_order_by_client_id returned an order: it goes to _save_recovered.
Finds(w, path) ==
  \E b \in Matches(wk[w].client) :
    Becomes(w, [wk[w] EXCEPT !.step = "save", !.path = path,
                             !.found = orders[b].status, !.foundFilled = orders[b].filled])

\* The claim was taken before: the broker is asked for that order; without
\* one, or when the lookup fails, the request gives its reservation back.
FindClaimed(w) ==
  /\ At(w, "refind")
  /\ \/ Finds(w, "claimed") /\ UNCHANGED reservations
     \/ GivesUp(w, "SUBMITTED")
  /\ UNCHANGED <<rows, file, claims, orders, safety, ready, bounds>>

FindFresh(w) ==
  /\ At(w, "find")
  /\ \/ Finds(w, "fresh")
     \/ Matches(wk[w].client) = {} /\ GoTo(w, "intent")
  /\ UNCHANGED <<stores, bounds>>

\* The request's whole copy of the file with its own record set.
WithRecord(w, r) == [wk[w].mem EXCEPT ![wk[w].client] = r]

\* store.save(lifecycle): the whole copy replaces the file.
SaveRecord(w, r, s) ==
  /\ file' = WithRecord(w, r)
  /\ Becomes(w, [wk[w] EXCEPT !.step = s, !.mem = WithRecord(w, r)])

\* Mutant: the broker is called before the intent is on disk.
SaveIntentLater(w) ==
  /\ At(w, "intent")
  /\ Becomes(w, [wk[w] EXCEPT !.step = "submit",
                              !.mem = WithRecord(w, [status |-> "SUBMISSION_INTENT", filled |-> 0])])
  /\ UNCHANGED <<stores, bounds>>

\* _create_lifecycle_record and the transition to SUBMISSION_INTENT, which a
\* record loaded from the file has no state machine for.
SaveIntent(w) ==
  /\ At(w, "intent")
  /\ wk[w].mem[wk[w].client].status = "none"
  /\ SaveRecord(w, [status |-> "SUBMISSION_INTENT", filled |-> 0], "submit")
  /\ UNCHANGED <<rows, claims, reservations, orders, safety, ready, bounds>>

-----------------------------------------------------------------------------
(* BrokerRouter.submit                                                      *)

\* Mutant: the router trusts the reconciliation of the startup.
RouterChecksSkipped(w) ==
  /\ At(w, "submit")
  /\ Matches(wk[w].client) = {} /\ GoTo(w, "send")
  /\ UNCHANGED <<stores, bounds>>

\* _require_execution_ready, the lookup of the client order id and the second
\* look at the fingerprint. Every refusal (an old reconciliation, an order
\* that exists, a failed lookup) raises, and some also halt trading.
RouterChecks(w) ==
  /\ At(w, "submit")
  /\ \/ /\ safety = "clear"
        /\ Matches(wk[w].client) = {}
        /\ GoTo(w, "send")
        /\ UNCHANGED safety
     \/ GoTo(w, "ambiguous") /\ safety' \in {safety, "halted"}
  /\ UNCHANGED <<rows, file, claims, reservations, orders, ready, bounds>>

\* adapter.submit_order: the request leaves for the broker, or never does.
SendOrder(w) ==
  /\ At(w, "send")
  /\ \/ \E b \in BrokerIds : Send(b, wk[w].client)
     \/ UNCHANGED orders
  /\ GoTo(w, "sent")
  /\ UNCHANGED <<rows, file, claims, reservations, safety, ready, bounds>>

\* The call raises: for the missing .value, or because the adapter raised and
\* _recover_after_submit_failure did not find a complete, equal order.
SubmitRaises(w) ==
  /\ At(w, "sent")
  /\ GoTo(w, "ambiguous")
  /\ safety' \in {safety, "halted"}
  /\ UNCHANGED <<rows, file, claims, reservations, orders, ready, bounds>>

-----------------------------------------------------------------------------
(* After the exception of router.submit, and _save_recovered.               *)

\* _reconcile_ambiguous_submission: one lookup of the client order id.
FindAmbiguous(w) ==
  /\ At(w, "ambiguous")
  /\ Finds(w, "ambiguous") \/ GoTo(w, "mark")
  /\ UNCHANGED <<stores, bounds>>

\* Mutant: the broker's word for a resting order is stored as it is.
MapBrokerStatusAsIs(s) == s

\* _map_broker_status of a status the broker reports.
MapBrokerStatus(s) == IF s = "NEW" THEN "SUBMITTED" ELSE s

\* Mutant: an order the broker has is taken for a finished one.
RecoveredRecordFilled(w) ==
  [status |-> "FILLED", filled |-> Quantity[wk[w].client]]

\* What _save_recovered writes: fills are recorded with a fill status only.
RecoveredRecord(w) ==
  LET s == MapBrokerStatus(wk[w].found) IN
  [status |-> s,
   filled |-> IF s \in {"FILLED", "PARTIALLY_FILLED"} THEN wk[w].foundFilled ELSE 0]

\* The machine of a record this request created takes any first status, but
\* SUBMITTING does not lead to CANCELLED; a loaded record has no machine.
RecoveryAllowed(w) ==
  IF wk[w].path = "ambiguous" THEN wk[w].found # "CANCELLED"
  ELSE wk[w].mem[wk[w].client].status = "none"

\* Where an exception of _save_recovered is caught: the claim and the fresh
\* path give up; after a submission the request goes on to be marked.
RecoveryFails(w) ==
  IF wk[w].path = "ambiguous"
  THEN GoTo(w, "mark") /\ UNCHANGED reservations
  ELSE GivesUp(w, "SUBMITTED")

SaveRecovered(w) ==
  /\ At(w, "save")
  /\ \/ /\ RecoveryAllowed(w)
        /\ SaveRecord(w, RecoveredRecord(w), "settle")
        /\ UNCHANGED reservations
     \/ RecoveryFails(w) /\ UNCHANGED file
  /\ UNCHANGED <<rows, claims, orders, safety, ready, bounds>>

\* Mutant: a partial fill settles the whole reservation.
SettleEverything(w) ==
  /\ At(w, "settle")
  /\ IF RecoveredRecord(w).status = "SUBMITTED" THEN UNCHANGED reservations
     ELSE ReleaseRisk(wk[w].client)
  /\ GoTo(w, "finalize")
  /\ UNCHANGED <<rows, file, claims, orders, safety, ready, bounds>>

\* update_after_fill: what is left of the order stays reserved.
UpdateAfterFill(c, filled) ==
  IF Durable THEN Reconcile(c, "PARTIALLY_FILLED", Quantity[c] - filled)
  ELSE UNCHANGED reservations

\* _settle_risk_reservation
SettleRisk(w) ==
  LET c == wk[w].client
      s == RecoveredRecord(w).status
  IN
  /\ At(w, "settle")
  /\ \/ s \in TerminalStatuses /\ ReleaseRisk(c)
     \/ s = "PARTIALLY_FILLED" /\ UpdateAfterFill(c, wk[w].foundFilled)
     \/ s = "SUBMITTED" /\ UNCHANGED reservations
  /\ GoTo(w, "finalize")
  /\ UNCHANGED <<rows, file, claims, orders, safety, ready, bounds>>

\* Mutant: any recovered order completes the claim.
FinalizeAlways(w) ==
  /\ At(w, "finalize")
  /\ claims' = [claims EXCEPT ![wk[w].client] = "COMPLETED"]
  /\ Reply(w, RecoveredRecord(w).status)
  /\ UNCHANGED <<rows, file, reservations, orders, safety, ready, bounds>>

\* _finalize_idempotency, and the result of _save_recovered.
Finalize(w) ==
  LET s == RecoveredRecord(w).status IN
  /\ At(w, "finalize")
  /\ claims' = IF s \in TerminalStatuses
               THEN [claims EXCEPT ![wk[w].client] = "COMPLETED"] ELSE claims
  /\ Reply(w, s)
  /\ UNCHANGED <<rows, file, reservations, orders, safety, ready, bounds>>

\* Nothing was recovered: the record is marked SUBMITTED, whatever was sent.
MarkSubmitted(w) ==
  /\ At(w, "mark")
  /\ file' = WithRecord(w, [status |-> "SUBMITTED", filled |-> 0])
  /\ Reply(w, "SUBMITTED")
  /\ UNCHANGED <<rows, claims, reservations, orders, safety, ready, bounds>>

\* create_order commits the result to the row, or fails to and leaves it.
Project(w) ==
  /\ At(w, "reply")
  /\ \/ rows' = [rows EXCEPT ![wk[w].client] = wk[w].result]
     \/ UNCHANGED rows
  /\ Becomes(w, IdleWorker)
  /\ UNCHANGED <<file, claims, reservations, orders, safety, ready, bounds>>

\* Mutant: an order whose settlement fails is marked SUBMITTED again.
StoreFailsMarks(w) ==
  /\ wk[w].step \in {"settle", "finalize"}
  /\ GoTo(w, "mark")
  /\ UNCHANGED <<stores, bounds>>

\* A store fails without effect. Before anything was submitted the request
\* gives up; an error after it (a recovered status applied but not saved or
\* settled leaves the machine where SUBMITTED is refused) ends the request.
StoreFails(w) ==
  /\ \/ /\ wk[w].step \in {"load", "claim", "mark"}
        /\ Abort(w) /\ UNCHANGED reservations
     \/ /\ wk[w].step \in {"find", "intent"}
        /\ GivesUp(w, "SUBMITTED")
     \/ /\ wk[w].step \in {"save", "settle", "finalize"}
        /\ IF wk[w].path = "ambiguous" THEN Abort(w) /\ UNCHANGED reservations
           ELSE GivesUp(w, "SUBMITTED")
  /\ UNCHANGED <<rows, file, claims, orders, safety, ready, bounds>>

-----------------------------------------------------------------------------
(* Halt, restart, and the broker.                                           *)

\* EmergencyHaltController.halt
EmergencyHalt(p) ==
  /\ safety' = "halted"
  /\ ready' = [ready EXCEPT ![p] = FALSE]
  /\ UNCHANGED <<rows, file, claims, reservations, orders, wk, bounds>>

\* ReconciliationEngine.check: every record has its order and every order its
\* record, with the same status and fill.
FileMatchesBook ==
  \A c \in ClientIds :
    \/ file[c] = NoRecord /\ Matches(c) = {}
    \/ \E b \in BrokerIds :
         /\ Matches(c) = {b}
         /\ file[c] = [status |-> MapBrokerStatus(orders[b].status),
                       filled |-> orders[b].filled]

\* reconcile_authoritative_orders has nothing to report.
ReservationsMatchBook ==
  /\ \A c \in Active : \E b \in BrokerIds :
       /\ Matches(c) = {b}
       /\ orders[b].status = "PARTIALLY_FILLED" => Remaining(b) <= reservations[c].amount
  /\ \A c \in ClientIds \ Active : \A b \in Matches(c) : ~Live(b)

\* reconcile_authoritative_orders, in one transaction.
ReconcileReservations ==
  IF Durable /\ ReservationsMatchBook
  THEN reservations' = [c \in ClientIds |->
         IF c \notin Active THEN reservations[c]
         ELSE LET b == CHOOSE d \in BrokerIds : Matches(c) = {d} IN
              IF orders[b].status = "NEW" THEN reservations[c]
              ELSE ReconcileResult(c, orders[b].status, Remaining(b))]
  ELSE UNCHANGED reservations

\* Startup found halted trading, and leaves it halted.
StartsHalted(p) ==
  /\ safety = "halted"
  /\ ready' = [ready EXCEPT ![p] = FALSE]
  /\ UNCHANGED <<rows, reservations, safety>>

\* The broker is unreachable, or it and the stores disagree: trading halts.
StartsFailing(p) ==
  /\ safety # "halted"
  /\ safety' = "halted"
  /\ ready' = [ready EXCEPT ![p] = FALSE]
  /\ \/ UNCHANGED reservations
     \/ ~FileMatchesBook /\ ReconcileReservations
  /\ UNCHANGED rows

\* The rows, and those of executions that have none, with the status of the file.
ProjectedRows == [c \in ClientIds |-> IF file[c] = NoRecord THEN rows[c] ELSE file[c].status]

\* reconcile_api_order_projection: a row that is not final and whose execution has no
\* record is unresolved.
UnresolvedRows == {c \in ClientIds : file[c] = NoRecord /\ rows[c] \in RetryableRows}

\* The stores match the broker: rows are projected from the file; an unresolved one
\* keeps startup from becoming ready.
StartsReconciled(p) ==
  /\ safety # "halted"
  /\ FileMatchesBook
  /\ Durable => ReservationsMatchBook
  /\ ReconcileReservations
  /\ rows' = ProjectedRows
  /\ ready' = [ready EXCEPT ![p] = UnresolvedRows = {}]
  /\ safety' = IF UnresolvedRows = {} THEN "clear" ELSE safety

\* The process dies with its requests and the lifespan of main.py starts it
\* again with several accounts: MultiAccountStartupRecovery, then
\* reconcile_api_order_projection, then clear_all. No request is served
\* before it ends.
Restart(p) ==
  /\ restarts < MaxRestarts
  /\ restarts' = restarts + 1
  /\ wk' = [w \in Workers |-> IF ProcessOf[w] = p THEN IdleWorker ELSE wk[w]]
  /\ StartsHalted(p) \/ StartsFailing(p) \/ StartsReconciled(p)
  /\ UNCHANGED <<file, claims, orders, requests>>

\* The broker acts; a change it shows is not the reconciled snapshot any more.
BrokerStep(b) ==
  /\ BookStep(b)
  /\ safety' = IF Visible(b)' /\ safety = "clear" THEN "stale" ELSE safety
  /\ UNCHANGED <<rows, file, claims, reservations, ready, wk, bounds>>

WorkerStep(w) ==
  \/ LoadLifecycle(w) \/ Authorize(w) \/ ReserveRisk(w) \/ Claim(w)
  \/ FindClaimed(w) \/ FindFresh(w) \/ SaveIntent(w)
  \/ RouterChecks(w) \/ SendOrder(w) \/ SubmitRaises(w)
  \/ FindAmbiguous(w) \/ SaveRecovered(w) \/ SettleRisk(w) \/ Finalize(w)
  \/ MarkSubmitted(w) \/ Project(w)

Next ==
  \/ \E w \in Workers, c \in ClientIds : CreateOrder(w, c)
  \/ \E w \in Workers : WorkerStep(w) \/ StoreFails(w)
  \/ \E p \in Processes : EmergencyHalt(p) \/ Restart(p)
  \/ \E b \in BrokerIds : BrokerStep(b)

Spec == Init /\ [][Next]_vars

-----------------------------------------------------------------------------
(* The ledger: a claim is the intention, a completed claim the tracking.    *)

LedgerEntry(c) ==
  [stage |-> CASE claims[c] = "none" -> "new"
               [] claims[c] = "COMPLETED" -> "tracked"
               [] OTHER -> IF OrdersOf(c) = {} THEN "intended" ELSE "sent",
   order |-> IF OrdersOf(c) = {} THEN NoBroker ELSE CHOOSE b \in OrdersOf(c) : TRUE]

Ledger == INSTANCE OrderLedger WITH ledger <- [c \in ClientIds |-> LedgerEntry(c)]

\* Claims, lookups, crashes and restarts together are a ledger that only moves
\* forward: claim, send once, complete what was sent.
ImplementsLedger == Ledger!Spec

-----------------------------------------------------------------------------
(* Properties                                                               *)

\* Every order that ever left for the broker has a record in the execution
\* state, so that a startup can notice it: "Atomic versioned JSON
\* execution-state store with fail-closed recovery" (execution_persistence.py:15).
SentOrdersAreRecorded ==
  \A b \in BrokerIds : Sent(b) => file[orders[b].client].status # "none"

\* The file never tells more than the broker did: a recorded fill was filled,
\* a recorded end is the order's end.
RecordsNeverRunAhead ==
  \A c \in ClientIds :
    LET r == file[c] IN
    r.filled > 0 \/ r.status \in TerminalStatuses =>
      \E b \in Matches(c) :
        /\ r.filled <= orders[b].filled
        /\ r.status \in TerminalStatuses => orders[b].status = r.status

\* A record with a final status is never reopened or rewritten by a retry, a
\* failed settlement or a restart (the terminal states of order_state_machine.py).
FinalRecordsStay ==
  [][\A c \in ClientIds : file[c].status \in TerminalStatuses => file'[c] = file[c]]_file

\* A completed claim has nothing left to happen: its order is final and its
\* exposure was given back before (_settle precedes _finalize).
CompletedClaimsAreSettled ==
  \A c \in ClientIds : claims[c] = "COMPLETED" =>
    c \notin Active /\ \A b \in OrdersOf(c) : ~Live(b)

\* While an order may still fill, its remaining exposure stays reserved:
\* "Durable reservations are authoritative" (durable_risk_reservations.py:69).
LiveOrdersAreReserved ==
  \A b \in BrokerIds : Live(b) =>
    LET r == reservations[orders[b].client] IN
    r.status = "ACTIVE" /\ Remaining(b) <= r.amount

\* The position that all orders sent so far can still lead to, were every
\* live one filled, stays within the limit, whatever was filled, settled and
\* released between the snapshot a request was authorized on and its send.
AtStake(b) == IF Live(b) THEN Quantity[orders[b].client] ELSE orders[b].filled

ExposureWithinLimit ==
  LET sent == {b \in BrokerIds : Sent(b)} IN
  sent # {} => CurrentExposure + SumFunction([b \in sent |-> AtStake(b)]) <= MaxTotalExposure
=============================================================================
