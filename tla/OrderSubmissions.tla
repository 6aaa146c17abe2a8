-------------------------- MODULE OrderSubmissions --------------------------
(***************************************************************************)
(* The durable outbound orders of order_submission_service.py: a call      *)
(* registers its idempotency key, sends the order and records the broker's *)
(* order id; a submission whose outcome is unknown stays PENDING until a   *)
(* later call, reconcile_pending, or a recovery run (the orchestrator or   *)
(* DurableSubmissionRecovery) settles it.                                  *)
(*                                                                         *)
(* The broker and its adapter are external: they are modelled from how     *)
(* these services call them. An order that is at the broker may not be     *)
(* listed yet when it is looked up; submit_idempotent gives back the order *)
(* the broker already has under the key.                                   *)
(***************************************************************************)
EXTENDS Integers, FiniteSets

CONSTANTS Keys,          \* idempotency keys, one for each internal order
          BrokerOrderIds,
          Submitters,    \* calls of OrderSubmissionService.submit under way
          Recoverers,    \* recovery runs under way
          KeyScope,      \* [Keys -> account scopes]
          Approvals,     \* approvals operators give: [role, scope]
          NoBrokerOrder, NoKey,
          MaxSends       \* bound on calls of submit

ASSUME SubmissionAssumption ==
  NoBrokerOrder \notin BrokerOrderIds /\ NoKey \notin Keys /\ MaxSends \in Nat

VARIABLES submissions,  \* the row of each key
          market,       \* the key of each order at the broker
          listed,       \* the broker orders a lookup shows
          submitter,    \* what each call of submit is doing
          recoverer,    \* what each recovery run is doing
          told,         \* the broker ids each key's callers were given
          sends

submissionVars == <<submissions, market, listed, submitter, recoverer, told, sends>>

Quiet == [step |-> "idle", key |-> NoKey, broker |-> NoBrokerOrder]

Settled == [step |-> "idle", queue |-> {}, key |-> NoKey, broker |-> NoBrokerOrder,
            resends |-> FALSE]

SubmissionsInit ==
  /\ submissions = [k \in Keys |-> [status |-> "none", broker |-> NoBrokerOrder]]
  /\ market = [b \in BrokerOrderIds |-> NoKey]
  /\ listed = {}
  /\ submitter = [s \in Submitters |-> Quiet]
  /\ recoverer = [r \in Recoverers |-> Settled]
  /\ told = [k \in Keys |-> {}]
  /\ sends = 0

OrdersUnder(k) == {b \in BrokerOrderIds : market[b] = k}

\* An order reaches the broker under an id that was not used before.
Place(b, k) ==
  /\ market[b] = NoKey
  /\ market' = [market EXCEPT ![b] = k]

Pending == {k \in Keys : submissions[k].status = "PENDING"}

\* Mutant of Bindable: a row that names another broker order is written over.
AlwaysBindable(k, b) == TRUE

\* mark_submission_submitted refuses a row that names another broker order.
Bindable(k, b) == submissions[k].status = "PENDING" \/ submissions[k].broker = b

BindSubmission(k, b) ==
  submissions' = [submissions EXCEPT ![k] = [status |-> "SUBMITTED", broker |-> b]]

-----------------------------------------------------------------------------
(* submit.                                                                  *)

\* register_submission: a submission that is already known is answered from its row,
\* one that is pending is sent again.
Register(s, k) ==
  /\ submitter[s].step = "idle" /\ sends < MaxSends
  /\ sends' = sends + 1
  /\ IF submissions[k].status = "SUBMITTED"
     THEN /\ told' = [told EXCEPT ![k] = @ \cup {submissions[k].broker}]
          /\ UNCHANGED <<submissions, submitter>>
     ELSE /\ submissions' = [submissions EXCEPT ![k].status = "PENDING"]
          /\ submitter' = [submitter EXCEPT ![s] = [Quiet EXCEPT !.step = "send", !.key = k]]
          /\ UNCHANGED told
  /\ UNCHANGED <<market, listed, recoverer>>

\* The broker takes the order and answers with its id.
SendTaken(s) ==
  /\ submitter[s].step = "send"
  /\ \E b \in BrokerOrderIds :
       /\ Place(b, submitter[s].key)
       /\ submitter' = [submitter EXCEPT ![s] =
            [@ EXCEPT !.step = "mark", !.broker = b]]
  /\ UNCHANGED <<submissions, listed, recoverer, told, sends>>

\* The call raises, or its answer cannot be used: the outcome is unknown.
SendAmbiguous(s) ==
  /\ submitter[s].step = "send"
  /\ \/ UNCHANGED market
     \/ \E b \in BrokerOrderIds : Place(b, submitter[s].key)
  /\ submitter' = [submitter EXCEPT ![s] = Quiet]
  /\ UNCHANGED <<submissions, listed, recoverer, told, sends>>

\* The id is recorded and returned, or the row already names another order.
MarkSubmissionSubmitted(s) ==
  LET k == submitter[s].key
      b == submitter[s].broker IN
  /\ submitter[s].step = "mark"
  /\ IF Bindable(k, b)
     THEN BindSubmission(k, b) /\ told' = [told EXCEPT ![k] = @ \cup {b}]
     ELSE UNCHANGED <<submissions, told>>
  /\ submitter' = [submitter EXCEPT ![s] = Quiet]
  /\ UNCHANGED <<market, listed, recoverer, sends>>

SubmitterDies(s) ==
  /\ submitter[s].step # "idle"
  /\ submitter' = [submitter EXCEPT ![s] = Quiet]
  /\ UNCHANGED <<submissions, market, listed, recoverer, told, sends>>

-----------------------------------------------------------------------------
(* Recovery.                                                                *)

RecoveryRoles == {"recovery_operator", "admin"}

\* The submissions an approval lets a run touch; the others are quarantined, which
\* leaves their rows alone.
Recoverable(approval) ==
  {k \in Pending : approval.role \in RecoveryRoles /\ KeyScope[k] = approval.scope}

\* A run reads the pending submissions once. reconcile_pending only looks orders up;
\* the orchestrator and DurableSubmissionRecovery also send again.
StartRecovery(r, approval, resends) ==
  /\ recoverer[r].step = "idle" /\ Recoverable(approval) # {}
  /\ recoverer' = [recoverer EXCEPT ![r] =
       [Settled EXCEPT !.step = "lookup", !.queue = Recoverable(approval),
                       !.resends = resends]]
  /\ UNCHANGED <<submissions, market, listed, submitter, told, sends>>

\* The rest of the run after submission k.
After(r, k) ==
  IF recoverer[r].queue = {k} THEN Settled
  ELSE [recoverer[r] EXCEPT !.step = "lookup", !.queue = @ \ {k}, !.key = NoKey,
                            !.broker = NoBrokerOrder]

\* reconcile_pending skips a key without an order, and ends at one with several.
OnlyLooks(r, k, found) == IF Cardinality(found) > 1 THEN Settled ELSE After(r, k)

\* recover_pending sends again what has no order, and leaves several for an operator.
OrResends(r, k, found) ==
  IF Cardinality(found) > 1 THEN After(r, k)
  ELSE [recoverer[r] EXCEPT !.step = "resend", !.key = k]

\* One order is recovered.
LookupOrder(r) ==
  /\ recoverer[r].step = "lookup"
  /\ \E k \in recoverer[r].queue :
       LET found == OrdersUnder(k) \cap listed IN
       recoverer' = [recoverer EXCEPT ![r] =
         CASE Cardinality(found) = 1 ->
                [@ EXCEPT !.step = "mark", !.key = k, !.broker = CHOOSE b \in found : TRUE]
           [] OTHER -> IF @.resends THEN OrResends(r, k, found) ELSE OnlyLooks(r, k, found)]
  /\ UNCHANGED <<submissions, market, listed, submitter, told, sends>>

\* submit_idempotent answers with the order the broker has under the key, or places
\* one.
Resend(r) ==
  LET k == recoverer[r].key IN
  /\ recoverer[r].step = "resend"
  /\ \E b \in BrokerOrderIds :
       /\ IF OrdersUnder(k) = {} THEN Place(b, k) ELSE b \in OrdersUnder(k) /\ UNCHANGED market
       /\ recoverer' = [recoverer EXCEPT ![r].step = "mark", ![r].broker = b]
  /\ UNCHANGED <<submissions, listed, submitter, told, sends>>

\* A row that names another order raises an error the run does not catch.
MarkRecovered(r) ==
  LET k == recoverer[r].key
      b == recoverer[r].broker IN
  /\ recoverer[r].step = "mark"
  /\ IF Bindable(k, b)
     THEN /\ BindSubmission(k, b)
          /\ told' = [told EXCEPT ![k] = @ \cup {b}]
          /\ recoverer' = [recoverer EXCEPT ![r] = After(r, k)]
     ELSE /\ recoverer' = [recoverer EXCEPT ![r] = Settled]
          /\ UNCHANGED <<submissions, told>>
  /\ UNCHANGED <<market, listed, submitter, sends>>

\* A lookup or a send raises, or the process dies: the run is over.
RecoveryStops(r) ==
  /\ recoverer[r].step # "idle"
  /\ recoverer' = [recoverer EXCEPT ![r] = Settled]
  /\ UNCHANGED <<submissions, market, listed, submitter, told, sends>>

\* The broker lists an order it has.
List(b) ==
  /\ market[b] # NoKey /\ b \notin listed
  /\ listed' = listed \cup {b}
  /\ UNCHANGED <<submissions, market, submitter, recoverer, told, sends>>

SubmitterStep(s) ==
  \/ \E k \in Keys : Register(s, k)
  \/ SendTaken(s) \/ SendAmbiguous(s) \/ MarkSubmissionSubmitted(s) \/ SubmitterDies(s)

RecoveryStep(r) ==
  \/ \E approval \in Approvals, resends \in BOOLEAN : StartRecovery(r, approval, resends)
  \/ LookupOrder(r) \/ Resend(r) \/ MarkRecovered(r)

SubmissionsNext ==
  \/ \E s \in Submitters : SubmitterStep(s)
  \/ \E r \in Recoverers : RecoveryStep(r) \/ RecoveryStops(r)
  \/ \E b \in BrokerOrderIds : List(b)

SubmissionsSpec == SubmissionsInit /\ [][SubmissionsNext]_submissionVars

-----------------------------------------------------------------------------
SubmissionsTypeOK ==
  /\ submissions \in [Keys -> [status: {"none", "PENDING", "SUBMITTED"},
                               broker: BrokerOrderIds \cup {NoBrokerOrder}]]
  /\ market \in [BrokerOrderIds -> Keys \cup {NoKey}]
  /\ listed \subseteq BrokerOrderIds
  /\ told \in [Keys -> SUBSET BrokerOrderIds]

\* Whoever submits or recovers an order, at the same time or after a crash, is told
\* the one broker order the row names, and that order is at the broker under the key;
\* no order is at the broker whose key is not in the database
\* (mark_submission_submitted, register_submission).
CallersAreToldOneOrder ==
  /\ \A k \in Keys :
       /\ told[k] \subseteq {submissions[k].broker}
       /\ submissions[k].status = "SUBMITTED" => market[submissions[k].broker] = k
  /\ \A b \in BrokerOrderIds :
       market[b] # NoKey => submissions[market[b]].status # "none"
=============================================================================
