---------------------------- MODULE AlertDelivery ----------------------------
(***************************************************************************)
(* The outbox of execution alert events (execution_alert_events.py), the   *)
(* dispatcher that claims an event under a lease and hands it to a publish *)
(* callback (execution_alert_dispatcher.py), and the worker that retries   *)
(* with a growing delay (execution_alert_worker.py).                       *)
(*                                                                         *)
(* Every step below is one SQLite connection of the code; between two of   *)
(* them other workers run, a lease may run out and the process may die.    *)
(* Nothing in the program calls the quarantine of the dead-letter store,   *)
(* so the set of dead letters is empty and requeue always answers False.   *)
(***************************************************************************)
EXTENDS Integers, FiniteSets, FiniteSetsExt

CONSTANTS AlertEvents,       \* ids of events, in the order they are created
          AlertWorkers,
          NoWorker,
          MaxAlertAttempts,  \* max_attempts of the worker
          MaxAlertFaults     \* bound on deaths and on leases that are too short

ASSUME AlertAssumption ==
  /\ AlertEvents \subseteq Nat /\ NoWorker \notin AlertWorkers
  /\ MaxAlertAttempts \in Nat \ {0} /\ MaxAlertFaults \in Nat

VARIABLES emitted,      \* the events in the outbox
          deliveries,   \* the delivery row of each event
          alertWorker,  \* what each worker is doing
          alertFaults

alertVars == <<emitted, deliveries, alertWorker, alertFaults>>

NoDelivery == [attempts |-> 0, delivered |-> FALSE, due |-> TRUE,
               lease |-> NoWorker, over |-> FALSE]

Resting == [step |-> "idle", queue |-> {}, attempts |-> 0]

AlertsInit ==
  /\ emitted = {}
  /\ deliveries = [e \in AlertEvents |-> NoDelivery]
  /\ alertWorker = [w \in AlertWorkers |-> Resting]
  /\ alertFaults = 0

GoAlert(w, step) == alertWorker' = [alertWorker EXCEPT ![w].step = step]

\* The event a worker has taken from its list.
Handled(w) == Min(alertWorker[w].queue)

-----------------------------------------------------------------------------
\* emit_once: one event for each transition of an alert.
Emit(e) ==
  /\ e \notin emitted
  /\ emitted' = emitted \cup {e}
  /\ UNCHANGED <<deliveries, alertWorker, alertFaults>>

\* Mutant of Leased: a lease never runs out.
LeasedForEver(e) == deliveries[e].lease # NoWorker

Leased(e) == deliveries[e].lease # NoWorker /\ ~deliveries[e].over

\* _due_events: what is not delivered, has attempts left, is due and is not leased.
DueEvents ==
  {e \in emitted : /\ ~deliveries[e].delivered
                   /\ deliveries[e].attempts < MaxAlertAttempts
                   /\ deliveries[e].due /\ ~Leased(e)}

\* run_once reads its list once and works through it.
ReadDue(w) ==
  /\ alertWorker[w].step = "idle" /\ DueEvents # {}
  /\ alertWorker' = [alertWorker EXCEPT ![w] =
       [step |-> "claim", queue |-> DueEvents, attempts |-> 0]]
  /\ UNCHANGED <<emitted, deliveries, alertFaults>>

\* Neither the attempts nor the time of the next one are looked at again.
CanClaim(e) == ~deliveries[e].delivered /\ ~Leased(e)

\* claim, or the answer of dispatch_once when there is nothing to claim.
ClaimEvent(w) ==
  LET e == Handled(w) IN
  /\ alertWorker[w].step = "claim"
  /\ IF CanClaim(e)
     THEN /\ deliveries' = [deliveries EXCEPT ![e].lease = w, ![e].over = FALSE]
          /\ GoAlert(w, "read")
     ELSE /\ UNCHANGED deliveries
          /\ GoAlert(w, IF deliveries[e].delivered THEN "next" ELSE "postpone")
  /\ UNCHANGED <<emitted, alertFaults>>

\* The attempts so far, read in a connection of its own.
ReadAttempts(w) ==
  /\ alertWorker[w].step = "read"
  /\ alertWorker' = [alertWorker EXCEPT ![w].step = "publish",
                       ![w].attempts = deliveries[Handled(w)].attempts + 1]
  /\ UNCHANGED <<emitted, deliveries, alertFaults>>

\* The callback returns or raises.
PublishEvent(w) ==
  /\ alertWorker[w].step = "publish"
  /\ \E outcome \in {"sent", "raised"} : GoAlert(w, outcome)
  /\ UNCHANGED <<emitted, deliveries, alertFaults>>

\* The row is written only under the worker's own token and once; the answer of a
\* worker that has lost its lease is that nothing was delivered.
Outcome(w) ==
  LET e == Handled(w)
      mine == deliveries[e].lease = w /\ ~deliveries[e].delivered
      sent == alertWorker[w].step = "sent" IN
  /\ alertWorker[w].step \in {"sent", "raised"}
  /\ deliveries' = IF ~mine THEN deliveries
                   ELSE [deliveries EXCEPT ![e] =
                          [attempts |-> alertWorker[w].attempts, delivered |-> sent,
                           due |-> TRUE, lease |-> NoWorker, over |-> FALSE]]
  /\ alertWorker' = [alertWorker EXCEPT ![w].attempts = 0,
                       ![w].step = IF mine /\ sent THEN "next" ELSE "postpone"]
  /\ UNCHANGED <<emitted, alertFaults>>

\* The next attempt is put off unless someone works on the event.
Postpone(w) ==
  LET e == Handled(w) IN
  /\ alertWorker[w].step = "postpone"
  /\ deliveries' = IF deliveries[e].delivered \/ Leased(e) THEN deliveries
                   ELSE [deliveries EXCEPT ![e].due = FALSE]
  /\ GoAlert(w, "next")
  /\ UNCHANGED <<emitted, alertFaults>>

NextEvent(w) ==
  LET rest == alertWorker[w].queue \ {Handled(w)} IN
  /\ alertWorker[w].step = "next"
  /\ alertWorker' = [alertWorker EXCEPT ![w] =
       IF rest = {} THEN Resting ELSE [step |-> "claim", queue |-> rest, attempts |-> 0]]
  /\ UNCHANGED <<emitted, deliveries, alertFaults>>

-----------------------------------------------------------------------------
(* Time and death.                                                          *)

\* The delay of the next attempt passes.
FallsDue(e) ==
  /\ ~deliveries[e].due
  /\ deliveries' = [deliveries EXCEPT ![e].due = TRUE]
  /\ UNCHANGED <<emitted, alertWorker, alertFaults>>

HolderWorks(e) ==
  \E w \in AlertWorkers : /\ deliveries[e].lease = w /\ alertWorker[w].queue # {}
                          /\ Handled(w) = e

AlertFault == alertFaults < MaxAlertFaults /\ alertFaults' = alertFaults + 1

EndLease(e) ==
  /\ Leased(e)
  /\ deliveries' = [deliveries EXCEPT ![e].over = TRUE]
  /\ UNCHANGED <<emitted, alertWorker>>

\* The lease of a worker that is gone runs out.
LeaseEnds(e) == ~HolderWorks(e) /\ EndLease(e) /\ UNCHANGED alertFaults

\* The callback takes longer than the lease.
LeaseEndsEarly(e) == HolderWorks(e) /\ EndLease(e) /\ AlertFault

\* The worker's process dies and is started again.
AlertWorkerDies(w) ==
  /\ alertWorker[w].step # "idle" /\ AlertFault
  /\ alertWorker' = [alertWorker EXCEPT ![w] = Resting]
  /\ UNCHANGED <<emitted, deliveries>>

AlertWorkerStep(w) ==
  \/ ReadDue(w) \/ ClaimEvent(w) \/ ReadAttempts(w) \/ PublishEvent(w)
  \/ Outcome(w) \/ Postpone(w) \/ NextEvent(w)

AlertsNext ==
  \/ \E e \in AlertEvents : Emit(e) \/ FallsDue(e) \/ LeaseEnds(e) \/ LeaseEndsEarly(e)
  \/ \E w \in AlertWorkers : AlertWorkerStep(w) \/ AlertWorkerDies(w)

\* The worker ticks for ever and its steps end; delays and dead leases run out.
AlertsFairness ==
  /\ \A w \in AlertWorkers : WF_alertVars(AlertWorkerStep(w))
  /\ \A e \in AlertEvents : WF_alertVars(FallsDue(e)) /\ WF_alertVars(LeaseEnds(e))

AlertsSpec == AlertsInit /\ [][AlertsNext]_alertVars /\ AlertsFairness

-----------------------------------------------------------------------------
AlertsTypeOK ==
  /\ emitted \subseteq AlertEvents
  /\ deliveries \in [AlertEvents -> [attempts: Nat, delivered: BOOLEAN, due: BOOLEAN,
                                     lease: AlertWorkers \cup {NoWorker}, over: BOOLEAN]]
  /\ alertFaults \in Nat
  /\ \A w \in AlertWorkers : alertWorker[w].queue \subseteq emitted

\* Every event in the outbox is delivered in the end or has used up its attempts,
\* though workers die and lose their leases (the retryable outbox dispatcher with
\* durable delivery state of execution_alert_dispatcher.py).
AlertsReachAnEnd ==
  \A e \in AlertEvents :
    e \in emitted ~> deliveries[e].delivered \/ deliveries[e].attempts >= MaxAlertAttempts
=============================================================================
