----------------------------- MODULE HealthAlerts -----------------------------
(***************************************************************************)
(* Alerts about the health of the execution: threads that submit orders    *)
(* record metrics (execution_observability.py), and the hook each of them  *)
(* then calls derives the health (execution_health.py) and asks the policy *)
(* whether an alert is due (execution_alert_service.py,                    *)
(* execution_alert_policy.py, without a store, as app_factory.py makes it).*)
(*                                                                         *)
(* Only the metrics are under a lock: between any two steps of a hook the  *)
(* hooks of other threads run. Latencies are in seconds.                   *)
(***************************************************************************)
EXTENDS Integers, FiniteSetsExt

CONSTANTS
  HookThreads,
  Measured,       \* what may be recorded: [metric, amount]; "recorded" only counts them
  AlertCooldown,  \* cooldown_seconds
  MaxMeasured,    \* bound on what is recorded
  MaxAlertTime    \* bound on the time

ASSUME HealthAlertsAssumption ==
  /\ \A m \in Measured : m.amount \in Nat /\ m.metric # "recorded"
  /\ {AlertCooldown, MaxMeasured, MaxAlertTime} \subseteq Nat

VARIABLES
  metrics,     \* _values
  hooks,       \* what each thread's hook is doing
  lastSent,    \* _last_sent: fingerprints and when
  lastStatus,  \* _last_status
  raised,      \* the alerts the policy has returned
  measuredAt,  \* when a metric was last recorded
  alertNow

healthVars == <<metrics, hooks, lastSent, lastStatus, raised, measuredAt, alertNow>>

NoMetrics == [submissions |-> 0, failures |-> 0, quarantined |-> 0, brokerTotal |-> 0,
              brokerSamples |-> 0, recoveryTotal |-> 0, recoverySamples |-> 0,
              recorded |-> 0]

Healthy == [status |-> "HEALTHY", reasons |-> {}]
NoHook == [step |-> "idle", snapshot |-> Healthy, at |-> 0, previous |-> -1]

HealthInit ==
  /\ metrics = NoMetrics
  /\ hooks = [t \in HookThreads |-> NoHook]
  /\ lastSent = [fingerprint \in {} |-> 0] /\ lastStatus = "none"
  /\ raised = {} /\ measuredAt = 0 /\ alertNow = 0

-----------------------------------------------------------------------------
\* An average that reaches a limit, and a rate, in hundredths, that does.
AverageReaches(total, samples, limit) == samples > 0 /\ total >= limit * samples
RateReaches(limit) ==
  metrics.submissions > 0 /\ 100 * metrics.quarantined >= limit * metrics.submissions

\* ExecutionHealth.snapshot
Health ==
  LET reasons ==
        {reason \in {"BROKER_FAILURE", "BROKER_LATENCY_HIGH", "RECOVERY_LATENCY_HIGH",
                     "QUARANTINE_RATE_HIGH"} :
           CASE reason = "BROKER_FAILURE" -> metrics.failures > 0
             [] reason = "BROKER_LATENCY_HIGH" ->
                  AverageReaches(metrics.brokerTotal, metrics.brokerSamples, 5)
             [] reason = "RECOVERY_LATENCY_HIGH" ->
                  AverageReaches(metrics.recoveryTotal, metrics.recoverySamples, 5)
             [] reason = "QUARANTINE_RATE_HIGH" -> RateReaches(5)}
      critical == \/ metrics.failures > 0 \/ RateReaches(20)
                  \/ AverageReaches(metrics.brokerTotal, metrics.brokerSamples, 10) IN
  [status |-> IF critical THEN "CRITICAL" ELSE IF reasons # {} THEN "DEGRADED"
              ELSE "HEALTHY",
   reasons |-> reasons]

Hook(t, hook) == hooks' = [hooks EXCEPT ![t] = hook]

\* increment, observe_latency: a metric is recorded, and the hooks are called.
Measure(t, m) ==
  /\ hooks[t].step = "idle" /\ metrics.recorded < MaxMeasured
  /\ metrics' =
       CASE m.metric = "broker_latency" ->
              [metrics EXCEPT !.brokerTotal = @ + m.amount, !.brokerSamples = @ + 1,
                              !.recorded = @ + 1]
         [] m.metric = "recovery_latency" ->
              [metrics EXCEPT !.recoveryTotal = @ + m.amount, !.recoverySamples = @ + 1,
                              !.recorded = @ + 1]
         [] OTHER -> [metrics EXCEPT ![m.metric] = @ + m.amount, !.recorded = @ + 1]
  /\ Hook(t, [NoHook EXCEPT !.step = "snapshot"])
  /\ measuredAt' = alertNow
  /\ UNCHANGED <<lastSent, lastStatus, raised, alertNow>>

SnapshotHealth(t) ==
  /\ hooks[t].step = "snapshot"
  /\ Hook(t, [hooks[t] EXCEPT !.step = "evaluate", !.snapshot = Health])
  /\ UNCHANGED <<metrics, lastSent, lastStatus, raised, measuredAt, alertNow>>

\* evaluate, of a healthy snapshot.
EvaluateHealthy(t) ==
  /\ hooks[t].step = "evaluate" /\ hooks[t].snapshot.status = "HEALTHY"
  /\ lastStatus' = "HEALTHY" /\ Hook(t, NoHook)
  /\ UNCHANGED <<metrics, lastSent, raised, measuredAt, alertNow>>

\* evaluate, of another: the clock and the time of the last alert like it are read.
ReadPrevious(t) ==
  LET fingerprint == hooks[t].snapshot IN
  /\ hooks[t].step = "evaluate" /\ fingerprint.status # "HEALTHY"
  /\ Hook(t, [hooks[t] EXCEPT !.step = "decide", !.at = alertNow,
                !.previous = IF fingerprint \in DOMAIN lastSent THEN lastSent[fingerprint]
                             ELSE -1])
  /\ UNCHANGED <<metrics, lastSent, lastStatus, raised, measuredAt, alertNow>>

Suppressed(hook) ==
  LET escalated == /\ hook.snapshot.status = "CRITICAL"
                   /\ lastStatus \notin {"none", "CRITICAL"} IN
  hook.previous >= 0 /\ hook.at - hook.previous < AlertCooldown /\ ~escalated

SentAt(hook) ==
  [fingerprint \in DOMAIN lastSent \cup {hook.snapshot} |->
     IF fingerprint = hook.snapshot THEN hook.at ELSE lastSent[fingerprint]]

\* Mutant: an alert that is held back starts the cooldown anew.
SentAfterAny(hook) == SentAt(hook)

\* What is remembered of the alerts sent.
SentAfter(hook) == IF Suppressed(hook) THEN lastSent ELSE SentAt(hook)

JudgeAlert(t) ==
  LET hook == hooks[t] IN
  /\ hook.step = "decide"
  /\ lastSent' = SentAfter(hook) /\ lastStatus' = hook.snapshot.status
  /\ raised' = IF Suppressed(hook) THEN raised
               ELSE raised \cup {[fingerprint |-> hook.snapshot, at |-> hook.at]}
  /\ Hook(t, NoHook)
  /\ UNCHANGED <<metrics, measuredAt, alertNow>>

AlertTime ==
  /\ alertNow < MaxAlertTime /\ alertNow' = alertNow + 1
  /\ UNCHANGED <<metrics, hooks, lastSent, lastStatus, raised, measuredAt>>

HealthNext ==
  \/ \E t \in HookThreads :
       \/ \E m \in Measured : Measure(t, m)
       \/ SnapshotHealth(t) \/ EvaluateHealthy(t) \/ ReadPrevious(t) \/ JudgeAlert(t)
  \/ AlertTime

HealthSpec == HealthInit /\ [][HealthNext]_healthVars

-----------------------------------------------------------------------------
HealthTypeOK ==
  /\ lastStatus \in {"none", "HEALTHY", "DEGRADED", "CRITICAL"}
  /\ \A t \in HookThreads : hooks[t].step \in {"idle", "snapshot", "evaluate", "decide"}
  /\ \A alert \in raised : alert.fingerprint.reasons # {} /\ alert.at \in 0..MaxAlertTime

\* Once every hook has returned, the health as the metrics have it is healthy, or an alert
\* with just its status and reasons was raised less than the cooldown before the last
\* metric came, or since, in whatever order the hooks of the threads overtook one another;
\* and what the policy remembers as sent was sent (ExecutionObservability._notify_hooks,
\* ExecutionHealth.snapshot, ExecutionAlertPolicy.evaluate).
UnhealthIsAlerted ==
  /\ (\A t \in HookThreads : hooks[t] = NoHook) /\ Health.status # "HEALTHY" =>
       \E alert \in raised :
         /\ alert.fingerprint = Health
         /\ alert.at > measuredAt - AlertCooldown \/ alert.at >= measuredAt
  /\ \A fingerprint \in DOMAIN lastSent :
       [fingerprint |-> fingerprint, at |-> lastSent[fingerprint]] \in raised
=============================================================================
