------------------------------- MODULE OnceOnly -------------------------------
(***************************************************************************)
(* Three guards that let a thing happen once, one to a behaviour:          *)
(*   "paper"       execute_paper (execution/__init__.py) claims a request  *)
(*                 in the store of idempotency.py, behind the gate of the  *)
(*                 broker's connectivity (broker_connectivity.py);         *)
(*   "retries"     IdempotentExecution (idempotent_execution.py) sends an  *)
(*                 order again when a call has raised;                     *)
(*   "identities"  OrderIdentityRegistry (order_identity_registry.py)      *)
(*                 binds an order to the broker's.                         *)
(*                                                                         *)
(* Callers of execute_paper are threads of processes that share the store  *)
(* of claims; the records of the second belong to one process, whose lock  *)
(* a thread holds for each of the steps below; those that bind are         *)
(* processes over one database file, as the lock of a registry keeps apart *)
(* the threads of its own process only. Ids of broker orders are those of  *)
(* one broker.                                                             *)
(***************************************************************************)
EXTENDS Integers, FiniteSets

CONSTANTS
  OnceGates,       \* the guards, of those above
  OnceCallers,
  OnceKeys,        \* ids of requests or orders
  OncePayloads,    \* what may be ordered under one of them: fingerprints
  OnceBrokerIds,   \* ids of broker orders
  NoValue,         \* no caller's key, no payload and no id
  MaxOnceAttempts, \* max_attempts
  MaxOnceCalls,    \* bound on the calls
  MaxOnceFaults,   \* bound on the claims that expire
  MaxLinkFailures, \* max_failures
  OnceBackoff,     \* base_backoff_seconds; the largest delay is twice it
  MaxOnceTime      \* bound on the time

ASSUME OnceAssumption ==
  /\ OnceGates \subseteq {"paper", "retries", "identities"}
  /\ NoValue \notin OnceKeys \cup OncePayloads \cup OnceBrokerIds
  /\ {MaxOnceAttempts, MaxLinkFailures, OnceBackoff} \subseteq Nat \ {0}
  /\ {MaxOnceCalls, MaxOnceFaults, MaxOnceTime} \subseteq Nat
  /\ IsFiniteSet(OnceCallers)

VARIABLES
  onceGate,   \* the guard of this behaviour
  claims,     \* the store: the fingerprint each request is claimed with
  records,    \* each order's [state, attempts]
  bound,      \* the broker order each order is bound to
  onceTask,   \* what each caller is doing: [step, key, payload]
  runs,       \* history: how often each request or order was executed or sent
  accepted,   \* history: the orders of which a sending returned
  boundFor,       \* history: the bindings that were made
  brokerLink, \* the connectivity: [state, failures, retryAt]
  expired,    \* history: how often each claim has run out
  onceNow, onceCalls

linkVars == <<brokerLink, onceNow>>
recordVars == <<records, accepted, bound, boundFor>>
claimVars == <<claims, expired>>
onceVars == <<onceGate, claimVars, recordVars, linkVars, onceTask, runs, onceCalls>>

NoOnceTask == [step |-> "none", key |-> NoValue, payload |-> NoValue]
NewRecord == [state |-> "NEW", attempts |-> 0]

OnceInit ==
  /\ onceGate \in OnceGates
  /\ claims = [k \in OnceKeys |-> NoValue] /\ expired = [k \in OnceKeys |-> 0]
  /\ records = [k \in OnceKeys |-> NewRecord] /\ accepted = {}
  /\ bound = [k \in OnceKeys |-> NoValue] /\ boundFor = {}
  /\ onceTask = [c \in OnceCallers |-> NoOnceTask]
  /\ runs = [k \in OnceKeys |-> 0]
  /\ brokerLink = [state |-> "DISCONNECTED", failures |-> 0, retryAt |-> 0]
  /\ onceNow = 0 /\ onceCalls = 0

\* A caller begins, goes on to another step, or returns.
Calls(c, step, k, p) ==
  /\ onceTask[c] = NoOnceTask /\ onceCalls < MaxOnceCalls
  /\ onceTask' = [onceTask EXCEPT ![c] = [step |-> step, key |-> k, payload |-> p]]
  /\ onceCalls' = onceCalls + 1

GoesOn(c, step) == onceTask' = [onceTask EXCEPT ![c].step = step] /\ UNCHANGED onceCalls
OnceReturns(c) == onceTask' = [onceTask EXCEPT ![c] = NoOnceTask] /\ UNCHANGED onceCalls

-----------------------------------------------------------------------------
(* The link                                                                 *)

LinkSucceeds ==
  /\ brokerLink' = [state |-> "HEALTHY", failures |-> 0, retryAt |-> 0]
  /\ UNCHANGED onceNow

Delay(failures) == IF failures = 1 THEN OnceBackoff ELSE 2 * OnceBackoff

LinkFails ==
  LET failures == brokerLink.failures + 1
  IN  /\ failures <= MaxLinkFailures
      /\ brokerLink' = [state |-> IF failures < MaxLinkFailures THEN "DEGRADED" ELSE "DISCONNECTED",
                  failures |-> failures, retryAt |-> onceNow + Delay(failures)]
      /\ UNCHANGED onceNow

\* Once the delay is over; it stops trading on a link that works, too.
LinkRecoveryBegins ==
  /\ onceNow >= brokerLink.retryAt
  /\ brokerLink' = [brokerLink EXCEPT !.state = "RECOVERING"]
  /\ UNCHANGED onceNow

OnceTick == onceNow < MaxOnceTime /\ onceNow' = onceNow + 1 /\ UNCHANGED brokerLink

LinkStep ==
  /\ onceGate = "paper"
  /\ LinkSucceeds \/ LinkFails \/ LinkRecoveryBegins \/ OnceTick
  /\ UNCHANGED <<onceGate, claimVars, recordVars, onceTask, runs, onceCalls>>

-----------------------------------------------------------------------------
(* execute_paper                                                            *)

CanTrade == brokerLink.state = "HEALTHY"

\* The gate of the link is passed before the request is claimed, and not again: a link that
\* fails between this and PaperSubmits does not stop the request.
PaperAsks(c, k, p) ==
  /\ onceGate = "paper" /\ CanTrade /\ Calls(c, "claim", k, p)
  /\ UNCHANGED <<onceGate, claimVars, recordVars, linkVars, runs>>

\* Mutant: an equal fingerprint may claim the request again.
TakesEqual(k, p) == claims[k] \in {NoValue, p}

\* The store claims a key that is not there, in memory and in Redis alike; in Redis the
\* claim expires.
Takes(k, p) == claims[k] = NoValue

\* claim_order: only the first goes on. Of the others, those that order something else
\* are told of the conflict.
PaperClaims(c) ==
  LET t == onceTask[c]
  IN  /\ onceGate = "paper" /\ t.step = "claim"
      /\ \/ /\ Takes(t.key, t.payload)
            /\ claims' = [claims EXCEPT ![t.key] = t.payload] /\ GoesOn(c, "submit")
         \/ ~Takes(t.key, t.payload) /\ OnceReturns(c) /\ UNCHANGED claims
      /\ UNCHANGED <<onceGate, expired, recordVars, linkVars, runs>>

PaperSubmits(c) ==
  /\ onceGate = "paper" /\ onceTask[c].step = "submit"
  /\ runs' = [runs EXCEPT ![onceTask[c].key] = @ + 1]
  /\ OnceReturns(c)
  /\ UNCHANGED <<onceGate, claimVars, recordVars, linkVars>>

\* The claim's time to live is over.
ClaimExpires(k) ==
  /\ claims[k] # NoValue /\ expired[k] < MaxOnceFaults
  /\ claims' = [claims EXCEPT ![k] = NoValue]
  /\ expired' = [expired EXCEPT ![k] = @ + 1]
  /\ UNCHANGED <<onceGate, recordVars, linkVars, onceTask, runs, onceCalls>>

\* A process that ends leaves what it claimed claimed.
CallerCrashes(c) ==
  /\ onceGate = "paper" /\ onceTask[c] # NoOnceTask /\ OnceReturns(c)
  /\ UNCHANGED <<onceGate, claimVars, recordVars, linkVars, runs>>

-----------------------------------------------------------------------------
(* IdempotentExecution.execute                                              *)

Record(k, state, attempts) ==
  records' = [records EXCEPT ![k] = [state |-> state, attempts |-> attempts]]

\* An order that was sent, or is being sent, is not sent again; one whose sending raised
\* is, up to the limit.
Sends(c, k) ==
  /\ onceGate = "retries"
  /\ records[k].state # "SUBMITTED" /\ records[k].attempts < MaxOnceAttempts
  /\ Calls(c, "send", k, NoValue)
  /\ Record(k, "SUBMITTED", records[k].attempts + 1)
  /\ runs' = [runs EXCEPT ![k] = @ + 1]
  /\ UNCHANGED <<onceGate, claimVars, accepted, bound, boundFor, linkVars>>

\* submit returns, or raises, and the broker may have the order all the same.
SendEnds(c, raises) ==
  LET k == onceTask[c].key
  IN  /\ onceGate = "retries" /\ onceTask[c].step = "send"
      /\ Record(k, IF raises THEN "UNKNOWN" ELSE "SUBMITTED", records[k].attempts)
      /\ accepted' = IF raises THEN accepted ELSE accepted \cup {k}
      /\ OnceReturns(c)
      /\ UNCHANGED <<onceGate, claimVars, bound, boundFor, linkVars, runs>>

-----------------------------------------------------------------------------
(* OrderIdentityRegistry.bind                                               *)

MayBind(k, b) ==
  /\ bound[k] \in {NoValue, b}
  /\ \A other \in OnceKeys \ {k} : bound[other] # b

\* The two SELECTs of bind, on which it raises.
BindReads(c, k, b) ==
  /\ onceGate = "identities" /\ MayBind(k, b) /\ Calls(c, "bind", k, b)
  /\ UNCHANGED <<onceGate, claimVars, recordVars, linkVars, runs>>

\* INSERT OR IGNORE, of a process that another may have come before: client_order_id is the
\* key and broker_order_id is unique, and what either forbids is not inserted. bind
\* returns in any case.
BindInserts(c) ==
  LET k == onceTask[c].key
      b == onceTask[c].payload
      inserts == bound[k] = NoValue /\ \A other \in OnceKeys : bound[other] # b
  IN  /\ onceGate = "identities" /\ onceTask[c].step = "bind"
      /\ bound' = IF inserts THEN [bound EXCEPT ![k] = b] ELSE bound
      /\ boundFor' = IF inserts THEN boundFor \cup {<<k, b>>} ELSE boundFor
      /\ OnceReturns(c)
      /\ UNCHANGED <<onceGate, claimVars, records, accepted, linkVars, runs>>

OnceNext ==
  \/ LinkStep
  \/ \E c \in OnceCallers, k \in OnceKeys, p \in OncePayloads : PaperAsks(c, k, p)
  \/ \E c \in OnceCallers : PaperClaims(c) \/ PaperSubmits(c) \/ CallerCrashes(c)
  \/ \E k \in OnceKeys : ClaimExpires(k)
  \/ \E c \in OnceCallers, k \in OnceKeys : Sends(c, k)
  \/ \E c \in OnceCallers, raises \in BOOLEAN : SendEnds(c, raises)
  \/ \E c \in OnceCallers, k \in OnceKeys, b \in OnceBrokerIds : BindReads(c, k, b)
  \/ \E c \in OnceCallers : BindInserts(c)

OnceSpec == OnceInit /\ [][OnceNext]_onceVars

-----------------------------------------------------------------------------
OnceTypeOK ==
  /\ onceGate \in OnceGates
  /\ claims \in [OnceKeys -> OncePayloads \cup {NoValue}]
  /\ records \in [OnceKeys -> [state : {"NEW", "SUBMITTED", "UNKNOWN"},
                               attempts : 0..MaxOnceAttempts]]
  /\ bound \in [OnceKeys -> OnceBrokerIds \cup {NoValue}]
  /\ \A c \in OnceCallers : onceTask[c].step \in {"none", "claim", "submit", "send", "bind"}
  /\ brokerLink.state \in {"HEALTHY", "DEGRADED", "DISCONNECTED", "RECOVERING"}

CallersAt(step, k) == {c \in OnceCallers : onceTask[c].step = step /\ onceTask[c].key = k}

\* claim_order, IdempotentExecution ("Prevents duplicate submission for a client order id
\* and bounds retries") and OrderIdentityRegistry.bind: a request is executed once for
\* every time to live of its claim, and as it was claimed; of an order one sending is
\* under way at most, none follows one that returned, and all are within the limit; and
\* whichever processes bind at once, a binding that was made stays and no two orders are
\* bound to one order of the broker. That bind has returned does not say that its binding
\* was made: see BindInserts.
OnceMeansOnce ==
  /\ onceGate = "paper" =>
       \A k \in OnceKeys :
         /\ runs[k] + Cardinality(CallersAt("submit", k)) <= 1 + expired[k]
         /\ expired[k] = 0 => \A c \in CallersAt("submit", k) : onceTask[c].payload = claims[k]
  /\ onceGate = "retries" =>
       \A k \in OnceKeys :
         /\ Cardinality(CallersAt("send", k)) <= 1 /\ runs[k] <= MaxOnceAttempts
         /\ k \in accepted => CallersAt("send", k) = {} /\ records[k].state = "SUBMITTED"
  /\ \A t \in boundFor : bound[t[1]] = t[2]
  /\ \A j, k \in OnceKeys : bound[j] = bound[k] /\ bound[j] # NoValue => j = k
=============================================================================
