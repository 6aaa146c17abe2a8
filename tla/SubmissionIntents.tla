-------------------------- MODULE SubmissionIntents --------------------------
(***************************************************************************)
(* SubmissionIntentStore: the durable record, one per client order id, of  *)
(* an intention to submit an order to the broker.                          *)
(*                                                                         *)
(* A record is created before the broker is called, bound to the broker    *)
(* order once that is known, and resolved once the outcome is tracked.     *)
(* Every operation below runs under the store's process lock (the file     *)
(* backend) or in one transaction (the database backend), so it is one     *)
(* atomic step; what an operation raises on is the complement of its       *)
(* "Accepts" predicate.                                                    *)
(***************************************************************************)
EXTENDS OrderIdentity

CONSTANTS
  Fingerprints,   \* hashes of the order a client id stands for
  NoFingerprint   \* the fingerprint of an absent intent

ASSUME NullsAreNotIds ==
  /\ NoBroker \notin BrokerIds
  /\ NoFingerprint \notin Fingerprints

VARIABLE intents

Phases == {"absent", "unresolved", "resolved"}

\* The statuses the store and the gateway accept from a normalized update.
TrackedStatuses == {"NEW", "PARTIALLY_FILLED", "FILLED", "REJECTED", "CANCELLED"}

Intent == [phase: Phases,
           fingerprint: Fingerprints \cup {NoFingerprint},
           broker: BrokerIds \cup {NoBroker},
           status: TrackedStatuses \cup {"none"}]

NoIntent == [phase |-> "absent", fingerprint |-> NoFingerprint,
             broker |-> NoBroker, status |-> "none"]

IntentsTypeOK == intents \in [ClientIds -> Intent]

IntentsInit == intents = [c \in ClientIds |-> NoIntent]

\* get_unresolved(c) returns a record.
Unresolved(c) == intents[c].phase = "unresolved"

\* Mutant: a resolved client id is taken for a new one.
CreateAcceptsResolved(c, f) ==
  \/ intents[c].phase \in {"absent", "resolved"}
  \/ Unresolved(c) /\ intents[c].fingerprint = f

\* create(c): a new id, or the replay of an unresolved one for the same order.
CreateAccepts(c, f) ==
  \/ intents[c].phase = "absent"
  \/ Unresolved(c) /\ intents[c].fingerprint = f

CreateIntent(c, f) ==
  /\ CreateAccepts(c, f)
  /\ intents' = IF Unresolved(c) THEN intents
                ELSE [intents EXCEPT ![c] = [NoIntent EXCEPT !.phase = "unresolved",
                                                             !.fingerprint = f]]

\* Mutant: the existing binding is not compared.
RecordAcceptsRebind(c, b) == Unresolved(c) /\ b # NoBroker

\* record_broker_order(c, b, s): resolved intents are immutable and a
\* binding never changes.
RecordAccepts(c, b) ==
  /\ Unresolved(c)
  /\ intents[c].broker \in {NoBroker, b}

RecordBrokerOrder(c, b, s) ==
  /\ RecordAccepts(c, b)
  /\ intents' = [intents EXCEPT ![c].broker = b, ![c].status = s]

\* resolve(c): idempotent, refused before a broker order is bound.
ResolveAccepts(c) ==
  /\ intents[c].phase # "absent"
  /\ intents[c].broker # NoBroker

ResolveIntent(c) ==
  /\ ResolveAccepts(c)
  /\ intents' = [intents EXCEPT ![c].phase = "resolved"]

-----------------------------------------------------------------------------
(* Properties of any client of the store.                                  *)

\* The history of a record is one way: an intent's order fingerprint and
\* broker binding are written once, and nothing of it changes after
\* resolve (submission_intent_store.py record_broker_order and resolve).
HistoryIsWriteOnce ==
  [][\A c \in ClientIds :
       /\ intents[c].phase = "resolved" => intents'[c] = intents[c]
       /\ intents[c].phase # "absent" =>
            /\ intents'[c].phase # "absent"
            /\ intents'[c].fingerprint = intents[c].fingerprint
       /\ intents[c].broker # NoBroker => intents'[c].broker = intents[c].broker
    ]_intents
=============================================================================
