-------------------------- MODULE MCOrderExecution --------------------------
(* Instances of OrderExecution for TLC, and of seven components beside it   *)
(* that share no state with it or with one another: a behaviour runs one of *)
(* the parts, chosen at the start, and leaves the others as they are.       *)
EXTENDS OrderExecution, OrderSubmissions, StartupRecovery, ReconciliationChecks,
        IdentityRecovery, PreTrade, PaperDesk, HealthAlerts, TLC

CONSTANTS Parts, \* which of them a run is about
          w1, w2, p1, p2, c1, c2, a1, a2, k1, k2, t1, t2, x, y, other

\* OrderExecution: every worker is a process of its own, or all are threads of one.
OwnProcess == [w \in Workers |-> IF w = w1 THEN p1 ELSE p2]
OneProcess == [w \in Workers |-> p1]

\* The two orders do not fit under the limit of the instance together.
Quantities == [c \in ClientIds |-> IF c = c1 THEN 2 ELSE 1]

Once == [c \in ClientIds |-> 1]
Twice == [c \in ClientIds |-> 2]
Thrice == [c \in ClientIds |-> 3]

\* OrderSubmissions: both submissions are of one account; one approval is good, one of
\* a role that may not recover, one for another account.
OneAccount == [k \in {k1, k2} |-> a1]

SomeApprovals == { [role |-> "admin", scope |-> a1], [role |-> "viewer", scope |-> a1],
                   [role |-> "admin", scope |-> a2] }

\* StartupRecovery: own orders of both sides, and a buy of another client.
RecoverySides == [o \in {t1, t2, y} |-> IF o = t2 THEN -1 ELSE 1]

\* What StartupRecovery starts from while another part runs.
NothingLeftBehind ==
  /\ placedAt = [o \in AllOrders |-> [status |-> "ABSENT", filled |-> 0]]
  /\ kept = [o \in OwnOrders |-> [status |-> "CLOSED", filled |-> 0]]

\* ReconciliationChecks: an order of this process and an opposite one of another client.
OppositeSides == [o \in {x, y} |-> IF o = x THEN 1 ELSE -1]
OneShare == [o \in {x, y} |-> 1]

\* IdentityRecovery: two orders alike, each in its account; rows that bear the id of one,
\* in its account or another, for the same or not, of another client, or without an id.
AllBuy == [c \in {c1, c2} |-> "buy"]
InOwnAccount == [c \in {c1, c2} |-> IF c = c1 THEN a1 ELSE a2]

BrokerRow(c, terms, a, scoped, near) ==
  [client |-> c, terms |-> terms, book |-> a, scoped |-> scoped, near |-> near]

FoundRows ==
  { BrokerRow(c1, "buy", a1, TRUE, TRUE), BrokerRow(c1, "sell", a1, TRUE, TRUE),
    BrokerRow(c1, "buy", a2, FALSE, TRUE), BrokerRow(c2, "buy", a2, TRUE, FALSE),
    BrokerRow(c2, "buy", a1, TRUE, TRUE), BrokerRow(other, "buy", a1, TRUE, TRUE),
    BrokerRow(NoBrokerOrder, "buy", a1, FALSE, TRUE) }

\* PreTrade: setups of two symbols, one of them on both sides, of twice the reward for
\* the risk or more; the budget has room for the small one beside one of the others.
Setup(s, side, entry, stop, target) ==
  [symbol |-> s, side |-> side, entry |-> entry, stop |-> stop, target |-> target]

Setups ==
  { Setup(x, "SELL", 8, 10, 4), Setup(y, "BUY", 8, 7, 10), Setup(y, "SELL", 8, 10, 4) }

\* PaperDesk: a buy of two at risk of two, and a sell of one.
OnPaper(side, quantity, entry, stop, target) ==
  [side |-> side, quantity |-> quantity, entry |-> entry, stop |-> stop,
   target |-> target]

PaperTickets == {OnPaper(1, 2, 4, 3, 6), OnPaper(-1, 1, 4, 6, 2)}

\* HealthAlerts: whatever makes the health worse, and what makes it better again.
Reading(metric, amount) == [metric |-> metric, amount |-> amount]

SomeMeasured ==
  { Reading("submissions", 1), Reading("failures", 1), Reading("quarantined", 1),
    Reading("broker_latency", 6), Reading("recovery_latency", 6) }

VARIABLE running

partsVars == <<vars, submissionVars, recoveryVars, checkVars, searchVars, planVars,
               deskVars, healthVars, running>>

PartsInit ==
  /\ running \in Parts
  /\ Init /\ SubmissionsInit /\ ChecksInit /\ SearchInit /\ PlansInit /\ HealthInit
  /\ RecoveryInit /\ (running # "recovery" => NothingLeftBehind)
  /\ DeskInit /\ (running # "desk" => paperDesk = "lifecycle")

PartsNext ==
  \/ /\ running = "execution" /\ Next
     /\ UNCHANGED <<submissionVars, recoveryVars, checkVars, searchVars, planVars,
                    deskVars, healthVars, running>>
  \/ /\ running = "submissions" /\ SubmissionsNext
     /\ UNCHANGED <<vars, recoveryVars, checkVars, searchVars, planVars, deskVars,
                    healthVars, running>>
  \/ /\ running = "recovery" /\ RecoveryNext
     /\ UNCHANGED <<vars, submissionVars, checkVars, searchVars, planVars, deskVars,
                    healthVars, running>>
  \/ /\ running = "checks" /\ ChecksNext
     /\ UNCHANGED <<vars, submissionVars, recoveryVars, searchVars, planVars, deskVars,
                    healthVars, running>>
  \/ /\ running = "identities" /\ SearchNext
     /\ UNCHANGED <<vars, submissionVars, recoveryVars, checkVars, planVars, deskVars,
                    healthVars, running>>
  \/ /\ running = "plans" /\ PlansNext
     /\ UNCHANGED <<vars, submissionVars, recoveryVars, checkVars, searchVars, deskVars,
                    healthVars, running>>
  \/ /\ running = "desk" /\ DeskNext
     /\ UNCHANGED <<vars, submissionVars, recoveryVars, checkVars, searchVars, planVars,
                    healthVars, running>>
  \/ /\ running = "health" /\ HealthNext
     /\ UNCHANGED <<vars, submissionVars, recoveryVars, checkVars, searchVars, planVars,
                    deskVars, running>>

PartsSpec == PartsInit /\ [][PartsNext]_partsVars
=============================================================================
