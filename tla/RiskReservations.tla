-------------------------- MODULE RiskReservations --------------------------
(***************************************************************************)
(* RiskReservationStore: exposure reserved for orders, one record per      *)
(* client order id, for one (broker account, broker route) scope.          *)
(*                                                                         *)
(* Each operation is one database transaction that holds the advisory lock *)
(* of its scope (PostgreSQL, the deployed backend), so it is one step.     *)
(* Amounts are whole units of exposure.                                    *)
(***************************************************************************)
EXTENDS OrderIdentity, Naturals, FiniteSetsExt

CONSTANTS
  CurrentExposure,   \* exposure of the caller's portfolio snapshot
  MaxTotalExposure   \* the limit the caller passes with it

ASSUME ExposureAssumption ==
  CurrentExposure \in Nat /\ MaxTotalExposure \in Nat

VARIABLE reservations

Reservation == [status: {"none", "ACTIVE", "RELEASED"}, amount: Nat]

NoReservation == [status |-> "none", amount |-> 0]

ReservationsTypeOK == reservations \in [ClientIds -> Reservation]

ReservationsInit == reservations = [c \in ClientIds |-> NoReservation]

Active == {c \in ClientIds : reservations[c].status = "ACTIVE"}

ActiveAmount == SumFunction([c \in Active |-> reservations[c].amount])

\* The record of c is an active one that this request would replay.
Replays(c, amount) ==
  reservations[c].status = "ACTIVE" /\ reservations[c].amount = amount

\* Mutant: each request is held against the limit on its own.
ReserveFitsAlone(c, amount, exposure) ==
  /\ amount > 0
  /\ exposure + amount <= MaxTotalExposure
  /\ Replays(c, amount) \/ reservations[c].status = "none"

\* What reserve() accepts on top of the exposure its caller observed: a replay
\* returns the earlier reservation; a terminal id is never reused; a new one
\* must fit under the limit next to every active one.
ReserveFits(c, amount, exposure) ==
  /\ amount > 0
  /\ exposure + amount <= MaxTotalExposure
  /\ \/ Replays(c, amount)
     \/ /\ reservations[c].status = "none"
        /\ exposure + ActiveAmount + amount <= MaxTotalExposure

ReserveAccepts(c, amount) == ReserveFits(c, amount, CurrentExposure)

\* reserve() once accepted.
Activate(c, amount) ==
  reservations' = [reservations EXCEPT ![c] = [status |-> "ACTIVE", amount |-> amount]]

Reserve(c, amount) == ReserveAccepts(c, amount) /\ Activate(c, amount)

\* release(): only an active record changes; its amount is kept.
Release(c) ==
  /\ reservations[c].status # "none"
  /\ reservations' = [reservations EXCEPT ![c].status = "RELEASED"]

TerminalStatuses == {"FILLED", "CANCELLED", "REJECTED"}

\* Mutant: a stale partial fill may grow the reservation again.
ReconcileAcceptsGrowth(c, status, remaining) ==
  \/ reservations[c].status = "RELEASED"
  \/ /\ reservations[c].status = "ACTIVE"
     /\ status \in TerminalStatuses \cup {"PARTIALLY_FILLED"}
     /\ remaining \in Nat

\* reconcile(): what the broker's status and remaining exposure leave of a
\* record; a partial fill may shrink an active one but never grow it.
ReconcileAccepts(c, status, remaining) ==
  \/ reservations[c].status = "RELEASED"
  \/ reservations[c].status = "ACTIVE" /\ status \in TerminalStatuses
  \/ /\ reservations[c].status = "ACTIVE"
     /\ status = "PARTIALLY_FILLED"
     /\ remaining <= reservations[c].amount

\* Mutant: a partial fill releases the whole record.
ReconcileResultReleases(c, status, remaining) ==
  [reservations[c] EXCEPT !.status = "RELEASED"]

ReconcileResult(c, status, remaining) ==
  IF reservations[c].status = "RELEASED" \/ status \in TerminalStatuses \/ remaining = 0
  THEN [reservations[c] EXCEPT !.status = "RELEASED"]
  ELSE [reservations[c] EXCEPT !.amount = remaining]

Reconcile(c, status, remaining) ==
  /\ ReconcileAccepts(c, status, remaining)
  /\ reservations' = [reservations EXCEPT ![c] = ReconcileResult(c, status, remaining)]

-----------------------------------------------------------------------------
\* However many workers reserve, shrink and release in whatever order, what
\* is actively reserved on top of the snapshot stays within the limit
\* (risk_reservation_store.py reserve).
ActiveWithinLimit == Active # {} => CurrentExposure + ActiveAmount <= MaxTotalExposure

\* A released reservation is final, and an active one only shrinks: exposure
\* given back is never silently taken again under the same client order id.
ShrinksAtMost(c) ==
  /\ reservations[c].status = "RELEASED" => reservations'[c] = reservations[c]
  /\ reservations[c].status = "ACTIVE" =>
       /\ reservations'[c].status # "none"
       /\ reservations'[c].amount <= reservations[c].amount

ReservationsOnlyShrink == [][\A c \in ClientIds : ShrinksAtMost(c)]_reservations
=============================================================================
