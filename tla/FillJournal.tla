----------------------------- MODULE FillJournal -----------------------------
(***************************************************************************)
(* The execution ledger of one process (execution_lifecycle.py), its       *)
(* positions and open orders (execution_state_store.py), and two ways an   *)
(* execution event reaches it: through the durable journal                 *)
(* (journaled_execution_adapter.py, execution_transaction_journal.py),     *)
(* which claims the event first, and through the processor                 *)
(* (execution_event_processor.py), which records it last and holds a lock. *)
(*                                                                         *)
(* The journal is a database and outlives the process; the ledger, the     *)
(* state store and the processor's events do not. Every order is a buy of  *)
(* one symbol. Events arrive late, again and in any order.                 *)
(***************************************************************************)
EXTENDS Integers, FiniteSets, FiniteSetsExt

CONSTANTS Tickets,        \* ids of ledger orders
          TicketSize,     \* quantity of each order
          FillEvents,     \* broker callbacks: [id, order, kind, quantity]
          Callers,        \* threads that hold an event
          NoEvent,
          MaxCalls        \* bound on events taken up

ASSUME JournalAssumption ==
  /\ TicketSize \in [Tickets -> Nat \ {0}] /\ MaxCalls \in Nat
  /\ \A e \in FillEvents : e.order \in Tickets /\ e.quantity \in Nat
  /\ NoEvent \notin FillEvents /\ IsFiniteSet(Tickets)

VARIABLES way,       \* which of the two this process uses: "journal" or "processor"
          ledger,    \* [status, filled] of each order
          stateStore,\* [open: orders, filled, position]
          journal,   \* ids of the events in the durable journal
          seen,      \* ids of the events the processor recorded
          caller,    \* the event each thread has claimed in the journal
          booked,    \* the events whose fill is in the ledger
          calls

journalVars == <<way, ledger, stateStore, journal, seen, caller, booked, calls>>

NoTicket == [status |-> "none", filled |-> 0]

NothingOpen == [open |-> {}, filled |-> [o \in Tickets |-> 0], position |-> 0]

JournalInit ==
  /\ way \in {"journal", "processor"}
  /\ ledger = [o \in Tickets |-> NoTicket]
  /\ stateStore = NothingOpen
  /\ journal = {} /\ seen = {} /\ booked = {}
  /\ caller = [c \in Callers |-> NoEvent]
  /\ calls = 0

-----------------------------------------------------------------------------
(* ExecutionLedger.                                                         *)

\* allowed of transition.
LedgerAllows(from) ==
  CASE from = "CREATED" -> {"RISK_APPROVED", "REJECTED"}
    [] from = "RISK_APPROVED" -> {"SUBMITTED", "CANCELLED"}
    [] from = "SUBMITTED" -> {"PARTIALLY_FILLED", "FILLED", "CANCELLED", "REJECTED"}
    [] from = "PARTIALLY_FILLED" -> {"PARTIALLY_FILLED", "FILLED", "CANCELLED"}
    [] from = "FILLED" -> {"CLOSED"}
    [] OTHER -> {}

\* The state store learns that an order is at the broker, or that it ended there; a
\* transition to FILLED or CLOSED tells it nothing.
LedgerTransition(o, status) ==
  /\ status \in LedgerAllows(ledger[o].status)
  /\ ledger' = [ledger EXCEPT ![o].status = status]
  /\ stateStore' =
       CASE status = "SUBMITTED" -> [stateStore EXCEPT !.open = @ \cup {o}, !.filled[o] = 0]
         [] status \in {"CANCELLED", "REJECTED"} -> [stateStore EXCEPT !.open = @ \ {o}]
         [] OTHER -> stateStore

Fillable(o, quantity) ==
  /\ ledger[o].status \in {"SUBMITTED", "PARTIALLY_FILLED"}
  /\ quantity > 0 /\ ledger[o].filled + quantity <= TicketSize[o]

\* fill: the order, the position, and the end of a filled order.
LedgerFill(o, quantity) ==
  LET filled == ledger[o].filled + quantity
      ends == filled = TicketSize[o] IN
  /\ Fillable(o, quantity)
  /\ ledger' = [ledger EXCEPT ![o] = [filled |-> filled,
                  status |-> IF ends THEN "FILLED" ELSE "PARTIALLY_FILLED"]]
  /\ stateStore' = [open |-> IF ends THEN stateStore.open \ {o} ELSE stateStore.open,
                    filled |-> [stateStore.filled EXCEPT ![o] = filled],
                    position |-> stateStore.position + quantity]

IsFill(e) == e.kind \in {"PARTIAL_FILL", "FILLED"}

\* An event's effect on the ledger, or the exception that leaves it alone.
AppliesTo(e) ==
  CASE IsFill(e) -> LedgerFill(e.order, e.quantity) /\ booked' = booked \cup {e}
    [] e.kind = "ACKNOWLEDGED" -> UNCHANGED <<ledger, stateStore, booked>>
    [] OTHER -> LedgerTransition(e.order, e.kind) /\ UNCHANGED booked

Raises(e) ==
  \/ ledger[e.order].status = "none"
  \/ IsFill(e) /\ ~Fillable(e.order, e.quantity)
  \/ /\ ~IsFill(e) /\ e.kind # "ACKNOWLEDGED"
     /\ e.kind \notin LedgerAllows(ledger[e.order].status)

LedgerCall(e) == IF Raises(e) THEN UNCHANGED <<ledger, stateStore, booked>> ELSE AppliesTo(e)

-----------------------------------------------------------------------------
(* The routes of api/execution_lifecycle.py.                                *)

CreateTicket(o) ==
  /\ ledger[o].status = "none"
  /\ ledger' = [ledger EXCEPT ![o].status = "CREATED"]
  /\ UNCHANGED <<way, stateStore, journal, seen, caller, booked, calls>>

\* risk-approve, submit and close.
RouteTransition(o, status) ==
  /\ status \in {"RISK_APPROVED", "SUBMITTED", "CLOSED"}
  /\ LedgerTransition(o, status)
  /\ UNCHANGED <<way, journal, seen, caller, booked, calls>>

-----------------------------------------------------------------------------
(* The two ways in.                                                         *)

TakesUp == calls < MaxCalls /\ calls' = calls + 1

\* Mutant of Claimed: the journal takes an event again.
NeverClaimed(e) == FALSE

Claimed(e) == e.id \in journal

\* JournaledExecutionAdapter: the event is committed to the journal, with its outbox
\* row, before the ledger is touched. A duplicate is answered from the ledger; a fill of
\* an unknown order raises before the journal is written.
Journals(c, e) ==
  /\ way = "journal" /\ caller[c] = NoEvent /\ e.kind # "ACKNOWLEDGED" /\ TakesUp
  /\ ~Claimed(e) /\ (IsFill(e) => ledger[e.order].status # "none")
  /\ journal' = journal \cup {e.id}
  /\ caller' = [caller EXCEPT ![c] = e]
  /\ UNCHANGED <<way, ledger, stateStore, seen, booked>>

\* Then the ledger, which may refuse it: the event stays claimed.
JournalApplies(c) ==
  /\ caller[c] # NoEvent
  /\ LedgerCall(caller[c])
  /\ caller' = [caller EXCEPT ![c] = NoEvent]
  /\ UNCHANGED <<way, journal, seen, calls>>

\* IdempotentExecutionEventProcessor, under its lock: an event that raises is not
\* recorded and may come again.
Processes(e) ==
  /\ way = "processor" /\ e.id \notin seen /\ ~Raises(e) /\ TakesUp
  /\ AppliesTo(e)
  /\ seen' = seen \cup {e.id}
  /\ UNCHANGED <<way, journal, caller>>

\* The process dies: the journal is left.
JournalProcessDies ==
  /\ TakesUp
  /\ ledger' = [o \in Tickets |-> NoTicket]
  /\ stateStore' = NothingOpen
  /\ seen' = {} /\ booked' = {}
  /\ caller' = [c \in Callers |-> NoEvent]
  /\ UNCHANGED <<way, journal>>

JournalNext ==
  \/ \E o \in Tickets : \/ CreateTicket(o)
                        \/ \E status \in LedgerAllows(ledger[o].status) : RouteTransition(o, status)
  \/ \E e \in FillEvents : Processes(e) \/ \E c \in Callers : Journals(c, e)
  \/ \E c \in Callers : JournalApplies(c)
  \/ JournalProcessDies

JournalSpec == JournalInit /\ [][JournalNext]_journalVars
-----------------------------------------------------------------------------
Quantities == [e \in FillEvents |-> e.quantity]

BookedFor(o) == {e \in booked : e.order = o}

JournalTypeOK ==
  /\ stateStore.open \subseteq Tickets /\ stateStore.position \in Int
  /\ \A o \in Tickets : ledger[o].filled \in 0..TicketSize[o]
  /\ \A c \in Callers : caller[c] \in FillEvents \cup {NoEvent}

\* An event that arrives again, from another thread, while its first call is between
\* the journal and the ledger, or after the process died, is booked once: an order's
\* fill is the sum of its booked events, each of them claimed; the position is the sum
\* of the orders' fills; and an order that is at the broker is open in the state store
\* with its fill (JournaledExecutionAdapter, IdempotentExecutionEventProcessor: apply
\* broker callbacks once).
FillsAreBookedOnce ==
  LET claimed == IF way = "journal" THEN journal ELSE seen IN
  /\ \A e \in booked : e.id \in claimed /\ \A f \in booked \ {e} : f.id # e.id
  /\ \A o \in Tickets :
       /\ ledger[o].filled = SumFunctionOnSet(Quantities, BookedFor(o))
       /\ ledger[o].status \in {"SUBMITTED", "PARTIALLY_FILLED"}
            => o \in stateStore.open /\ stateStore.filled[o] = ledger[o].filled
  /\ stateStore.position = SumFunctionOnSet([o \in Tickets |-> ledger[o].filled], Tickets)
=============================================================================
