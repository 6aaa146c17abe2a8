----------------------------- MODULE BrokerReports -----------------------------
(***************************************************************************)
(* What brokers say of one order, in their own words, and what the backend *)
(* makes of it: the adapters, the translators of statuses, the lifecycle   *)
(* of the live gateway, and the cancellation that reads the order again.   *)
(*                                                                         *)
(* The broker is one of dhan (dhan_adapter.py), upstox (upstox_adapter.py, *)
(* HTTP), sdk (the UpstoxAdapter of broker_adapter.py around a client) and *)
(* paper. An answer is made of the order as it is when the broker writes   *)
(* it, and arrives later, or never. "refused" stands for every exception a *)
(* translator raises.                                                      *)
(***************************************************************************)
EXTENDS Naturals, FiniteSets

CONSTANTS
  Brokers,        \* the brokers, of those above
  OrderQuantity,  \* the quantity of the order
  RouterReads,    \* whether the cancellation's router has get_order and takes an account,
                  \* which authoritative_cancel.py calls and BrokerRouter has not
  MaxLiveCalls    \* calls of the live gateway for the order

ASSUME ReportsAssumption ==
  /\ Brokers \subseteq {"dhan", "upstox", "sdk", "paper"}
  /\ OrderQuantity \in Nat \ {0}
  /\ RouterReads \in BOOLEAN
  /\ MaxLiveCalls \in Nat

VARIABLES
  broker,     \* the broker of the order
  venue,      \* the order at the broker: state, fills, whether a cancel was asked for
  call,       \* the live gateway's call: its step, and the answer on its way
  life,       \* the broker_order_lifecycle.OrderLifecycle of that call
  liveCalls,  \* calls made
  desk,       \* a DELETE of the order in api/orders.py: its step, and the read on its way
  row,        \* the order's row: status and filled quantity
  covered     \* the risk reservation of the order is held

reportVars == <<broker, venue, call, life, liveCalls, desk, row, covered>>

FinalStatuses == {"FILLED", "CANCELLED", "REJECTED"}
UpdateStatuses == FinalStatuses \cup {"NEW", "PARTIALLY_FILLED"}
VenueStates == {"none", "transit", "open", "filled", "cancelled", "rejected", "expired"}

-----------------------------------------------------------------------------
(* The brokers' words. *)

\* The words for the order as it is.
WordsNow ==
  LET partly == venue.filled > 0 IN
  IF venue.state = "none" THEN {} ELSE
  CASE broker = "paper" -> {"FILLED"}
    [] broker = "dhan" ->
         { CASE venue.state = "transit" -> "TRANSIT"
             [] venue.state = "open" -> IF partly THEN "PART_TRADED" ELSE "PENDING"
             [] venue.state = "filled" -> "TRADED"
             [] venue.state = "cancelled" -> "CANCELLED"
             [] venue.state = "rejected" -> "REJECTED"
             [] venue.state = "expired" -> "EXPIRED" }
    [] OTHER ->
         CASE venue.state = "transit" -> {"PUT ORDER REQ RECEIVED", "OPEN PENDING"}
           [] venue.state = "open" -> IF venue.asked THEN {"CANCEL PENDING"} ELSE {"OPEN"}
           [] venue.state = "filled" -> {"COMPLETE"}
           [] venue.state = "rejected" -> {"REJECTED"}
           [] OTHER -> {"CANCELLED"}

\* An answer of the broker: a word, the fills at that moment, and whether it has them.
NoAnswer == [word |-> "none", filled |-> 0, known |-> FALSE]

Answers(kind) ==
  { [word |-> w, filled |-> IF k THEN venue.filled ELSE 0, known |-> k] :
      w \in WordsNow,
      k \in IF kind = "placement" /\ broker = "dhan" THEN BOOLEAN ELSE {TRUE} }

-----------------------------------------------------------------------------
(* The translators. *)

ActiveWords ==
  {"PUT ORDER REQ RECEIVED", "OPEN PENDING", "OPEN", "CANCEL PENDING", "PENDING"}

Canonical(w, known, filled) ==
  CASE w \in {"COMPLETE", "EXECUTED", "FILLED"} -> "FILLED"
    [] w \in {"REJECTED", "FAILED"} -> "REJECTED"
    [] w \in {"CANCELLED", "CANCELED", "CANCEL", "CANCELLED AFTER MARKET ORDER"} -> "CANCELLED"
    [] w \in ActiveWords /\ ~(known /\ filled > 0) -> "NEW"
    [] w \in ActiveWords /\ known /\ filled \in 1..OrderQuantity - 1 -> "PARTIALLY_FILLED"
    [] OTHER -> "refused"

\* Whether the fills fit the status.
Consistent(status, known, filled) ==
  /\ status = "FILLED" => known /\ filled = OrderQuantity
  /\ status = "REJECTED" => filled = 0
  /\ status = "CANCELLED" => filled < OrderQuantity
  /\ status = "PARTIALLY_FILLED" => known /\ filled > 0

Normalized(w, known, filled) ==
  LET status == Canonical(w, known, filled) IN
  IF status # "refused" /\ Consistent(status, known, filled) THEN status ELSE "refused"

\* Dhan's words in the canonical ones; the normalisation does not know all of those.
PlacementStatus(w) ==
  CASE w \in {"TRANSIT", "PENDING"} -> "NEW"
    [] w = "PART_TRADED" -> "PARTIALLY_FILLED"
    [] w = "TRADED" -> "FILLED"
    [] w = "EXPIRED" -> "CANCELLED"
    [] OTHER -> w

\* What submit_order makes of the answer. The HTTP Upstox adapter does not look at it,
\* the sdk one reads the order, the paper one has filled it.
DhanSubmitted(a) == Normalized(PlacementStatus(a.word), a.known, a.filled)
UpstoxSubmitted(a) == Normalized("NEW", FALSE, 0)
SdkSubmitted(a) == Normalized(a.word, a.known, a.filled)
PaperSubmitted(a) == Normalized(a.word, a.known, a.filled)

Submitted(a) ==
  CASE broker = "dhan" -> DhanSubmitted(a)
    [] broker = "upstox" -> UpstoxSubmitted(a)
    [] broker = "sdk" -> SdkSubmitted(a)
    [] broker = "paper" -> PaperSubmitted(a)

\* What normalize_broker_update makes of a read: a Dhan row has orderId and no order_id.
DhanRead(a) == "refused"
UpstoxRead(a) == Normalized(a.word, a.known, a.filled)
SdkRead(a) == Normalized(a.word, a.known, a.filled)
PaperRead(a) == Normalized(a.word, a.known, a.filled)

Read(a) ==
  CASE broker = "dhan" -> DhanRead(a)
    [] broker = "upstox" -> UpstoxRead(a)
    [] broker = "sdk" -> SdkRead(a)
    [] broker = "paper" -> PaperRead(a)

\* What the router makes of cancel_order's answer: Upstox's is an acknowledgement, and
\* has the status CANCELLED; Dhan's has its word, without fills or quantity.
CancelAnswers ==
  CASE broker = "dhan" -> { Normalized(PlacementStatus(w), FALSE, 0) : w \in WordsNow }
    [] broker = "paper" -> {"FILLED"}
    [] OTHER -> {"CANCELLED"}

\* The other translators, of a snapshot, a postback, an event and two reconciliations.
SnapshotStatus(w) ==
  CASE w \in {"TRADED", "FILLED", "COMPLETE", "EXECUTED"} -> "FILLED"
    [] w \in {"CANCELLED", "CANCELED"} -> "CANCELLED"
    [] w \in {"REJECTED", "FAILED"} -> "REJECTED"
    [] w \in {"TRANSIT", "PENDING", "OPEN", "NEW"} -> "NEW"
    [] w = "PARTIALLY_FILLED" -> "PARTIALLY_FILLED"
    [] OTHER -> "refused"

PostbackStatus(w, filled) ==
  CASE w = "TRADED" -> "FILLED"
    [] w # "TRADED" /\ filled \in 1..OrderQuantity - 1 -> "PARTIALLY_FILLED"
    [] w \in {"REJECTED", "CANCELLED", "EXPIRED", "TRANSIT", "PENDING"}
         /\ filled \in {0, OrderQuantity} -> w
    [] OTHER -> "UNKNOWN"

EventStatus(w) ==
  CASE w \in {"FILL", "FILLED", "COMPLETE"} -> "FILLED"
    [] w \in {"CANCELLED", "CANCELED"} -> "CANCELLED"
    [] w = "REJECTED" -> "REJECTED"
    [] w \in {"OPEN", "ACK", "ACKNOWLEDGED"} -> "NEW"
    [] OTHER -> "refused"

ComparedStatus(w) ==
  CASE w \in {"TRADED", "COMPLETE", "COMPLETED", "FILLED"} -> "FILLED"
    [] w \in {"CANCELED", "CANCEL", "CANCELLED"} -> "CANCELLED"
    [] w \in {"FAILED", "ERROR", "REJECTED"} -> "REJECTED"
    [] w \in {"PART_TRADED", "PARTIALLY_TRADED", "PART_FILLED"} -> "PARTIALLY_FILLED"
    [] w \in {"NEW", "OPEN", "ACCEPTED", "PENDING", "PUT ORDER REQ RECEIVED"} -> "SUBMITTED"
    [] OTHER -> w

AliasStatus(w) ==
  CASE w \in {"FILLED", "COMPLETE", "COMPLETED"} -> "FILLED"
    [] w \in {"CANCELLED", "CANCELED"} -> "CANCELLED"
    [] w = "REJECTED" -> "REJECTED"
    [] w \in {"PARTIAL", "PARTIALLY_FILLED", "PARTIALLY FILLED"} -> "PARTIALLY_FILLED"
    [] w \in {"NEW", "PENDING", "SUBMITTED", "OPEN"} -> "OPEN"
    [] OTHER -> "refused"

Readings(w) ==
  {SnapshotStatus(w), PostbackStatus(w, venue.filled), EventStatus(w), ComparedStatus(w),
   AliasStatus(w)}

-----------------------------------------------------------------------------
(* The broker. *)

VenueOver == venue.state \in {"filled", "cancelled", "rejected", "expired"}

VenueBecomes(s) ==
  /\ venue' = [venue EXCEPT !.state = s]
  /\ UNCHANGED <<broker, call, life, liveCalls, desk, row, covered>>

VenueTakes == venue.state = "transit" /\ \E s \in {"open", "rejected"} : VenueBecomes(s)

VenueFills ==
  /\ venue.state = "open"
  /\ venue' = [venue EXCEPT !.filled = @ + 1,
                            !.state = IF venue.filled + 1 = OrderQuantity THEN "filled" ELSE @]
  /\ UNCHANGED <<broker, call, life, liveCalls, desk, row, covered>>

\* A cancellation that was asked for, or the broker's own, wins over the fills.
VenueEnds ==
  /\ venue.state = "open"
  /\ \E s \in {"cancelled"} \cup (IF broker = "dhan" THEN {"expired"} ELSE {}) : VenueBecomes(s)

-----------------------------------------------------------------------------
(* The live gateway. *)

NewLife == [status |-> "ACCEPTED", filled |-> 0]

\* The lifecycle's transitions; the gateway has taken SUBMITTED to ACCEPTED already.
LifeAllows(s, filled) ==
  /\ s \in CASE life.status = "ACCEPTED" -> UpdateStatuses \ {"NEW"}
             [] life.status = "PARTIALLY_FILLED" -> UpdateStatuses \ {"NEW"}
             [] OTHER -> {}
  /\ filled >= life.filled
  /\ filled <= OrderQuantity

\* _apply_broker_result: unknown fills are none.
Applies(s, filled) == s # "refused" /\ LifeAllows(s, filled)
AppliedTo(s, filled) == life' = [status |-> s, filled |-> filled]

At(step) == call' = [step |-> step, answer |-> NoAnswer]

\* The order leaves for the broker; the paper one fills it at once.
PlaceOrder ==
  /\ call.step = "none" /\ liveCalls < MaxLiveCalls
  /\ venue' = [venue EXCEPT !.state = IF broker = "paper" THEN "filled" ELSE "transit",
                            !.filled = IF broker = "paper" THEN OrderQuantity ELSE 0]
  /\ At("sent")
  /\ life' = NewLife
  /\ liveCalls' = liveCalls + 1
  /\ UNCHANGED <<broker, desk, row, covered>>

\* The adapter refuses the request before anything is sent: the gateway takes it for an
\* unknown outcome.
RefuseRequest ==
  /\ call.step = "none" /\ liveCalls < MaxLiveCalls
  /\ At("lookup")
  /\ life' = NewLife
  /\ liveCalls' = liveCalls + 1
  /\ UNCHANGED <<broker, venue, desk, row, covered>>

\* The broker writes the answer to the placement, or to the lookup of the order.
Answer ==
  /\ call.answer = NoAnswer
  /\ \/ call.step = "sent" /\ \E a \in Answers("placement") : call' = [call EXCEPT !.answer = a]
     \/ call.step = "lookup" /\ \E a \in Answers("read") : call' = [call EXCEPT !.answer = a]
  /\ UNCHANGED <<broker, venue, life, liveCalls, desk, row, covered>>

\* The answer of the placement arrives. One the gateway cannot apply, and a call that
\* timed out, is followed by a lookup by client order id.
PlacementReturns ==
  /\ call.step = "sent"
  /\ LET s == Submitted(call.answer) IN
     IF call.answer # NoAnswer /\ Applies(s, call.answer.filled)
     THEN At("done") /\ AppliedTo(s, call.answer.filled)
     ELSE At("lookup") /\ UNCHANGED life
  /\ UNCHANGED <<broker, venue, liveCalls, desk, row, covered>>

\* The answer of the lookup arrives, or it fails: the outcome is unknown.
LookupReturns ==
  /\ call.step = "lookup"
  /\ LET s == Read(call.answer) IN
     IF call.answer # NoAnswer /\ Applies(s, call.answer.filled)
     THEN At("done") /\ AppliedTo(s, call.answer.filled)
     ELSE At("unknown") /\ UNCHANGED life
  /\ UNCHANGED <<broker, venue, liveCalls, desk, row, covered>>

\* The next call finds the unresolved intent and only looks the order up.
CallAgain ==
  /\ call.step = "unknown" /\ liveCalls < MaxLiveCalls
  /\ At("lookup")
  /\ life' = NewLife
  /\ liveCalls' = liveCalls + 1
  /\ UNCHANGED <<broker, venue, desk, row, covered>>

-----------------------------------------------------------------------------
(* DELETE /api/orders/{client_order_id} *)

\* cancel_and_reconcile asks the router to cancel. An answer the router cannot
\* normalise ends the request, although the broker was asked.
AskCancel ==
  /\ RouterReads
  /\ desk.step = "idle" /\ venue.state # "none"
  /\ row.status \notin FinalStatuses
  /\ venue' = [venue EXCEPT !.asked = venue.state \in {"transit", "open"}]
  /\ \E s \in CancelAnswers :
       desk' = [desk EXCEPT !.step = IF s = "refused" THEN "idle" ELSE "asked"]
  /\ UNCHANGED <<broker, call, life, liveCalls, row, covered>>

\* Mutant: the answer to the cancel is taken for the order's state.
ReadBelievesAnswer ==
  /\ desk.step = "asked"
  /\ \E s \in CancelAnswers :
       desk' = [step |-> "read", answer |-> [word |-> s, filled |-> venue.filled, known |-> TRUE]]
  /\ UNCHANGED <<broker, venue, call, life, liveCalls, row, covered>>

\* get_order after the cancel; a failure ends the request.
ReadAfterCancel ==
  /\ desk.step = "asked"
  /\ \/ \E a \in Answers("read") : desk' = [step |-> "read", answer |-> a]
     \/ desk' = [desk EXCEPT !.step = "idle"]
  /\ UNCHANGED <<broker, venue, call, life, liveCalls, row, covered>>

\* The row with the broker's status and fills.
ProjectedRow(s) == [status |-> s, filled |-> desk.answer.filled]

\* A final status settles the reservation, then the row; either store may fail. Any
\* other status is an error and changes nothing.
FinishCancel ==
  /\ desk.step = "read"
  /\ desk' = [step |-> "idle", answer |-> NoAnswer]
  /\ LET s == Read(desk.answer) IN
     \/ /\ s \in FinalStatuses
        /\ covered' = FALSE
        /\ row' \in {row, ProjectedRow(s)}
     \/ UNCHANGED <<row, covered>>
  /\ UNCHANGED <<broker, venue, call, life, liveCalls>>

-----------------------------------------------------------------------------
ReportsInit ==
  /\ broker \in Brokers
  /\ venue = [state |-> "none", filled |-> 0, asked |-> FALSE]
  /\ call = [step |-> "none", answer |-> NoAnswer]
  /\ life = NewLife
  /\ liveCalls = 0
  /\ desk = [step |-> "idle", answer |-> NoAnswer]
  /\ row = [status |-> "SUBMITTED", filled |-> 0]
  /\ covered = TRUE

ReportsNext ==
  \/ VenueTakes \/ VenueFills \/ VenueEnds
  \/ PlaceOrder \/ RefuseRequest \/ Answer \/ PlacementReturns \/ LookupReturns \/ CallAgain
  \/ AskCancel \/ ReadAfterCancel \/ FinishCancel

ReportsSpec == ReportsInit /\ [][ReportsNext]_reportVars

ReportsTypeOK ==
  /\ broker \in Brokers
  /\ venue \in [state: VenueStates, filled: 0..OrderQuantity, asked: BOOLEAN]
  /\ call.step \in {"none", "sent", "lookup", "unknown", "done"}
  /\ life \in [status: UpdateStatuses \cup {"ACCEPTED"}, filled: 0..OrderQuantity]
  /\ liveCalls \in 0..MaxLiveCalls
  /\ desk.step \in {"idle", "asked", "read"}
  /\ row \in [status: UpdateStatuses \cup {"SUBMITTED"}, filled: 0..OrderQuantity]
  /\ covered \in BOOLEAN

\* The order ended at the broker the way a status says.
EndedAs(s) ==
  CASE s = "FILLED" -> venue.state = "filled"
    [] s = "REJECTED" -> venue.state = "rejected"
    [] s = "CANCELLED" -> venue.state \in {"cancelled", "expired"}
    [] s = "EXPIRED" -> venue.state = "expired"

\* Nothing in the backend calls an order finished that still works or ended otherwise,
\* however late the answers are and whoever wins between a cancel and a fill: neither
\* the gateway's lifecycle, the row, the released reservation, nor any translator of the
\* words the broker uses now. A finished row has all the fills
\* (AuthoritativeCancelReconciler.cancel_and_reconcile, normalize_broker_update).
FinalViewsAreTrue ==
  /\ life.status \in FinalStatuses => EndedAs(life.status)
  /\ life.filled <= venue.filled
  /\ row.status \in FinalStatuses => EndedAs(row.status) /\ row.filled = venue.filled
  /\ ~covered => VenueOver
  /\ \A w \in WordsNow : \A s \in Readings(w) \cap (FinalStatuses \cup {"EXPIRED"}) : EndedAs(s)
=============================================================================
