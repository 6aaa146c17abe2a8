------------------------ MODULE OrderExecutionProofs ------------------------
(***************************************************************************)
(* Theorems about OrderExecution, for any number of processes, threads,     *)
(* orders, requests and restarts.  ExecInv is the inductive invariant all   *)
(* of them share: what a request holds at each of its steps, and that every *)
(* record it or the file holds is the truth about an order at the broker.   *)
(* It needs nothing of the constants but what OrderExecution assumes.       *)
(* Two more are proved on top of it, each for one way of running the        *)
(* program, which its theorem states as a hypothesis:                       *)
(*   FileInv      the execution-state file has one writer (OneWriter);      *)
(*   ExposureInv  reservations are durable, an id is requested once (for    *)
(*                which RowsInv says what its requests may still write) and *)
(*                no process restarts.                                      *)
(***************************************************************************)
EXTENDS OrderExecution, SumTheorems, TLAPS

USE ExposureAssumption, BookAssumption, ExecutionAssumption

\* The record tells of c no more than the broker did.
RecordOK(r, c) ==
  r.filled > 0 \/ r.status \in TerminalStatuses =>
    \E b \in Matches(c) :
      /\ r.filled <= orders[b].filled
      /\ r.status \in TerminalStatuses => orders[b].status = r.status

MemoryOK(mem) == \A c \in ClientIds : RecordOK(mem[c], c)

\* What a lookup found stays true of that order.
FoundOK(r) ==
  r.step \in {"save", "settle", "finalize"} =>
    /\ r.found \in BookStatuses
    /\ \E b \in Matches(r.client) :
         /\ r.foundFilled <= orders[b].filled
         /\ r.found \in TerminalStatuses => orders[b].status = r.found

\* From the claim to the broker call, and all steps after the claim.
SubmittingSteps == {"find", "intent", "submit", "send"}
ClaimedSteps == SubmittingSteps \cup
  {"refind", "sent", "ambiguous", "save", "settle", "finalize", "mark"}

Submitting(r) == r.step \in SubmittingSteps

WorkerOK(r) ==
  /\ r.step # "idle" => r.client \in ClientIds
  /\ MemoryOK(r.mem)
  /\ FoundOK(r)
  /\ r.step \in ClaimedSteps => claims[r.client] # "none"
  /\ Submitting(r) => OrdersOf(r.client) = {}

OrderOK(b) ==
  LET c == orders[b].client IN
  Sent(b) => /\ c \in ClientIds
             /\ orders[b].filled <= Quantity[c]
             /\ Live(b) => orders[b].filled < Quantity[c]
             /\ claims[c] # "none"

OneSubmitter ==
  \A v, w \in Workers :
    Submitting(wk[v]) /\ Submitting(wk[w]) /\ wk[v].client = wk[w].client => v = w

ExecInv ==
  /\ TypeOK
  /\ \A w \in Workers : WorkerOK(wk[w])
  /\ OneSubmitter
  /\ MemoryOK(file)
  /\ \A b \in BrokerIds : OrderOK(b)
  /\ \A c \in ClientIds : claims[c] = "COMPLETED" => OrdersOf(c) # {}
  /\ AtMostOneOrder

-----------------------------------------------------------------------------
(* A request moves on while the broker's book stays.                        *)

\* The stores' part of a step that leaves the book alone.
StoresKeep ==
  /\ rows' \in [ClientIds -> RowStatuses]
  /\ file' \in Files /\ MemoryOK(file')
  /\ claims' \in [ClientIds -> {"none", "CLAIMED", "COMPLETED"}]
  /\ \A c \in ClientIds : claims[c] # "none" => claims'[c] # "none"
  /\ \A c \in ClientIds : claims'[c] = "COMPLETED" => OrdersOf(c) # {}
  /\ ReservationsTypeOK'
  /\ orders' = orders
  /\ safety' \in SafetyStates
  /\ ready' \in [Processes -> BOOLEAN]
  /\ requests' \in [ClientIds -> Nat]
  /\ restarts' \in 0..MaxRestarts

\* What the new state of the request owes to the invariant.
RequestOK(w, r) ==
  /\ r.step # "idle" => r.client \in ClientIds
  /\ MemoryOK(r.mem)
  /\ FoundOK(r)
  /\ r.step \in ClaimedSteps => claims'[r.client] # "none"
  /\ Submitting(r) =>
       /\ OrdersOf(r.client) = {}
       /\ \A v \in Workers \ {w} : ~(Submitting(wk[v]) /\ wk[v].client = r.client)

LEMMA MemoryStable ==
  ASSUME orders' = orders, NEW mem, MemoryOK(mem) PROVE MemoryOK(mem)'
  BY DEF MemoryOK, RecordOK, Matches, Visible

LEMMA OrdersStable ==
  ASSUME orders' = orders
  PROVE  /\ \A c : Matches(c)' = Matches(c) /\ OrdersOf(c)' = OrdersOf(c)
         /\ AtMostOneOrder => AtMostOneOrder'
  BY DEF Matches, Visible, OrdersOf, Sent, AtMostOneOrder

LEMMA RequestStep ==
  ASSUME ExecInv, NEW w \in Workers, NEW r \in Worker, Becomes(w, r),
         StoresKeep, RequestOK(w, r)
  PROVE  ExecInv'
<1>1. wk' \in [Workers -> Worker] /\ \A v \in Workers : wk'[v] = IF v = w THEN r ELSE wk[v]
  BY DEF ExecInv, TypeOK, Becomes
<1>2. TypeOK'
  BY <1>1 DEF ExecInv, TypeOK, StoresKeep
<1>3. orders' = orders
  BY DEF StoresKeep
<1>4. ASSUME NEW v \in Workers PROVE WorkerOK(wk[v])'
  <2>1. CASE v = w
    <3>1. wk'[v] = r
      BY <1>1, <2>1
    <3>2. MemoryOK(r.mem)'
      BY <1>3, MemoryStable DEF RequestOK
    <3>3. FoundOK(r)'
      BY <1>3, OrdersStable DEF RequestOK, FoundOK
    <3>4. Submitting(r) => OrdersOf(r.client)' = {}
      BY <1>3, OrdersStable DEF RequestOK
    <3>5. WorkerOK(r)'
      BY <3>2, <3>3, <3>4 DEF RequestOK, WorkerOK
    <3>6. QED
      BY <3>1, <3>5 DEF WorkerOK, MemoryOK, RecordOK, FoundOK, Submitting
  <2>2. CASE v # w
    <3>1. wk'[v] = wk[v] /\ WorkerOK(wk[v])
      BY <1>1, <2>2 DEF ExecInv
    <3>2. MemoryOK(wk[v].mem)'
      BY <1>3, <3>1 DEF WorkerOK, MemoryOK, RecordOK, Matches, Visible
    <3>3. FoundOK(wk[v])'
      BY <1>3, <3>1, OrdersStable DEF WorkerOK, FoundOK
    <3>4. Submitting(wk[v])' => OrdersOf(wk[v].client)' = {}
      BY <1>3, <3>1 DEF WorkerOK, Submitting, OrdersOf, Sent
    <3>5. wk[v].step \in ClaimedSteps => wk[v].client \in ClientIds
      BY <3>1 DEF WorkerOK, ClaimedSteps, SubmittingSteps
    <3>6. QED
      BY <3>1, <3>2, <3>3, <3>4, <3>5 DEF WorkerOK, StoresKeep
  <2>3. QED
    BY <2>1, <2>2
<1>5. OneSubmitter'
  BY <1>1 DEF ExecInv, OneSubmitter, RequestOK, Submitting
<1>6. MemoryOK(file)'
  BY <1>3 DEF StoresKeep, MemoryOK, RecordOK, Matches, Visible
<1>7. ASSUME NEW b \in BrokerIds PROVE OrderOK(b)'
  BY <1>3 DEF ExecInv, OrderOK, StoresKeep, Sent, Live
<1>8. \A c \in ClientIds : (claims[c] = "COMPLETED")' => OrdersOf(c)' # {}
  BY <1>3, OrdersStable DEF StoresKeep
<1>9. QED
  BY <1>2, <1>3, <1>4, <1>5, <1>6, <1>7, <1>8, OrdersStable DEF ExecInv

-----------------------------------------------------------------------------
(* The parts most steps are made of.                                        *)

LEMMA WorkerFacts ==
  ASSUME ExecInv, NEW w \in Workers
  PROVE  wk[w] \in Worker /\ WorkerOK(wk[w])
  BY DEF ExecInv, TypeOK

\* The request takes another step with what it holds.
LEMMA MoveIsOK ==
  ASSUME ExecInv, NEW w \in Workers, NEW s \in Steps \ {"find", "save"},
         s \in {"settle", "finalize"} => wk[w].step \in {"save", "settle"},
         s \in ClaimedSteps => wk[w].step \in ClaimedSteps,
         s \in SubmittingSteps => wk[w].step \in SubmittingSteps,
         wk[w].step # "idle",
         \A c \in ClientIds : claims[c] # "none" => claims'[c] # "none"
  PROVE  /\ [wk[w] EXCEPT !.step = s] \in Worker
         /\ RequestOK(w, [wk[w] EXCEPT !.step = s])
<1> DEFINE r == [wk[w] EXCEPT !.step = s]
<1>1. wk[w] \in Worker /\ WorkerOK(wk[w])
  BY WorkerFacts
<1>2. /\ r \in Worker /\ r.step = s /\ r.client = wk[w].client /\ r.mem = wk[w].mem
      /\ r.found = wk[w].found /\ r.foundFilled = wk[w].foundFilled
  BY <1>1 DEF Worker
<1> HIDE DEF r
<1>3. FoundOK(r)
  BY <1>1, <1>2 DEF WorkerOK, FoundOK
<1>4. Submitting(r) =>
        \A v \in Workers \ {w} : ~(Submitting(wk[v]) /\ wk[v].client = r.client)
  BY <1>2 DEF ExecInv, OneSubmitter, Submitting
<1>5. RequestOK(w, r)
  BY <1>1, <1>2, <1>3, <1>4 DEF RequestOK, WorkerOK, Submitting
<1>6. QED
  BY <1>2, <1>5 DEF r

LEMMA ReplyIsOK ==
  ASSUME ExecInv, NEW w \in Workers, NEW s \in RowStatuses, wk[w].step # "idle", Reply(w, s)
  PROVE  \E r \in Worker : Becomes(w, r) /\ RequestOK(w, r)
<1> DEFINE r == [wk[w] EXCEPT !.step = "reply", !.result = s]
<1>1. wk[w] \in Worker /\ WorkerOK(wk[w])
  BY WorkerFacts
<1>2. r \in Worker /\ r.step = "reply" /\ r.client = wk[w].client /\ r.mem = wk[w].mem
  BY <1>1 DEF Worker, Steps
<1>3. Becomes(w, r)
  BY DEF Reply
<1> HIDE DEF r
<1>4. RequestOK(w, r)
  BY <1>1, <1>2 DEF RequestOK, WorkerOK, FoundOK, Submitting, ClaimedSteps, SubmittingSteps
<1>5. QED
  BY <1>2, <1>3, <1>4

LEMMA IdleIsOK == ASSUME NEW w PROVE IdleWorker \in Worker /\ RequestOK(w, IdleWorker)
  BY DEF IdleWorker, Worker, Steps, Files, Record, RecordStatuses, NoRecord, RowStatuses,
         RequestOK, MemoryOK, RecordOK, FoundOK, Submitting, ClaimedSteps, SubmittingSteps,
         TerminalStatuses

LEMMA AbortIsOK ==
  ASSUME NEW w \in Workers, Abort(w)
  PROVE  \E r \in Worker : Becomes(w, r) /\ RequestOK(w, r)
  BY IdleIsOK DEF Abort

LEMMA ReconcileType ==
  ASSUME ReservationsTypeOK, NEW c \in ClientIds, NEW n \in Nat, NEW s, Reconcile(c, s, n)
  PROVE  ReservationsTypeOK'
<1> DEFINE x == reservations'[c]
<1>1. reservations' = [reservations EXCEPT ![c] = x] /\ x \in Reservation
  BY DEF ReservationsTypeOK, Reservation, Reconcile, ReconcileResult
<1>2. QED
  BY <1>1 DEF ReservationsTypeOK

LEMMA ReleaseRiskType ==
  ASSUME ReservationsTypeOK, NEW c \in ClientIds, ReleaseRisk(c)
  PROVE  ReservationsTypeOK'
  BY ReconcileType DEF ReleaseRisk, ReservationsTypeOK

LEMMA GivesUpIsOK ==
  ASSUME ExecInv, NEW w \in Workers, NEW s \in RowStatuses, wk[w].step # "idle", GivesUp(w, s)
  PROVE  /\ \E r \in Worker : Becomes(w, r) /\ RequestOK(w, r)
         /\ ReservationsTypeOK'
<1>1. wk[w].client \in ClientIds /\ ReservationsTypeOK
  BY WorkerFacts DEF ExecInv, TypeOK, WorkerOK
<1>2. CASE ReleaseRisk(wk[w].client) /\ Reply(w, s)
  BY <1>1, <1>2, ReleaseRiskType, ReplyIsOK
<1>3. CASE Abort(w) /\ UNCHANGED reservations
  BY <1>1, <1>3, AbortIsOK DEF ReservationsTypeOK
<1>4. QED
  BY <1>2, <1>3 DEF GivesUp

\* The stores but for the reservations, the safety state, the file and the claims.
LEMMA StoresUnchanged ==
  ASSUME ExecInv, UNCHANGED <<rows, file, claims, orders, ready, bounds>>,
         ReservationsTypeOK', safety' \in SafetyStates
  PROVE  StoresKeep
  BY DEF ExecInv, TypeOK, StoresKeep, bounds

LEMMA AllUnchanged ==
  ASSUME ExecInv, UNCHANGED <<stores, bounds>> PROVE StoresKeep
<1>1. ReservationsTypeOK' /\ safety' \in SafetyStates
  BY DEF ExecInv, TypeOK, ReservationsTypeOK, stores
<1>2. QED
  BY <1>1, StoresUnchanged DEF stores

LEMMA LocalStep ==
  ASSUME ExecInv, NEW w \in Workers, UNCHANGED <<stores, bounds>>,
         \E r \in Worker : Becomes(w, r) /\ RequestOK(w, r)
  PROVE  ExecInv'
  BY AllUnchanged, RequestStep

LEMMA ReservingStep ==
  ASSUME ExecInv, NEW w \in Workers,
         UNCHANGED <<rows, file, claims, orders, safety, ready, bounds>>, ReservationsTypeOK',
         \E r \in Worker : Becomes(w, r) /\ RequestOK(w, r)
  PROVE  ExecInv'
<1>1. safety' \in SafetyStates
  BY DEF ExecInv, TypeOK
<1>2. QED
  BY <1>1, StoresUnchanged, RequestStep

\* A lookup that found an order of the request.
LEMMA FindsIsOK ==
  ASSUME ExecInv, NEW w \in Workers, NEW path \in {"fresh", "claimed", "ambiguous"},
         wk[w].step \in {"refind", "find", "ambiguous"}, Finds(w, path), claims' = claims
  PROVE  \E r \in Worker : Becomes(w, r) /\ RequestOK(w, r)
<1>1. PICK b \in Matches(wk[w].client) :
        Becomes(w, [wk[w] EXCEPT !.step = "save", !.path = path,
                                 !.found = orders[b].status, !.foundFilled = orders[b].filled])
  BY DEF Finds
<1> DEFINE r == [wk[w] EXCEPT !.step = "save", !.path = path,
                              !.found = orders[b].status, !.foundFilled = orders[b].filled]
<1>2. wk[w] \in Worker /\ WorkerOK(wk[w])
  BY WorkerFacts
<1>3. orders[b].status \in BookStatuses /\ orders[b].filled \in Nat
  BY DEF Matches, Visible, ExecInv, TypeOK, Order
<1>4. /\ r \in Worker /\ r.step = "save" /\ r.client = wk[w].client /\ r.mem = wk[w].mem
      /\ r.found = orders[b].status /\ r.foundFilled = orders[b].filled
  BY <1>2, <1>3 DEF Worker, Steps
<1>5. Becomes(w, r)
  BY <1>1
<1> HIDE DEF r
<1>6. FoundOK(r)
  BY <1>1, <1>3, <1>4 DEF FoundOK
<1>7. RequestOK(w, r)
  BY <1>2, <1>4, <1>6 DEF RequestOK, WorkerOK, Submitting, ClaimedSteps, SubmittingSteps
<1>8. QED
  BY <1>4, <1>5, <1>7

-----------------------------------------------------------------------------
(* One lemma per action.                                                    *)

LEMMA InitExecInv == Init => ExecInv
  BY DEF Init, BookInit, ReservationsInit, ExecInv, TypeOK, RowStatuses, RecordStatuses,
         Files, Record, NoRecord, ReservationsTypeOK, Reservation, NoReservation,
         Order, NoOrder, BookStatuses, SafetyStates, Worker, IdleWorker, Steps,
         WorkerOK, MemoryOK, RecordOK, FoundOK, Submitting, ClaimedSteps, SubmittingSteps,
         TerminalStatuses, OneSubmitter, OrderOK, Sent, AtMostOneOrder

LEMMA CreateOrderPreserves ==
  ASSUME ExecInv, NEW w \in Workers, NEW c \in ClientIds, CreateOrder(w, c)
  PROVE  ExecInv'
<1> DEFINE r == [IdleWorker EXCEPT !.step = "load", !.client = c]
<1>1. /\ r \in Worker /\ r.step = "load" /\ r.client = c
      /\ r.mem = IdleWorker.mem
  BY IdleIsOK DEF Worker, Steps
<1>2. Becomes(w, r)
  BY DEF CreateOrder
<1> HIDE DEF r
<1>3. RequestOK(w, r)
  BY <1>1, IdleIsOK DEF RequestOK, FoundOK, Submitting, ClaimedSteps, SubmittingSteps
<1>4. rows' \in [ClientIds -> RowStatuses] /\ requests' \in [ClientIds -> Nat]
  BY DEF CreateOrder, ExecInv, TypeOK, RowStatuses
<1>5. StoresKeep
  BY <1>4 DEF CreateOrder, ExecInv, TypeOK, StoresKeep, ReservationsTypeOK
<1>6. QED
  BY <1>1, <1>2, <1>3, <1>5, RequestStep

LEMMA LoadLifecyclePreserves ==
  ASSUME ExecInv, NEW w \in Workers, LoadLifecycle(w) PROVE ExecInv'
<1>1. UNCHANGED <<stores, bounds>> /\ wk[w].step = "load"
  BY DEF LoadLifecycle, MayExecute, At
<1> DEFINE r == [wk[w] EXCEPT !.step = "authorize", !.mem = file]
<1>2. CASE Becomes(w, r)
  <2>1. wk[w] \in Worker /\ WorkerOK(wk[w]) /\ file \in Files /\ MemoryOK(file)
    BY WorkerFacts DEF ExecInv, TypeOK
  <2>2. r \in Worker /\ r.step = "authorize" /\ r.client = wk[w].client /\ r.mem = file
    BY <2>1 DEF Worker, Steps
  <2> HIDE DEF r
  <2>3. RequestOK(w, r)
    BY <1>1, <2>1, <2>2
    DEF RequestOK, WorkerOK, FoundOK, Submitting, ClaimedSteps, SubmittingSteps
  <2>4. QED
    BY <1>1, <1>2, <2>2, <2>3, LocalStep
<1>3. CASE Reply(w, "REJECTED")
  BY <1>1, <1>3, ReplyIsOK, LocalStep DEF RowStatuses, RecordStatuses, TerminalStatuses
<1>4. QED
  BY <1>2, <1>3 DEF LoadLifecycle, MayExecute

LEMMA AuthorizePreserves ==
  ASSUME ExecInv, NEW w \in Workers, Authorize(w) PROVE ExecInv'
<1>1. UNCHANGED <<stores, bounds>> /\ wk[w].step = "authorize"
  BY DEF Authorize, At
<1>2. ASSUME NEW e \in 0..MaxTotalExposure,
             Becomes(w, [wk[w] EXCEPT !.step = "reserve", !.exposure = e])
      PROVE  ExecInv'
  <2> DEFINE r == [wk[w] EXCEPT !.step = "reserve", !.exposure = e]
  <2>1. wk[w] \in Worker /\ WorkerOK(wk[w]) /\ e \in Nat
    BY WorkerFacts
  <2>2. r \in Worker /\ r.step = "reserve" /\ r.client = wk[w].client /\ r.mem = wk[w].mem
    BY <2>1 DEF Worker, Steps
  <2>3. Becomes(w, r)
    BY <1>2
  <2> HIDE DEF r
  <2>4. RequestOK(w, r)
    BY <1>1, <2>1, <2>2
    DEF RequestOK, WorkerOK, FoundOK, Submitting, ClaimedSteps, SubmittingSteps
  <2>5. QED
    BY <1>1, <2>2, <2>3, <2>4, LocalStep
<1>3. CASE Reply(w, "REJECTED")
  BY <1>1, <1>3, ReplyIsOK, LocalStep DEF RowStatuses, RecordStatuses, TerminalStatuses
<1>4. QED
  BY <1>2, <1>3 DEF Authorize

LEMMA GoToIsOK ==
  ASSUME ExecInv, NEW w \in Workers, NEW s \in Steps \ {"find", "save"}, GoTo(w, s),
         s \in {"settle", "finalize"} => wk[w].step \in {"save", "settle"},
         s \in ClaimedSteps => wk[w].step \in ClaimedSteps,
         s \in SubmittingSteps => wk[w].step \in SubmittingSteps,
         wk[w].step # "idle", claims' = claims
  PROVE  \E r \in Worker : Becomes(w, r) /\ RequestOK(w, r)
  BY MoveIsOK DEF GoTo

LEMMA ReserveRiskPreserves ==
  ASSUME ExecInv, NEW w \in Workers, ReserveRisk(w) PROVE ExecInv'
<1>1. /\ UNCHANGED <<rows, file, claims, orders, safety, ready, bounds>>
      /\ wk[w].step = "reserve"
  BY DEF ReserveRisk, ReservesDurably, At
<1>2. wk[w].client \in ClientIds /\ Quantity[wk[w].client] \in Nat
  BY <1>1, WorkerFacts DEF WorkerOK
<1>3. ReservationsTypeOK'
  BY <1>2 DEF ReserveRisk, ReservesDurably, Activate, ExecInv, TypeOK, ReservationsTypeOK, Reservation
<1>4. CASE GoTo(w, "claim")
  BY <1>1, <1>3, <1>4, GoToIsOK, ReservingStep DEF Steps, ClaimedSteps, SubmittingSteps
<1>5. CASE Reply(w, "REJECTED")
  BY <1>1, <1>3, <1>5, ReplyIsOK, ReservingStep
  DEF RowStatuses, RecordStatuses, TerminalStatuses
<1>6. QED
  BY <1>4, <1>5 DEF ReserveRisk, ReservesDurably

\* The claim is taken once: whoever takes it finds no order and no other
\* request that submits this client order id.
LEMMA ClaimPreserves ==
  ASSUME ExecInv, NEW w \in Workers, Claim(w) PROVE ExecInv'
<1> DEFINE c == wk[w].client
<1>1. UNCHANGED <<rows, file, orders, safety, ready, bounds>> /\ wk[w].step = "claim"
  BY DEF Claim, At
<1>2. /\ wk[w] \in Worker /\ WorkerOK(wk[w]) /\ c \in ClientIds
      /\ ReservationsTypeOK /\ safety \in SafetyStates
  BY <1>1, WorkerFacts DEF WorkerOK, ExecInv, TypeOK
<1>3. ASSUME NEW s \in RowStatuses, GivesUp(w, s), UNCHANGED claims PROVE ExecInv'
  BY <1>1, <1>3, GivesUpIsOK, ReservingStep
<1>4. ASSUME claims[c] = "none", claims' = [claims EXCEPT ![c] = "CLAIMED"],
             GoTo(w, "find"), UNCHANGED reservations
      PROVE  ExecInv'
  <2> DEFINE r == [wk[w] EXCEPT !.step = "find"]
  <2>1. r \in Worker /\ r.step = "find" /\ r.client = c /\ r.mem = wk[w].mem
    BY <1>2 DEF Worker, Steps
  <2>2. Becomes(w, r)
    BY <1>4 DEF GoTo
  <2> HIDE DEF r
  <2>3. OrdersOf(c) = {}
    BY <1>4 DEF ExecInv, OrderOK, OrdersOf
  <2>4. ASSUME NEW v \in Workers, Submitting(wk[v]), wk[v].client = c PROVE FALSE
    BY <1>4, <2>4 DEF ExecInv, WorkerOK, Submitting, ClaimedSteps
  <2>5. claims'[c] = "CLAIMED"
    BY <1>2, <1>4 DEF ExecInv, TypeOK
  <2>6. RequestOK(w, r)
    BY <1>2, <2>1, <2>3, <2>4, <2>5 DEF RequestOK, WorkerOK, FoundOK
  <2>7. StoresKeep
    BY <1>1, <1>2, <1>4 DEF ExecInv, TypeOK, StoresKeep, ReservationsTypeOK, bounds
  <2>8. QED
    BY <2>1, <2>2, <2>6, <2>7, RequestStep
<1>5. ASSUME claims[c] # "none", UNCHANGED <<claims, reservations>>,
             Becomes(w, [wk[w] EXCEPT !.step = "refind", !.path = "claimed"])
      PROVE  ExecInv'
  <2> DEFINE r == [wk[w] EXCEPT !.step = "refind", !.path = "claimed"]
  <2>1. r \in Worker /\ r.step = "refind" /\ r.client = c /\ r.mem = wk[w].mem
    BY <1>2 DEF Worker, Steps
  <2>2. Becomes(w, r)
    BY <1>5
  <2> HIDE DEF r
  <2>3. RequestOK(w, r)
    BY <1>2, <1>5, <2>1 DEF RequestOK, WorkerOK, FoundOK, Submitting, SubmittingSteps
  <2>4. UNCHANGED <<stores, bounds>>
    BY <1>1, <1>5 DEF stores
  <2>5. QED
    BY <2>1, <2>2, <2>3, <2>4, LocalStep
<1>6. wk[w].mem[c].status \in RowStatuses /\ "SUBMITTED" \in RowStatuses
  BY <1>2 DEF Worker, Files, Record, RowStatuses, RecordStatuses
<1>7. QED
  BY <1>3, <1>4, <1>5, <1>6 DEF Claim

LEMMA FindClaimedPreserves ==
  ASSUME ExecInv, NEW w \in Workers, FindClaimed(w) PROVE ExecInv'
<1>1. /\ UNCHANGED <<rows, file, claims, orders, safety, ready, bounds>>
      /\ wk[w].step = "refind"
  BY DEF FindClaimed, At
<1>2. CASE Finds(w, "claimed") /\ UNCHANGED reservations
  BY <1>1, <1>2, FindsIsOK, LocalStep DEF stores
<1>3. CASE GivesUp(w, "SUBMITTED")
  BY <1>1, <1>3, GivesUpIsOK, ReservingStep DEF RowStatuses, RecordStatuses
<1>4. QED
  BY <1>2, <1>3 DEF FindClaimed

LEMMA FindFreshPreserves ==
  ASSUME ExecInv, NEW w \in Workers, FindFresh(w) PROVE ExecInv'
<1>1. UNCHANGED <<stores, bounds>> /\ wk[w].step = "find"
  BY DEF FindFresh, At
<1>2. CASE Finds(w, "fresh")
  BY <1>1, <1>2, FindsIsOK, LocalStep DEF stores
<1>3. CASE GoTo(w, "intent")
  BY <1>1, <1>3, GoToIsOK, LocalStep DEF stores, Steps, ClaimedSteps, SubmittingSteps
<1>4. QED
  BY <1>2, <1>3 DEF FindFresh

LEMMA FindAmbiguousPreserves ==
  ASSUME ExecInv, NEW w \in Workers, FindAmbiguous(w) PROVE ExecInv'
<1>1. UNCHANGED <<stores, bounds>> /\ wk[w].step = "ambiguous"
  BY DEF FindAmbiguous, At
<1>2. CASE Finds(w, "ambiguous")
  BY <1>1, <1>2, FindsIsOK, LocalStep DEF stores
<1>3. CASE GoTo(w, "mark")
  BY <1>1, <1>3, GoToIsOK, LocalStep DEF stores, Steps, ClaimedSteps, SubmittingSteps
<1>4. QED
  BY <1>2, <1>3 DEF FindAmbiguous

\* Writing one true record into a true copy of the file.
LEMMA WithRecordOK ==
  ASSUME ExecInv, NEW w \in Workers, wk[w].client \in ClientIds,
         NEW x \in Record, RecordOK(x, wk[w].client)
  PROVE  WithRecord(w, x) \in Files /\ MemoryOK(WithRecord(w, x))
<1>1. wk[w].mem \in Files /\ MemoryOK(wk[w].mem)
  BY WorkerFacts DEF WorkerOK, Worker
<1>2. WithRecord(w, x) \in Files
  BY <1>1 DEF WithRecord, Files
<1>3. ASSUME NEW d \in ClientIds PROVE RecordOK(WithRecord(w, x)[d], d)
  <2>1. WithRecord(w, x)[d] = IF d = wk[w].client THEN x ELSE wk[w].mem[d]
    BY <1>1 DEF WithRecord, Files
  <2>2. QED
    BY <1>1, <2>1 DEF MemoryOK
<1>4. QED
  BY <1>2, <1>3 DEF MemoryOK

\* The file is replaced by a copy with a true record.
LEMMA SaveRecordPreserves ==
  ASSUME ExecInv, NEW w \in Workers, NEW x \in Record, RecordOK(x, wk[w].client),
         NEW s \in {"submit", "settle"}, SaveRecord(w, x, s),
         s = "submit" => wk[w].step = "intent",
         s = "settle" => wk[w].step = "save",
         UNCHANGED <<rows, claims, reservations, orders, safety, ready, bounds>>
  PROVE  ExecInv'
<1>1. wk[w] \in Worker /\ WorkerOK(wk[w]) /\ wk[w].client \in ClientIds
  BY WorkerFacts DEF WorkerOK
<1>2. WithRecord(w, x) \in Files /\ MemoryOK(WithRecord(w, x))
  BY <1>1, WithRecordOK
<1> DEFINE r == [wk[w] EXCEPT !.step = s, !.mem = WithRecord(w, x)]
<1>3. /\ r \in Worker /\ r.step = s /\ r.client = wk[w].client /\ r.mem = WithRecord(w, x)
      /\ r.found = wk[w].found /\ r.foundFilled = wk[w].foundFilled
  BY <1>1, <1>2 DEF Worker, Steps
<1>4. Becomes(w, r)
  BY DEF SaveRecord
<1> HIDE DEF r
<1>5. FoundOK(r)
  BY <1>1, <1>3 DEF WorkerOK, FoundOK
<1>6. Submitting(r) =>
        \A v \in Workers \ {w} : ~(Submitting(wk[v]) /\ wk[v].client = r.client)
  BY <1>3 DEF ExecInv, OneSubmitter, Submitting, SubmittingSteps
<1>7. RequestOK(w, r)
  BY <1>1, <1>2, <1>3, <1>5, <1>6
  DEF RequestOK, WorkerOK, Submitting, ClaimedSteps, SubmittingSteps
<1>8. StoresKeep
  BY <1>2 DEF SaveRecord, ExecInv, TypeOK, StoresKeep, ReservationsTypeOK, bounds
<1>9. QED
  BY <1>3, <1>4, <1>7, <1>8, RequestStep

LEMMA SaveIntentPreserves ==
  ASSUME ExecInv, NEW w \in Workers, SaveIntent(w) PROVE ExecInv'
<1> DEFINE x == [status |-> "SUBMISSION_INTENT", filled |-> 0]
<1>1. x \in Record /\ RecordOK(x, wk[w].client)
  BY DEF Record, RecordStatuses, RecordOK, TerminalStatuses
<1>2. QED
  BY <1>1, SaveRecordPreserves DEF SaveIntent, At

LEMMA RouterChecksPreserves ==
  ASSUME ExecInv, NEW w \in Workers, RouterChecks(w) PROVE ExecInv'
<1>1. UNCHANGED <<rows, file, claims, reservations, orders, ready, bounds>> /\ wk[w].step = "submit"
  BY DEF RouterChecks, At
<1>2. safety' \in SafetyStates /\ ReservationsTypeOK'
  BY DEF RouterChecks, ExecInv, TypeOK, SafetyStates, ReservationsTypeOK
<1>3. StoresKeep
  BY <1>1, <1>2, StoresUnchanged
<1>4. CASE GoTo(w, "send")
  BY <1>1, <1>3, <1>4, GoToIsOK, RequestStep DEF Steps, ClaimedSteps, SubmittingSteps
<1>5. CASE GoTo(w, "ambiguous")
  BY <1>1, <1>3, <1>5, GoToIsOK, RequestStep DEF Steps, ClaimedSteps, SubmittingSteps
<1>6. QED
  BY <1>4, <1>5 DEF RouterChecks

LEMMA SubmitRaisesPreserves ==
  ASSUME ExecInv, NEW w \in Workers, SubmitRaises(w) PROVE ExecInv'
<1>1. /\ UNCHANGED <<rows, file, claims, reservations, orders, ready, bounds>>
      /\ wk[w].step = "sent" /\ GoTo(w, "ambiguous")
  BY DEF SubmitRaises, At
<1>2. safety' \in SafetyStates /\ ReservationsTypeOK'
  BY DEF SubmitRaises, ExecInv, TypeOK, SafetyStates, ReservationsTypeOK
<1>3. StoresKeep
  BY <1>1, <1>2, StoresUnchanged
<1>4. QED
  BY <1>1, <1>3, GoToIsOK, RequestStep DEF Steps, ClaimedSteps, SubmittingSteps

\* What _save_recovered writes is what the lookup found.
LEMMA RecoveredIsOK ==
  ASSUME ExecInv, NEW w \in Workers, wk[w].step \in {"save", "settle", "finalize"}
  PROVE  /\ RecoveredRecord(w) \in Record
         /\ RecordOK(RecoveredRecord(w), wk[w].client)
         /\ RecoveredRecord(w).status \in RowStatuses
         /\ OrdersOf(wk[w].client) # {}
<1>1. /\ wk[w].found \in BookStatuses /\ wk[w].foundFilled \in Nat
      /\ \E b \in Matches(wk[w].client) :
           /\ wk[w].foundFilled <= orders[b].filled
           /\ wk[w].found \in TerminalStatuses => orders[b].status = wk[w].found
  BY WorkerFacts DEF WorkerOK, FoundOK, Worker
<1>2. RecoveredRecord(w).status = MapBrokerStatus(wk[w].found)
  BY DEF RecoveredRecord
<1>3. RecoveredRecord(w).filled \in {wk[w].foundFilled, 0}
  BY DEF RecoveredRecord
<1>4. RecoveredRecord(w) \in Record /\ RecoveredRecord(w).status \in RowStatuses
  BY <1>1 DEF RecoveredRecord, MapBrokerStatus, BookStatuses, Record, RowStatuses,
     RecordStatuses, TerminalStatuses
<1>5. PICK b \in Matches(wk[w].client) :
           /\ wk[w].foundFilled <= orders[b].filled
           /\ wk[w].found \in TerminalStatuses => orders[b].status = wk[w].found
  BY <1>1
<1>6. orders[b].filled \in Nat
  BY DEF ExecInv, TypeOK, Order, Matches
<1>7. RecoveredRecord(w).filled <= orders[b].filled
  BY <1>1, <1>3, <1>5, <1>6
<1>8. RecoveredRecord(w).status \in TerminalStatuses => orders[b].status = RecoveredRecord(w).status
  BY <1>2, <1>5 DEF MapBrokerStatus, TerminalStatuses
<1>9. OrdersOf(wk[w].client) # {}
  BY <1>5 DEF Matches, OrdersOf, Visible, Sent, BookStatuses
<1>10. QED
  BY <1>4, <1>7, <1>8, <1>9 DEF RecordOK

LEMMA SaveRecoveredPreserves ==
  ASSUME ExecInv, NEW w \in Workers, SaveRecovered(w) PROVE ExecInv'
<1>1. UNCHANGED <<rows, claims, orders, safety, ready, bounds>> /\ wk[w].step = "save"
  BY DEF SaveRecovered, At
<1>2. CASE SaveRecord(w, RecoveredRecord(w), "settle") /\ UNCHANGED reservations
  BY <1>1, <1>2, RecoveredIsOK, SaveRecordPreserves
<1>3. CASE GoTo(w, "mark") /\ UNCHANGED <<reservations, file>>
  BY <1>1, <1>3, GoToIsOK, LocalStep DEF stores, Steps, ClaimedSteps, SubmittingSteps
<1>4. CASE GivesUp(w, "SUBMITTED") /\ UNCHANGED file
  BY <1>1, <1>4, GivesUpIsOK, ReservingStep DEF RowStatuses, RecordStatuses
<1>5. QED
  BY <1>2, <1>3, <1>4 DEF SaveRecovered, RecoveryFails

LEMMA SettleRiskPreserves ==
  ASSUME ExecInv, NEW w \in Workers, SettleRisk(w) PROVE ExecInv'
<1> DEFINE c == wk[w].client
<1>1. /\ UNCHANGED <<rows, file, claims, orders, safety, ready, bounds>>
      /\ wk[w].step = "settle" /\ GoTo(w, "finalize")
  BY DEF SettleRisk, At
<1>2. c \in ClientIds /\ ReservationsTypeOK
  BY <1>1, WorkerFacts DEF WorkerOK, ExecInv, TypeOK
<1>3. Quantity[c] - wk[w].foundFilled \in Nat
  <2>1. PICK b \in Matches(c) : wk[w].foundFilled <= orders[b].filled
    BY <1>1, WorkerFacts DEF WorkerOK, FoundOK
  <2>2. /\ orders[b].filled \in Nat /\ orders[b].filled <= Quantity[c]
        /\ wk[w].foundFilled \in Nat /\ Quantity[c] \in Nat
    BY <1>2, WorkerFacts
    DEF ExecInv, TypeOK, Order, OrderOK, Matches, Visible, Sent, BookStatuses, Worker
  <2>3. QED
    BY <2>1, <2>2
<1>4. ReservationsTypeOK'
  BY <1>2, <1>3, ReleaseRiskType, ReconcileType DEF SettleRisk, UpdateAfterFill, ReservationsTypeOK
<1>5. QED
  BY <1>1, <1>4, GoToIsOK, ReservingStep DEF Steps, ClaimedSteps, SubmittingSteps

LEMMA FinalizePreserves ==
  ASSUME ExecInv, NEW w \in Workers, Finalize(w) PROVE ExecInv'
<1> DEFINE c == wk[w].client
<1>1. /\ UNCHANGED <<rows, file, reservations, orders, safety, ready, bounds>>
      /\ wk[w].step = "finalize" /\ Reply(w, RecoveredRecord(w).status)
  BY DEF Finalize, At
<1>2. c \in ClientIds /\ OrdersOf(c) # {} /\ RecoveredRecord(w).status \in RowStatuses
  BY <1>1, WorkerFacts, RecoveredIsOK DEF WorkerOK
<1>3. claims' = [claims EXCEPT ![c] = "COMPLETED"] \/ claims' = claims
  BY DEF Finalize
<1>4. StoresKeep
  BY <1>1, <1>2, <1>3 DEF ExecInv, TypeOK, StoresKeep, ReservationsTypeOK, bounds
<1>5. QED
  BY <1>1, <1>2, <1>4, ReplyIsOK, RequestStep

LEMMA MarkSubmittedPreserves ==
  ASSUME ExecInv, NEW w \in Workers, MarkSubmitted(w) PROVE ExecInv'
<1> DEFINE x == [status |-> "SUBMITTED", filled |-> 0]
<1>1. /\ UNCHANGED <<rows, claims, reservations, orders, safety, ready, bounds>>
      /\ wk[w].step = "mark" /\ file' = WithRecord(w, x) /\ Reply(w, "SUBMITTED")
  BY DEF MarkSubmitted, At
<1>2. x \in Record /\ RecordOK(x, wk[w].client) /\ wk[w].client \in ClientIds
  BY <1>1, WorkerFacts DEF Record, RecordStatuses, RecordOK, TerminalStatuses, WorkerOK
<1>3. WithRecord(w, x) \in Files /\ MemoryOK(WithRecord(w, x))
  BY <1>2, WithRecordOK
<1>4. StoresKeep
  BY <1>1, <1>3 DEF ExecInv, TypeOK, StoresKeep, ReservationsTypeOK, bounds
<1>5. QED
  BY <1>1, <1>4, ReplyIsOK, RequestStep DEF RowStatuses, RecordStatuses

LEMMA ProjectPreserves ==
  ASSUME ExecInv, NEW w \in Workers, Project(w) PROVE ExecInv'
<1>1. /\ UNCHANGED <<file, claims, reservations, orders, safety, ready, bounds>>
      /\ wk[w].step = "reply" /\ Becomes(w, IdleWorker)
  BY DEF Project, At
<1>2. wk[w].client \in ClientIds /\ wk[w].result \in RowStatuses
  BY <1>1, WorkerFacts DEF WorkerOK, Worker
<1>3. rows' \in [ClientIds -> RowStatuses]
  BY <1>2 DEF Project, ExecInv, TypeOK
<1>4. StoresKeep
  BY <1>1, <1>3 DEF ExecInv, TypeOK, StoresKeep, ReservationsTypeOK, bounds
<1>5. QED
  BY <1>1, <1>4, IdleIsOK, RequestStep

LEMMA StoreFailsPreserves ==
  ASSUME ExecInv, NEW w \in Workers, StoreFails(w) PROVE ExecInv'
<1>1. UNCHANGED <<rows, file, claims, orders, safety, ready, bounds>> /\ wk[w].step # "idle"
  BY DEF StoreFails
<1>2. CASE Abort(w) /\ UNCHANGED reservations
  BY <1>1, <1>2, AbortIsOK, LocalStep DEF stores
<1>3. CASE GivesUp(w, "SUBMITTED")
  BY <1>1, <1>3, GivesUpIsOK, ReservingStep DEF RowStatuses, RecordStatuses
<1>4. QED
  BY <1>2, <1>3 DEF StoreFails

-----------------------------------------------------------------------------
(* Steps that change the book.                                              *)

\* Orders that can be seen stay, only fill up, and keep their end.
BookGrows ==
  /\ orders' \in [BrokerIds -> Order]
  /\ \A b \in BrokerIds : Visible(b) =>
       /\ Visible(b)'
       /\ orders'[b].client = orders[b].client
       /\ orders[b].filled <= orders'[b].filled
       /\ orders[b].status \in TerminalStatuses => orders'[b].status = orders[b].status

LEMMA RecordsSurvive ==
  ASSUME orders \in [BrokerIds -> Order], BookGrows, NEW c \in ClientIds,
         NEW b \in Matches(c), NEW n \in Nat, n <= orders[b].filled
  PROVE  /\ b \in Matches(c)'
         /\ n <= orders'[b].filled
         /\ orders[b].status \in TerminalStatuses => orders'[b].status = orders[b].status
<1>1. b \in BrokerIds /\ Visible(b) /\ orders[b].client = c
  BY DEF Matches
<1>2. b \in Matches(c)'
  BY <1>1 DEF Matches, BookGrows
<1>3. orders[b].filled \in Nat /\ orders'[b].filled \in Nat
  BY <1>1 DEF BookGrows, Order
<1>4. orders[b].filled <= orders'[b].filled
  BY <1>1 DEF BookGrows
<1>5. n <= orders'[b].filled
  BY <1>3, <1>4
<1>6. orders[b].status \in TerminalStatuses => orders'[b].status = orders[b].status
  BY <1>1 DEF BookGrows
<1>7. QED
  BY <1>2, <1>5, <1>6

LEMMA MemorySurvives ==
  ASSUME orders \in [BrokerIds -> Order], BookGrows, NEW mem \in Files, MemoryOK(mem)
  PROVE  \A c \in ClientIds :
           mem[c].filled > 0 \/ mem[c].status \in TerminalStatuses =>
             \E b \in Matches(c)' :
               /\ mem[c].filled <= orders'[b].filled
               /\ mem[c].status \in TerminalStatuses => orders'[b].status = mem[c].status
<1> SUFFICES ASSUME NEW c \in ClientIds,
                    mem[c].filled > 0 \/ mem[c].status \in TerminalStatuses
             PROVE  \E b \in Matches(c)' :
                      /\ mem[c].filled <= orders'[b].filled
                      /\ mem[c].status \in TerminalStatuses =>
                           orders'[b].status = mem[c].status
  OBVIOUS
<1>1. mem[c].filled \in Nat
  BY DEF Files, Record
<1>2. RecordOK(mem[c], c)
  BY DEF MemoryOK
<1>3. PICK b \in Matches(c) :
        /\ mem[c].filled <= orders[b].filled
        /\ mem[c].status \in TerminalStatuses => orders[b].status = mem[c].status
  BY <1>2 DEF RecordOK
<1>4. /\ b \in Matches(c)'
      /\ mem[c].filled <= orders'[b].filled
      /\ orders[b].status \in TerminalStatuses => orders'[b].status = orders[b].status
  BY <1>1, <1>3, RecordsSurvive
<1>5. mem[c].status \in TerminalStatuses => orders'[b].status = mem[c].status
  BY <1>3, <1>4
<1>6. QED
  BY <1>4, <1>5

LEMMA FoundSurvives ==
  ASSUME orders \in [BrokerIds -> Order], BookGrows,
         NEW r, r.client \in ClientIds, r.foundFilled \in Nat, FoundOK(r),
         r.step \in {"save", "settle", "finalize"}
  PROVE  /\ r.found \in BookStatuses
         /\ \E b \in Matches(r.client)' :
              /\ r.foundFilled <= orders'[b].filled
              /\ r.found \in TerminalStatuses => orders'[b].status = r.found
<1>1. PICK b \in Matches(r.client) :
        /\ r.foundFilled <= orders[b].filled
        /\ r.found \in TerminalStatuses => orders[b].status = r.found
  BY DEF FoundOK
<1>2. /\ b \in Matches(r.client)'
      /\ r.foundFilled <= orders'[b].filled
      /\ orders[b].status \in TerminalStatuses => orders'[b].status = orders[b].status
  BY <1>1, RecordsSurvive
<1>3. r.found \in TerminalStatuses => orders'[b].status = r.found
  BY <1>1, <1>2
<1>4. r.found \in BookStatuses
  BY DEF FoundOK
<1>5. QED
  BY <1>2, <1>3, <1>4

\* What the requests and the file hold stays true.
LEMMA BookStepKeeps ==
  ASSUME ExecInv, BookGrows, file' = file
  PROVE  /\ MemoryOK(file)'
         /\ \A v \in Workers : wk'[v] = wk[v] => MemoryOK(wk[v].mem)' /\ FoundOK(wk[v])'
<1>1. orders \in [BrokerIds -> Order] /\ file \in Files /\ MemoryOK(file)
  BY DEF ExecInv, TypeOK
<1>2. MemoryOK(file)'
  BY <1>1, MemorySurvives DEF MemoryOK, RecordOK
<1>3. ASSUME NEW v \in Workers, wk'[v] = wk[v] PROVE MemoryOK(wk[v].mem)' /\ FoundOK(wk[v])'
  <2>1. wk[v] \in Worker /\ WorkerOK(wk[v])
    BY WorkerFacts
  <2>2. wk[v].mem \in Files /\ MemoryOK(wk[v].mem) /\ wk[v].foundFilled \in Nat
    BY <2>1 DEF Worker, WorkerOK
  <2>3. MemoryOK(wk[v].mem)'
    BY <1>1, <1>3, <2>2, MemorySurvives DEF MemoryOK, RecordOK
  <2>4. FoundOK(wk[v])'
    <3>1. PICK r : r = wk[v]
      OBVIOUS
    <3>2. /\ r.step \in {"save", "settle", "finalize"} => r.client \in ClientIds
          /\ FoundOK(r) /\ r.foundFilled \in Nat
      BY <2>1, <2>2, <3>1 DEF WorkerOK
    <3>3. r.step \in {"save", "settle", "finalize"} =>
            /\ r.found \in BookStatuses
            /\ \E b \in Matches(r.client)' :
                 /\ r.foundFilled <= orders'[b].filled
                 /\ r.found \in TerminalStatuses => orders'[b].status = r.found
      BY <1>1, <3>2, FoundSurvives
    <3>4. FoundOK(r)'
      BY <3>3 DEF FoundOK
    <3>5. r = wk'[v]
      BY <1>3, <3>1
    <3>6. QED
      BY <3>4, <3>5 DEF FoundOK
  <2>5. QED
    BY <2>3, <2>4
<1>4. QED
  BY <1>2, <1>3

\* The one send of a claim: no order of the client id exists, and no other
\* request is about to send one.
LEMMA SendOrderPreserves ==
  ASSUME ExecInv, NEW w \in Workers, SendOrder(w) PROVE ExecInv'
<1> DEFINE c == wk[w].client
<1>1. /\ UNCHANGED <<rows, file, claims, reservations, safety, ready, bounds>>
      /\ wk[w].step = "send" /\ GoTo(w, "sent")
  BY DEF SendOrder, At
<1>2. CASE UNCHANGED orders
  BY <1>1, <1>2, GoToIsOK, LocalStep DEF stores, Steps, ClaimedSteps, SubmittingSteps
<1>3. CASE \E b \in BrokerIds : Send(b, c)
  <2>1. PICK b \in BrokerIds : Send(b, c)
    BY <1>3
  <2>2. /\ wk[w] \in Worker /\ WorkerOK(wk[w]) /\ c \in ClientIds
        /\ OrdersOf(c) = {} /\ claims[c] # "none"
    BY <1>1, WorkerFacts DEF WorkerOK, Submitting, SubmittingSteps, ClaimedSteps
  <2> DEFINE o == [client |-> c, status |-> "inflight", filled |-> 0]
             r == [wk[w] EXCEPT !.step = "sent"]
  <2>3. o \in Order /\ o.client = c /\ o.status = "inflight" /\ o.filled = 0
    BY <2>2 DEF Order
  <2>4. orders' = [orders EXCEPT ![b] = o] /\ ~Sent(b)
    BY <2>1 DEF Send
  <2> HIDE DEF o
  <2>5. \A d \in BrokerIds : orders'[d] = IF d = b THEN o ELSE orders[d]
    BY <2>4 DEF ExecInv, TypeOK
  <2>6. r \in Worker /\ RequestOK(w, r)
    BY <1>1, MoveIsOK DEF Steps, ClaimedSteps, SubmittingSteps
  <2>7. wk' = [wk EXCEPT ![w] = r] /\ r.step = "sent" /\ r.client = c /\ r.mem = wk[w].mem
    BY <1>1, <2>2 DEF GoTo, Becomes, Worker
  <2> HIDE DEF r
  <2>8. \A v \in Workers : wk'[v] = IF v = w THEN r ELSE wk[v]
    BY <2>7 DEF ExecInv, TypeOK
  <2>9. BookGrows
    <3>1. orders' \in [BrokerIds -> Order]
      BY <2>3, <2>4 DEF ExecInv, TypeOK
    <3>2. \A d \in BrokerIds : Visible(d) => orders'[d] = orders[d] /\ orders[d].filled \in Nat
      BY <2>4, <2>5 DEF Visible, Sent, BookStatuses, ExecInv, TypeOK, Order
    <3>3. QED
      BY <3>1, <3>2 DEF BookGrows, Visible
  <2>10. TypeOK'
    BY <1>1, <2>6, <2>7, <2>9 DEF ExecInv, TypeOK, ReservationsTypeOK, BookGrows, bounds
  <2>11. \A d \in BrokerIds : Sent(d)' => d = b \/ (Sent(d) /\ orders'[d] = orders[d])
    BY <2>5 DEF Sent
  <2>12. ASSUME NEW v \in Workers PROVE WorkerOK(wk[v])'
    <3>1. CASE v = w
      <4>1. wk'[v] = r
        BY <2>8, <3>1
      <4>2. \A d \in ClientIds : RecordOK(wk[w].mem[d], d)'
        <5>1. wk[w].mem \in Files /\ MemoryOK(wk[w].mem) /\ orders \in [BrokerIds -> Order]
          BY <2>2 DEF Worker, WorkerOK, ExecInv, TypeOK
        <5>2. \A d \in ClientIds :
                wk'[v].mem[d].filled > 0 \/ wk'[v].mem[d].status \in TerminalStatuses =>
                  \E x \in Matches(d)' :
                    /\ wk'[v].mem[d].filled <= orders'[x].filled
                    /\ wk'[v].mem[d].status \in TerminalStatuses
                         => orders'[x].status = wk'[v].mem[d].status
          BY <2>7, <2>9, <4>1, <5>1, MemorySurvives
        <5>3. QED
          BY <3>1, <5>2 DEF RecordOK
      <4>3. MemoryOK(wk[v].mem)'
        BY <3>1, <4>2 DEF MemoryOK
      <4>4. QED
        BY <1>1, <2>2, <2>7, <4>1, <4>3
        DEF WorkerOK, FoundOK, Submitting, SubmittingSteps, ClaimedSteps
    <3>2. CASE v # w
      <4>1. wk'[v] = wk[v] /\ WorkerOK(wk[v])
        BY <2>8, <3>2, WorkerFacts
      <4>2. MemoryOK(wk[v].mem)' /\ FoundOK(wk[v])'
        BY <1>1, <2>9, <4>1, BookStepKeeps
      <4>3. Submitting(wk[v]) => wk[v].client # c
        BY <1>1, <3>2 DEF ExecInv, OneSubmitter, Submitting, SubmittingSteps
      <4>4. Submitting(wk[v]) => OrdersOf(wk[v].client)' = {}
        BY <2>3, <2>5, <2>11, <4>1, <4>3 DEF WorkerOK, OrdersOf, Sent
      <4>5. QED
        BY <1>1, <4>1, <4>2, <4>4 DEF WorkerOK, Submitting
    <3>3. QED
      BY <3>1, <3>2
  <2>13. OneSubmitter'
    BY <2>7, <2>8 DEF ExecInv, OneSubmitter, Submitting, SubmittingSteps
  <2>14. MemoryOK(file)'
    BY <1>1, <2>9, BookStepKeeps
  <2>15. ASSUME NEW d \in BrokerIds PROVE OrderOK(d)'
    <3>1. OrderOK(d) /\ Quantity[c] \in Nat \ {0}
      BY <2>2 DEF ExecInv
    <3>2. CASE d = b
      <4>1. orders'[d].client = c /\ orders'[d].filled = 0
        BY <2>3, <2>5, <3>2
      <4>2. 0 < Quantity[c] /\ 0 <= Quantity[c]
        BY <3>1
      <4>3. QED
        BY <1>1, <2>2, <4>1, <4>2 DEF OrderOK
    <3>3. CASE d # b
      BY <1>1, <2>5, <3>1, <3>3 DEF OrderOK, Sent, Live
    <3>4. QED
      BY <3>2, <3>3
  <2>16. \A d \in ClientIds : (claims[d] = "COMPLETED")' => OrdersOf(d)' # {}
    <3>1. \A d \in ClientIds : OrdersOf(d) \subseteq OrdersOf(d)'
      BY <2>4, <2>5 DEF OrdersOf, Sent
    <3>2. QED
      BY <1>1, <3>1 DEF ExecInv
  <2>17. AtMostOneOrder'
    <3>1. \A d \in BrokerIds : Sent(d) => orders[d].client # c
      BY <2>2 DEF OrdersOf
    <3>2. QED
      BY <2>3, <2>5, <2>11, <3>1 DEF ExecInv, AtMostOneOrder
  <2>18. QED
    BY <2>10, <2>12, <2>13, <2>14, <2>15, <2>16, <2>17 DEF ExecInv
<1>4. QED
  BY <1>2, <1>3 DEF SendOrder

\* The broker's own steps: an order keeps its client, fills up to its
\* quantity, and stays in the book.
LEMMA BrokerStepPreserves ==
  ASSUME ExecInv, NEW b \in BrokerIds, BrokerStep(b) PROVE ExecInv'
<1> DEFINE c == orders[b].client
           o == orders'[b]
<1>1. UNCHANGED <<rows, file, claims, reservations, ready, wk, bounds>> /\ BookStep(b)
  BY DEF BrokerStep
<1>2. orders \in [BrokerIds -> Order] /\ orders[b] \in Order
  BY DEF ExecInv, TypeOK
<1>3. Sent(b) /\ Live(b)
  BY <1>1 DEF BookStep, Receive, FillOne, Cancel, Sent, Live, LiveStatuses
<1>4. /\ c \in ClientIds /\ orders[b].filled < Quantity[c] /\ orders[b].filled \in Nat
      /\ Quantity[c] \in Nat /\ claims[c] # "none"
  BY <1>2, <1>3 DEF ExecInv, OrderOK, Order
<1>5. /\ orders' = [orders EXCEPT ![b] = o] /\ o \in Order /\ o.client = c
      /\ o.filled <= Quantity[c] /\ orders[b].filled <= o.filled
      /\ o.status \in {"NEW", "REJECTED", "lost", "FILLED", "PARTIALLY_FILLED", "CANCELLED"}
      /\ o.status \in LiveStatuses => o.filled < Quantity[c]
      /\ orders[b].status \in BookStatuses => o.status \in BookStatuses
      /\ orders[b].status \notin TerminalStatuses
  <2>1. CASE Receive(b)
    <3>1. PICK s \in {"NEW", "REJECTED", "lost"} : orders' = [orders EXCEPT ![b].status = s]
      BY <2>1 DEF Receive, SetOrder
    <3>2. o = [orders[b] EXCEPT !.status = s] /\ orders' = [orders EXCEPT ![b] = o]
      BY <1>2, <3>1
    <3>3. o \in Order /\ o.client = c /\ o.status = s /\ o.filled = orders[b].filled
      BY <1>2, <3>2 DEF Order, BookStatuses
    <3>4. orders[b].status = "inflight"
      BY <2>1 DEF Receive
    <3>5. QED
      BY <1>4, <3>1, <3>2, <3>3, <3>4 DEF BookStatuses, TerminalStatuses
  <2>2. CASE FillOne(b)
    <3> DEFINE x == [client |-> c,
                     status |-> IF Remaining(b) = 1 THEN "FILLED" ELSE "PARTIALLY_FILLED",
                     filled |-> orders[b].filled + 1]
    <3>1. orders' = [orders EXCEPT ![b] = x] /\ o = x
      BY <1>2, <2>2 DEF FillOne
    <3>2. x \in Order /\ x.client = c /\ x.filled = orders[b].filled + 1
      BY <1>4 DEF Order, BookStatuses
    <3>3. x.status = "FILLED" \/ (x.status = "PARTIALLY_FILLED" /\ Quantity[c] - orders[b].filled # 1)
      BY DEF Remaining
    <3>4. orders[b].status \in {"NEW", "PARTIALLY_FILLED"}
      BY <2>2 DEF FillOne
    <3> HIDE DEF x
    <3>5. x.status \in LiveStatuses => x.filled < Quantity[c]
      BY <1>4, <3>2, <3>3 DEF LiveStatuses
    <3>6. x.filled <= Quantity[c] /\ orders[b].filled <= x.filled
      BY <1>4, <3>2
    <3>7. QED
      BY <3>1, <3>2, <3>3, <3>4, <3>5, <3>6 DEF BookStatuses, TerminalStatuses
  <2>3. CASE Cancel(b)
    <3>1. orders' = [orders EXCEPT ![b].status = "CANCELLED"]
      BY <2>3 DEF Cancel, SetOrder
    <3>2. o = [orders[b] EXCEPT !.status = "CANCELLED"] /\ orders' = [orders EXCEPT ![b] = o]
      BY <1>2, <3>1
    <3>3. o \in Order /\ o.client = c /\ o.status = "CANCELLED" /\ o.filled = orders[b].filled
      BY <1>2, <3>2 DEF Order, BookStatuses
    <3>4. orders[b].status \in {"NEW", "PARTIALLY_FILLED"}
      BY <2>3 DEF Cancel
    <3>5. QED
      BY <1>4, <3>2, <3>3, <3>4 DEF BookStatuses, TerminalStatuses, LiveStatuses
  <2>4. QED
    BY <1>1, <2>1, <2>2, <2>3 DEF BookStep
<1> HIDE DEF o
<1>6. \A d \in BrokerIds : orders'[d] = IF d = b THEN o ELSE orders[d]
  BY <1>2, <1>5
<1>7. \A d \in BrokerIds : Sent(d)' = Sent(d) /\ (Sent(d) => orders'[d].client = orders[d].client)
  BY <1>3, <1>5, <1>6 DEF Sent
<1>8. \A d \in BrokerIds : orders[d].filled \in Nat
  BY <1>2 DEF Order
<1>9. BookGrows
  <2>1. orders' \in [BrokerIds -> Order]
    BY <1>2, <1>5
  <2>2. QED
    BY <1>5, <1>6, <1>8, <2>1 DEF BookGrows, Visible
<1>10. TypeOK'
  BY <1>1, <1>9 DEF BrokerStep, ExecInv, TypeOK, ReservationsTypeOK, SafetyStates, BookGrows, bounds
<1>11. \A d : OrdersOf(d)' = OrdersOf(d)
  BY <1>7 DEF OrdersOf
<1>12. ASSUME NEW v \in Workers PROVE WorkerOK(wk[v])'
  <2>1. wk'[v] = wk[v] /\ WorkerOK(wk[v])
    BY <1>1, WorkerFacts
  <2>2. MemoryOK(wk[v].mem)' /\ FoundOK(wk[v])'
    BY <1>1, <1>9, <2>1, BookStepKeeps
  <2>3. Submitting(wk[v]) => OrdersOf(wk[v].client)' = {}
    BY <1>11, <2>1 DEF WorkerOK
  <2>4. QED
    BY <1>1, <2>1, <2>2, <2>3 DEF WorkerOK, Submitting
<1>13. OneSubmitter'
  BY <1>1 DEF ExecInv, OneSubmitter, Submitting
<1>14. MemoryOK(file)'
  BY <1>1, <1>9, BookStepKeeps
<1>15. ASSUME NEW d \in BrokerIds PROVE OrderOK(d)'
  <2>1. CASE d = b
    BY <1>1, <1>4, <1>5, <1>6, <2>1 DEF OrderOK, Live
  <2>2. CASE d # b
    BY <1>1, <1>6, <2>2 DEF ExecInv, OrderOK, Sent, Live
  <2>3. QED
    BY <2>1, <2>2
<1>16. \A d \in ClientIds : (claims[d] = "COMPLETED")' => OrdersOf(d)' # {}
  BY <1>1, <1>11 DEF ExecInv
<1>17. AtMostOneOrder'
  BY <1>7 DEF ExecInv, AtMostOneOrder
<1>18. QED
  BY <1>10, <1>12, <1>13, <1>14, <1>15, <1>16, <1>17 DEF ExecInv

-----------------------------------------------------------------------------
(* Halt and restart.                                                        *)

\* Some requests are gone, the others go on; the stores keep.
LEMMA DropStep ==
  ASSUME ExecInv, StoresKeep, UNCHANGED <<file, claims>>,
         NEW S, wk' = [v \in Workers |-> IF v \in S THEN IdleWorker ELSE wk[v]]
  PROVE  ExecInv'
<1>1. orders' = orders
  BY DEF StoresKeep
<1>2. \A v \in Workers : wk'[v] \in {IdleWorker, wk[v]}
  OBVIOUS
<1>3. wk' \in [Workers -> Worker]
  BY <1>2, IdleIsOK DEF ExecInv, TypeOK
<1>4. TypeOK'
  BY <1>3 DEF ExecInv, TypeOK, StoresKeep
<1>5. IdleWorker.step = "idle"
  BY DEF IdleWorker
<1>6. ASSUME NEW v \in Workers PROVE WorkerOK(wk[v])'
  <2>1. WorkerOK(wk'[v])
    <3>1. CASE wk'[v] = IdleWorker
      BY <1>5, <3>1, IdleIsOK DEF RequestOK, WorkerOK, Submitting, ClaimedSteps, SubmittingSteps
    <3>2. CASE wk'[v] = wk[v]
      BY <3>2, WorkerFacts
    <3>3. QED
      BY <1>2, <3>1, <3>2
  <2>2. QED
    BY <1>1, <2>1 DEF WorkerOK, MemoryOK, RecordOK, FoundOK, Matches, Visible, OrdersOf, Sent,
       Submitting
<1>7. OneSubmitter'
  BY <1>2, <1>5 DEF ExecInv, OneSubmitter, Submitting, SubmittingSteps
<1>8. MemoryOK(file)'
  BY <1>1 DEF StoresKeep, MemoryOK, RecordOK, Matches, Visible
<1>9. ASSUME NEW b \in BrokerIds PROVE OrderOK(b)'
  BY <1>1 DEF ExecInv, OrderOK, Sent, Live
<1>10. \A c \in ClientIds : (claims[c] = "COMPLETED")' => OrdersOf(c)' # {}
  BY <1>1, OrdersStable DEF StoresKeep
<1>11. QED
  BY <1>1, <1>4, <1>6, <1>7, <1>8, <1>9, <1>10, OrdersStable DEF ExecInv

LEMMA EmergencyHaltPreserves ==
  ASSUME ExecInv, NEW p \in Processes, EmergencyHalt(p) PROVE ExecInv'
<1>1. StoresKeep
  BY DEF EmergencyHalt, ExecInv, TypeOK, StoresKeep, ReservationsTypeOK, SafetyStates, bounds
<1> DEFINE S == {}
<1>2. wk' = [v \in Workers |-> IF v \in S THEN IdleWorker ELSE wk[v]]
  BY DEF EmergencyHalt, ExecInv, TypeOK
<1> HIDE DEF S
<1>3. UNCHANGED <<file, claims>>
  BY DEF EmergencyHalt
<1>4. QED
  BY <1>1, <1>2, <1>3, DropStep

\* reconcile_authoritative_orders changes active records of orders it matched.
LEMMA ReconcileReservationsType ==
  ASSUME ExecInv, ReconcileReservations PROVE ReservationsTypeOK'
<1>1. ReservationsTypeOK
  BY DEF ExecInv, TypeOK
<1>2. CASE UNCHANGED reservations
  BY <1>1, <1>2 DEF ReservationsTypeOK
<1>3. CASE Durable /\ ReservationsMatchBook
  <2> DEFINE B(c) == CHOOSE d \in BrokerIds : Matches(c) = {d}
             new(c) == IF c \notin Active THEN reservations[c]
                       ELSE IF orders[B(c)].status = "NEW" THEN reservations[c]
                            ELSE ReconcileResult(c, orders[B(c)].status, Remaining(B(c)))
  <2>1. reservations' = [c \in ClientIds |-> new(c)]
    BY <1>3 DEF ReconcileReservations
  <2>2. ASSUME NEW c \in ClientIds PROVE new(c) \in Reservation
    <3>1. reservations[c] \in Reservation
      BY <1>1 DEF ReservationsTypeOK
    <3>2. CASE c \in Active
      <4>1. B(c) \in BrokerIds /\ Matches(c) = {B(c)}
        BY <1>3, <3>2 DEF ReservationsMatchBook
      <4> DEFINE b == B(c)
      <4>2. b \in BrokerIds /\ b \in Matches(c)
        BY <4>1
      <4> HIDE DEF b
      <4>3. Remaining(b) \in Nat
        <5>1. /\ orders[b].filled \in Nat /\ orders[b].client = c /\ Quantity[c] \in Nat
              /\ orders[b].filled <= Quantity[c]
          BY <4>2 DEF Matches, Visible, Sent, BookStatuses, ExecInv, TypeOK, Order, OrderOK
        <5>2. QED
          BY <5>1 DEF Remaining
      <4>4. ReconcileResult(c, orders[b].status, Remaining(b)) \in Reservation
        BY <3>1, <4>3 DEF ReconcileResult, Reservation
      <4>5. QED
        BY <3>1, <4>4 DEF b
    <3>3. QED
      BY <3>1, <3>2
  <2> HIDE DEF new
  <2>3. QED
    BY <2>1, <2>2 DEF ReservationsTypeOK
<1>4. QED
  BY <1>2, <1>3 DEF ReconcileReservations

LEMMA RestartPreserves ==
  ASSUME ExecInv, NEW p \in Processes, Restart(p) PROVE ExecInv'
<1>1. /\ UNCHANGED <<file, claims, orders, requests>>
      /\ restarts' \in 0..MaxRestarts
  BY DEF Restart, ExecInv, TypeOK
<1>2. wk' = [v \in Workers |->
               IF v \in {x \in Workers : ProcessOf[x] = p} THEN IdleWorker ELSE wk[v]]
  BY DEF Restart
<1>3. ReservationsTypeOK'
  BY ReconcileReservationsType
  DEF Restart, StartsHalted, StartsFailing, StartsReconciled, ProjectedRows, UnresolvedRows, ExecInv, TypeOK, ReservationsTypeOK
<1>4. \A c \in ClientIds : file[c].status \in RowStatuses
  BY DEF ExecInv, TypeOK, Files, Record, RowStatuses
<1>5. rows' \in [ClientIds -> RowStatuses]
  BY <1>4 DEF Restart, StartsHalted, StartsFailing, StartsReconciled, ProjectedRows, UnresolvedRows, ExecInv, TypeOK
<1>6. ready' \in [Processes -> BOOLEAN] /\ safety' \in SafetyStates
  BY DEF Restart, StartsHalted, StartsFailing, StartsReconciled, ProjectedRows, UnresolvedRows, ExecInv, TypeOK, SafetyStates
<1>7. StoresKeep
  BY <1>1, <1>3, <1>5, <1>6 DEF ExecInv, TypeOK, StoresKeep
<1>8. QED
  BY <1>1, <1>2, <1>7, DropStep

LEMMA WorkerStepPreserves ==
  ASSUME ExecInv, NEW w \in Workers, WorkerStep(w) PROVE ExecInv'
  BY LoadLifecyclePreserves, AuthorizePreserves, ReserveRiskPreserves, ClaimPreserves,
     FindClaimedPreserves, FindFreshPreserves, SaveIntentPreserves, RouterChecksPreserves,
     SendOrderPreserves, SubmitRaisesPreserves, FindAmbiguousPreserves,
     SaveRecoveredPreserves, SettleRiskPreserves, FinalizePreserves,
     MarkSubmittedPreserves, ProjectPreserves
  DEF WorkerStep

LEMMA StepPreserves == ExecInv /\ [Next]_vars => ExecInv'
<1> SUFFICES ASSUME ExecInv, [Next]_vars PROVE ExecInv'
  OBVIOUS
<1>1. CASE UNCHANGED vars
  <2>1. StoresKeep
    BY <1>1 DEF vars, stores, bounds, ExecInv, TypeOK, StoresKeep, ReservationsTypeOK,
                MemoryOK, RecordOK
  <2> DEFINE S == {}
  <2>2. wk' = [v \in Workers |-> IF v \in S THEN IdleWorker ELSE wk[v]]
    BY <1>1 DEF vars, ExecInv, TypeOK
  <2> HIDE DEF S
  <2>3. UNCHANGED <<file, claims>>
    BY <1>1 DEF vars, stores
  <2>4. QED
    BY <2>1, <2>2, <2>3, DropStep
<1>2. ASSUME NEW w \in Workers, NEW c \in ClientIds, CreateOrder(w, c) PROVE ExecInv'
  BY <1>2, CreateOrderPreserves
<1>3. ASSUME NEW w \in Workers, WorkerStep(w) \/ StoreFails(w) PROVE ExecInv'
  BY <1>3, WorkerStepPreserves, StoreFailsPreserves
<1>4. ASSUME NEW p \in Processes, EmergencyHalt(p) \/ Restart(p) PROVE ExecInv'
  BY <1>4, EmergencyHaltPreserves, RestartPreserves
<1>5. ASSUME NEW b \in BrokerIds, BrokerStep(b) PROVE ExecInv'
  BY <1>5, BrokerStepPreserves
<1>6. QED
  BY <1>1, <1>2, <1>3, <1>4, <1>5 DEF Next

-----------------------------------------------------------------------------
(* Theorems.                                                                *)

LEMMA InvariantHolds == Spec => []ExecInv
<1>1. Init => ExecInv
  BY InitExecInv
<1>2. ExecInv /\ [Next]_vars => ExecInv'
  BY StepPreserves
<1>3. QED
  BY <1>1, <1>2, PTL DEF Spec

\* Rows, file, claims, reservations, the book and the requests keep their
\* types: no fill exceeds its order, no reservation becomes negative.
THEOREM TypeCorrect == Spec => []TypeOK
<1>1. ExecInv => TypeOK
  BY DEF ExecInv
<1>2. QED
  BY <1>1, InvariantHolds, PTL

\* The durable claim lets one order leave per client order id, whichever
\* processes and threads execute it, and whenever they crash, time out or retry.
THEOREM AtMostOneOrderCorrect == Spec => []AtMostOneOrder
<1>1. ExecInv => AtMostOneOrder
  BY DEF ExecInv
<1>2. QED
  BY <1>1, InvariantHolds, PTL

\* The execution-state file never records a fill or an end that the broker
\* does not have, even when one request's copy overwrites another's.
THEOREM RecordsNeverRunAheadCorrect == Spec => []RecordsNeverRunAhead
<1>1. ExecInv => RecordsNeverRunAhead
  BY DEF ExecInv, MemoryOK, RecordOK, RecordsNeverRunAhead
<1>2. QED
  BY <1>1, InvariantHolds, PTL

-----------------------------------------------------------------------------
(* The path implements the ledger.                                          *)

EntryOK(c) ==
  /\ \/ OrdersOf(c) = {} /\ claims[c] # "COMPLETED"
     \/ claims[c] # "none" /\ \E b \in BrokerIds : OrdersOf(c) = {b}
  /\ OrdersOf(c) = {} =>
       LedgerEntry(c) = [stage |-> IF claims[c] = "none" THEN "new" ELSE "intended",
                         order |-> NoBroker]
  /\ \A b \in BrokerIds : OrdersOf(c) = {b} =>
       LedgerEntry(c) = [stage |-> IF claims[c] = "COMPLETED" THEN "tracked" ELSE "sent",
                         order |-> b]

Entries == \A c \in ClientIds : EntryOK(c)

LEMMA EntryValues == ExecInv => Entries
<1> SUFFICES ASSUME ExecInv, NEW c \in ClientIds PROVE EntryOK(c)
  BY DEF Entries
<1>1. claims[c] \in {"none", "CLAIMED", "COMPLETED"}
  BY DEF ExecInv, TypeOK
<1>2. \A b \in OrdersOf(c) : b \in BrokerIds /\ claims[c] # "none" /\ OrdersOf(c) = {b}
  BY DEF ExecInv, OrderOK, OrdersOf, AtMostOneOrder
<1>3. claims[c] = "COMPLETED" => OrdersOf(c) # {}
  BY DEF ExecInv
<1>4. \A b \in BrokerIds : OrdersOf(c) = {b} => (CHOOSE d \in OrdersOf(c) : TRUE) = b
  OBVIOUS
<1>5. OrdersOf(c) = {} =>
        LedgerEntry(c) = [stage |-> IF claims[c] = "none" THEN "new" ELSE "intended",
                          order |-> NoBroker]
  BY <1>1, <1>3 DEF LedgerEntry
<1>6. ASSUME NEW b \in BrokerIds, OrdersOf(c) = {b}
      PROVE  LedgerEntry(c) = [stage |-> IF claims[c] = "COMPLETED" THEN "tracked" ELSE "sent",
                               order |-> b]
  <2>1. claims[c] # "none" /\ OrdersOf(c) # {}
    BY <1>2, <1>6
  <2>2. (CHOOSE d \in OrdersOf(c) : TRUE) = b
    BY <1>4, <1>6
  <2>3. QED
    BY <2>1, <2>2 DEF LedgerEntry
<1>7. QED
  BY <1>2, <1>3, <1>5, <1>6 DEF EntryOK

\* The broker neither sends nor relabels orders.
LEMMA BookStepSendsNothing ==
  ASSUME ExecInv, NEW b \in BrokerIds, BookStep(b)
  PROVE  \A c \in ClientIds : OrdersOf(c)' = OrdersOf(c)
<1>1. orders \in [BrokerIds -> Order] /\ orders[b] \in Order
  BY DEF ExecInv, TypeOK
<1>2. /\ orders[b].status # "unused" /\ orders'[b].status # "unused"
      /\ orders'[b].client = orders[b].client
  BY <1>1 DEF BookStep, Receive, FillOne, Cancel, SetOrder, Order
<1>3. \A d \in BrokerIds \ {b} : orders'[d] = orders[d]
  BY <1>1 DEF BookStep, Receive, FillOne, Cancel, SetOrder
<1>4. QED
  BY <1>2, <1>3 DEF OrdersOf, Sent

\* Neither a claim nor an order is new: the ledger stutters.
LEMMA LedgerStutters ==
  ASSUME Entries, Entries', claims' = claims,
         \A c \in ClientIds : OrdersOf(c)' = OrdersOf(c)
  PROVE  [c \in ClientIds |-> LedgerEntry(c)]' = [c \in ClientIds |-> LedgerEntry(c)]
<1>1. ASSUME NEW c \in ClientIds PROVE LedgerEntry(c)' = LedgerEntry(c)
  <2>1. EntryOK(c) /\ EntryOK(c)'
    BY DEF Entries
  <2>2. OrdersOf(c)' = OrdersOf(c)
    OBVIOUS
  <2>3. CASE OrdersOf(c) = {}
    BY <2>1, <2>2, <2>3 DEF EntryOK
  <2>4. CASE \E b \in BrokerIds : OrdersOf(c) = {b}
    BY <2>1, <2>2, <2>4 DEF EntryOK
  <2>5. QED
    BY <2>1, <2>3, <2>4 DEF EntryOK
<1>2. QED
  BY <1>1

TheLedger == [c \in ClientIds |-> LedgerEntry(c)]

\* The entry of c alone moves, to e.
LEMMA EntryMoves ==
  ASSUME Entries, Entries', NEW c \in ClientIds, NEW e, LedgerEntry(c)' = e,
         \A d \in ClientIds \ {c} : claims'[d] = claims[d] /\ OrdersOf(d)' = OrdersOf(d)
  PROVE  TheLedger' = [TheLedger EXCEPT ![c] = e]
<1>1. ASSUME NEW d \in ClientIds \ {c} PROVE LedgerEntry(d)' = LedgerEntry(d)
  <2>1. EntryOK(d) /\ EntryOK(d)' /\ OrdersOf(d)' = OrdersOf(d) /\ claims'[d] = claims[d]
    BY DEF Entries
  <2>2. CASE OrdersOf(d) = {}
    BY <2>1, <2>2 DEF EntryOK
  <2>3. CASE \E b \in BrokerIds : OrdersOf(d) = {b}
    BY <2>1, <2>3 DEF EntryOK
  <2>4. QED
    BY <2>1, <2>2, <2>3 DEF EntryOK
<1>2. QED
  BY <1>1 DEF TheLedger

\* The mapping of a step: to an action of the ledger or to none.
LedgerStep ==
  \/ \E c \in ClientIds :
       \/ /\ TheLedger[c].stage = "new"
          /\ TheLedger' = [TheLedger EXCEPT ![c].stage = "intended"]
       \/ \E b \in BrokerIds :
            /\ TheLedger[c].stage = "intended"
            /\ \A d \in ClientIds : TheLedger[d].order # b
            /\ TheLedger' = [TheLedger EXCEPT ![c] = [stage |-> "sent", order |-> b]]
       \/ /\ TheLedger[c].stage = "sent"
          /\ TheLedger' = [TheLedger EXCEPT ![c].stage = "tracked"]
  \/ TheLedger' = TheLedger

LEMMA ClaimIntends ==
  ASSUME ExecInv, Entries, Entries', NEW w \in Workers, Claim(w)
  PROVE  LedgerStep
<1>0. PICK c \in ClientIds : c = wk[w].client
  BY WorkerFacts DEF Claim, At, WorkerOK
<1>1. orders' = orders
  BY DEF Claim
<1>2. \A d \in ClientIds : OrdersOf(d)' = OrdersOf(d)
  BY <1>1, OrdersStable
<1>3. CASE claims' = claims
  BY <1>2, <1>3, LedgerStutters DEF LedgerStep, TheLedger
<1>4. CASE claims[c] = "none" /\ claims' = [claims EXCEPT ![c] = "CLAIMED"]
  <2>1. claims'[c] = "CLAIMED" /\ \A d \in ClientIds \ {c} : claims'[d] = claims[d]
    BY <1>1, <1>4 DEF ExecInv, TypeOK
  <2>2. EntryOK(c) /\ EntryOK(c)' /\ OrdersOf(c) = {}
    BY <1>1, <1>4 DEF Entries, EntryOK
  <2>3. LedgerEntry(c) = [stage |-> "new", order |-> NoBroker]
    BY <1>4, <2>2 DEF EntryOK
  <2>4. LedgerEntry(c)' = [stage |-> "intended", order |-> NoBroker]
    BY <1>1, <1>2, <2>1, <2>2 DEF EntryOK
  <2>5. TheLedger' = [TheLedger EXCEPT ![c] = [stage |-> "intended", order |-> NoBroker]]
    BY <1>1, <1>2, <2>1, <2>4, EntryMoves
  <2>6. TheLedger[c] = [stage |-> "new", order |-> NoBroker]
    BY <1>1, <2>3 DEF TheLedger
  <2>7. [TheLedger EXCEPT ![c].stage = "intended"]
          = [TheLedger EXCEPT ![c] = [stage |-> "intended", order |-> NoBroker]]
    <3>1. [TheLedger[c] EXCEPT !.stage = "intended"] = [stage |-> "intended", order |-> NoBroker]
      BY <2>6
    <3>2. [TheLedger EXCEPT ![c].stage = "intended"]
            = [TheLedger EXCEPT ![c] = [TheLedger[c] EXCEPT !.stage = "intended"]]
      BY Zenon
    <3>3. QED
      BY <3>1, <3>2
  <2>8. TheLedger[c].stage = "new"
    BY <2>6
  <2>9. QED
    BY <2>5, <2>7, <2>8, Zenon DEF LedgerStep
<1>5. QED
  BY <1>0, <1>3, <1>4 DEF Claim

LEMMA SendSends ==
  ASSUME ExecInv, Entries, Entries', NEW w \in Workers, SendOrder(w)
  PROVE  LedgerStep
<1>0. PICK c \in ClientIds : c = wk[w].client
  BY WorkerFacts DEF SendOrder, At, WorkerOK
<1>1. claims' = claims /\ wk[w].step = "send"
  BY DEF SendOrder, At
<1>2. claims[c] # "none" /\ OrdersOf(c) = {}
  BY <1>0, <1>1, WorkerFacts DEF WorkerOK, Submitting, SubmittingSteps, ClaimedSteps
<1>3. CASE UNCHANGED orders
  BY <1>1, <1>3, OrdersStable, LedgerStutters DEF LedgerStep, TheLedger
<1>4. CASE \E b \in BrokerIds : Send(b, c)
  <2>1. PICK b \in BrokerIds : Send(b, c)
    BY <1>4
  <2>2. /\ orders \in [BrokerIds -> Order] /\ orders[b].status = "unused"
        /\ orders' = [orders EXCEPT ![b] = [client |-> c, status |-> "inflight", filled |-> 0]]
    BY <2>1 DEF Send, Sent, ExecInv, TypeOK
  <2>3. /\ orders'[b].client = c /\ orders'[b].status = "inflight"
        /\ \A d \in BrokerIds \ {b} : orders'[d] = orders[d]
    BY <2>2
  <2>4. OrdersOf(c)' = {b}
    BY <1>2, <2>3 DEF OrdersOf, Sent
  <2>5. \A d \in ClientIds \ {c} : OrdersOf(d)' = OrdersOf(d)
    BY <1>2, <2>2, <2>3 DEF OrdersOf, Sent
  <2>6. EntryOK(c) /\ EntryOK(c)'
    BY <1>2 DEF Entries
  <2>7. claims[c] # "COMPLETED"
    BY <1>2, <2>6 DEF EntryOK
  <2>8. LedgerEntry(c) = [stage |-> "intended", order |-> NoBroker]
    BY <1>2, <2>6 DEF EntryOK
  <2>9. LedgerEntry(c)' = [stage |-> "sent", order |-> b]
    BY <1>1, <2>4, <2>6, <2>7 DEF EntryOK
  <2>10. TheLedger' = [TheLedger EXCEPT ![c] = [stage |-> "sent", order |-> b]]
    BY <1>1, <1>2, <2>5, <2>9, EntryMoves
  <2>11. ASSUME NEW d \in ClientIds PROVE TheLedger[d].order # b
    <3>1. EntryOK(d) /\ TheLedger[d] = LedgerEntry(d)
      BY DEF Entries, TheLedger
    <3>2. b \notin OrdersOf(d)
      BY <2>2 DEF OrdersOf, Sent
    <3>3. CASE OrdersOf(d) = {}
      <4>1. TheLedger[d].order = NoBroker
        BY <3>1, <3>3 DEF EntryOK
      <4>2. QED
        BY <4>1
    <3>4. CASE \E x \in BrokerIds : OrdersOf(d) = {x}
      <4>1. PICK x \in BrokerIds : OrdersOf(d) = {x}
        BY <3>4
      <4>2. TheLedger[d].order = x
        BY <3>1, <4>1 DEF EntryOK
      <4>3. QED
        BY <3>2, <4>1, <4>2
    <3>5. QED
      BY <3>1, <3>3, <3>4 DEF EntryOK
  <2>12. TheLedger[c].stage = "intended"
    BY <1>2, <2>8 DEF TheLedger
  <2>13. QED
    BY <1>2, <2>10, <2>11, <2>12 DEF LedgerStep
<1>5. QED
  BY <1>0, <1>3, <1>4 DEF SendOrder

LEMMA FinalizeTracks ==
  ASSUME ExecInv, Entries, Entries', NEW w \in Workers, Finalize(w)
  PROVE  LedgerStep
<1>0. PICK c \in ClientIds : c = wk[w].client
  BY WorkerFacts DEF Finalize, At, WorkerOK
<1>1. orders' = orders /\ wk[w].step = "finalize"
  BY DEF Finalize, At
<1>2. OrdersOf(c) # {} /\ claims[c] # "none"
  BY <1>0, <1>1, WorkerFacts, RecoveredIsOK DEF WorkerOK, ClaimedSteps
<1>3. \A d \in ClientIds : OrdersOf(d)' = OrdersOf(d)
  BY <1>1, OrdersStable
<1>4. CASE claims' = claims
  BY <1>3, <1>4, LedgerStutters DEF LedgerStep, TheLedger
<1>5. CASE claims' = [claims EXCEPT ![c] = "COMPLETED"]
  <2>1. claims'[c] = "COMPLETED" /\ \A d \in ClientIds \ {c} : claims'[d] = claims[d]
    BY <1>2, <1>5 DEF ExecInv, TypeOK
  <2>2. EntryOK(c) /\ EntryOK(c)'
    BY <1>2 DEF Entries
  <2>3. PICK b \in BrokerIds : OrdersOf(c) = {b}
    BY <1>2, <2>2 DEF EntryOK
  <2>4. LedgerEntry(c)' = [stage |-> "tracked", order |-> b]
    BY <1>2, <1>3, <2>1, <2>2, <2>3 DEF EntryOK
  <2>5. TheLedger' = [TheLedger EXCEPT ![c] = [stage |-> "tracked", order |-> b]]
    BY <1>2, <1>3, <2>1, <2>4, EntryMoves
  <2>6. TheLedger[c] = [stage |-> IF claims[c] = "COMPLETED" THEN "tracked" ELSE "sent",
                        order |-> b]
    BY <1>2, <2>2, <2>3 DEF EntryOK, TheLedger
  <2>7. CASE claims[c] = "COMPLETED"
    <3>1. TheLedger[c] = [stage |-> "tracked", order |-> b]
      BY <2>6, <2>7
    <3>2. TheLedger' = TheLedger
      BY <1>2, <2>5, <3>1 DEF TheLedger
    <3>3. QED
      BY <3>2 DEF LedgerStep
  <2>8. CASE claims[c] # "COMPLETED"
    <3>1. TheLedger[c] = [stage |-> "sent", order |-> b]
      BY <2>6, <2>8
    <3>2. [TheLedger EXCEPT ![c].stage = "tracked"]
            = [TheLedger EXCEPT ![c] = [stage |-> "tracked", order |-> b]]
      <4>1. [TheLedger[c] EXCEPT !.stage = "tracked"] = [stage |-> "tracked", order |-> b]
        BY <3>1
      <4>2. [TheLedger EXCEPT ![c].stage = "tracked"]
              = [TheLedger EXCEPT ![c] = [TheLedger[c] EXCEPT !.stage = "tracked"]]
        BY Zenon
      <4>3. QED
        BY <4>1, <4>2
    <3>3. TheLedger[c].stage = "sent"
      BY <3>1
    <3>4. QED
      BY <2>5, <3>2, <3>3, Zenon DEF LedgerStep
  <2>9. QED
    BY <2>7, <2>8
<1>6. QED
  BY <1>0, <1>4, <1>5 DEF Finalize

LEMMA StepImplements ==
  ASSUME ExecInv, Entries, Entries', [Next]_vars
  PROVE  LedgerStep
<1>1. ASSUME claims' = claims, orders' = orders PROVE LedgerStep
  BY <1>1, OrdersStable, LedgerStutters DEF LedgerStep, TheLedger
<1>2. CASE UNCHANGED vars
  BY <1>1, <1>2 DEF vars, stores
<1>3. ASSUME NEW w \in Workers,
             (\E c \in ClientIds : CreateOrder(w, c)) \/ StoreFails(w)
      PROVE  LedgerStep
  BY <1>1, <1>3 DEF CreateOrder, StoreFails
<1>4. ASSUME NEW w \in Workers, WorkerStep(w), ~Claim(w), ~SendOrder(w), ~Finalize(w)
      PROVE  LedgerStep
  BY <1>1, <1>4
  DEF WorkerStep, stores, LoadLifecycle, MayExecute, Authorize, ReserveRisk, ReservesDurably, FindClaimed, FindFresh,
      SaveIntent, RouterChecks, SubmitRaises, FindAmbiguous, SaveRecovered, SettleRisk,
      MarkSubmitted, Project
<1>5. ASSUME NEW w \in Workers, Claim(w) \/ SendOrder(w) \/ Finalize(w) PROVE LedgerStep
  BY <1>5, ClaimIntends, SendSends, FinalizeTracks
<1>6. ASSUME NEW p \in Processes, EmergencyHalt(p) \/ Restart(p) PROVE LedgerStep
  BY <1>1, <1>6 DEF EmergencyHalt, Restart
<1>7. ASSUME NEW b \in BrokerIds, BrokerStep(b) PROVE LedgerStep
  <2>1. claims' = claims /\ BookStep(b)
    BY <1>7 DEF BrokerStep
  <2>2. QED
    BY <2>1, BookStepSendsNothing, LedgerStutters DEF LedgerStep, TheLedger
<1>8. QED
  BY <1>2, <1>3, <1>4, <1>5, <1>6, <1>7 DEF Next

\* Claims, lookups, time-outs, crashes and restarts together only ever move a
\* client order id forward: claimed, sent once, completed.
THEOREM LedgerImplemented == Spec => ImplementsLedger
<1>1. Init => Ledger!Init
  <2> SUFFICES ASSUME Init PROVE Ledger!Init
    OBVIOUS
  <2>1. Entries /\ \A c \in ClientIds : OrdersOf(c) = {} /\ claims[c] = "none"
    BY InitExecInv, EntryValues DEF Init, BookInit, NoOrder, OrdersOf, Sent
  <2>2. \A c \in ClientIds : LedgerEntry(c) = [stage |-> "new", order |-> NoBroker]
    BY <2>1 DEF Entries, EntryOK
  <2>3. QED
    BY <2>2 DEF Ledger!Init
<1>2. ExecInv /\ [Next]_vars => Entries /\ Entries'
  <2>1. ExecInv => Entries
    BY EntryValues
  <2>2. ExecInv' => Entries'
    BY EntryValues, PTL
  <2>3. QED
    BY <2>1, <2>2, StepPreserves
<1>3. ExecInv /\ [Next]_vars => [Ledger!Next]_TheLedger
  <2> SUFFICES ASSUME ExecInv, [Next]_vars PROVE [Ledger!Next]_TheLedger
    OBVIOUS
  <2>1. LedgerStep
    BY <1>2, StepImplements
  <2>2. QED
    BY <2>1 DEF LedgerStep, Ledger!Next, Ledger!Intend, Ledger!Send, Ledger!Track, TheLedger
<1>4. QED
  BY <1>1, <1>3, InvariantHolds, PTL DEF Spec, ImplementsLedger, Ledger!Spec, TheLedger

-----------------------------------------------------------------------------
(* Rows: an id that is requested once has one request, whose answer stays.  *)

OncePerId == \A c \in ClientIds : MaxRequests[c] <= 1

\* Where a step takes a request: to its end, or to one of some steps with the same client
\* id, and to a reply with one of some results only.
Goes(w, S, R) ==
  \E r \in Worker :
    /\ Becomes(w, r)
    /\ \/ r = IdleWorker
       \/ /\ r.client = wk[w].client /\ r.step \in S
          /\ r.step = "reply" => r.result \in R

OpenResults == RowStatuses \ TerminalStatuses

LEMMA GoToGoes ==
  ASSUME ExecInv, NEW w \in Workers, NEW s \in Steps \ {"reply"}, GoTo(w, s),
         NEW T, NEW Q, s \in T
  PROVE  Goes(w, T, Q)
<1> DEFINE r == [wk[w] EXCEPT !.step = s]
<1>1. r \in Worker /\ r.step = s /\ r.client = wk[w].client
  BY WorkerFacts DEF Worker
<1>2. Becomes(w, r)
  BY DEF GoTo
<1> HIDE DEF r
<1>3. QED
  BY <1>1, <1>2 DEF Goes

LEMMA ReplyGoes ==
  ASSUME ExecInv, NEW w \in Workers, NEW s \in RowStatuses, Reply(w, s),
         NEW T, NEW Q, "reply" \in T, s \in Q
  PROVE  Goes(w, T, Q)
<1> DEFINE r == [wk[w] EXCEPT !.step = "reply", !.result = s]
<1>1. r \in Worker /\ r.step = "reply" /\ r.client = wk[w].client /\ r.result = s
  BY WorkerFacts DEF Worker, Steps
<1>2. Becomes(w, r)
  BY DEF Reply
<1> HIDE DEF r
<1>3. QED
  BY <1>1, <1>2 DEF Goes

LEMMA AbortGoes == ASSUME NEW w \in Workers, Abort(w), NEW T, NEW Q PROVE Goes(w, T, Q)
  BY IdleIsOK DEF Abort, Goes

LEMMA GivesUpGoes ==
  ASSUME ExecInv, NEW w \in Workers, NEW s \in RowStatuses, GivesUp(w, s),
         NEW T, NEW Q, "reply" \in T, s \in Q
  PROVE  Goes(w, T, Q)
<1>1. CASE Reply(w, s)
  BY <1>1, ReplyGoes
<1>2. CASE Abort(w)
  BY <1>2, AbortGoes
<1>3. QED
  BY <1>1, <1>2 DEF GivesUp

LEMMA FindsGoes ==
  ASSUME ExecInv, NEW w \in Workers, NEW path \in {"fresh", "claimed", "ambiguous"},
         Finds(w, path), NEW T, NEW Q, "save" \in T
  PROVE  Goes(w, T, Q)
<1>1. PICK b \in Matches(wk[w].client) :
        Becomes(w, [wk[w] EXCEPT !.step = "save", !.path = path,
                                 !.found = orders[b].status, !.foundFilled = orders[b].filled])
  BY DEF Finds
<1> DEFINE r == [wk[w] EXCEPT !.step = "save", !.path = path,
                              !.found = orders[b].status, !.foundFilled = orders[b].filled]
<1>2. orders[b].status \in BookStatuses /\ orders[b].filled \in Nat
  BY DEF Matches, Visible, ExecInv, TypeOK, Order
<1>3. r \in Worker /\ r.step = "save" /\ r.client = wk[w].client
  <2>1. wk[w] \in Worker /\ "save" \in Steps
    BY WorkerFacts DEF Steps
  <2>2. QED
    BY <1>2, <2>1 DEF Worker
<1>4. Becomes(w, r)
  BY <1>1
<1> HIDE DEF r
<1>5. QED
  BY <1>3, <1>4 DEF Goes

LEMMA SaveGoes ==
  ASSUME ExecInv, NEW w \in Workers, NEW x \in Record, NEW s \in Steps \ {"reply"},
         SaveRecord(w, x, s), NEW T, NEW Q, s \in T
  PROVE  Goes(w, T, Q)
<1> DEFINE r == [wk[w] EXCEPT !.step = s, !.mem = WithRecord(w, x)]
<1>1. WithRecord(w, x) \in Files
  BY WorkerFacts DEF WithRecord, Worker, Files
<1>2. r \in Worker /\ r.step = s /\ r.client = wk[w].client
  BY <1>1, WorkerFacts DEF Worker
<1>3. Becomes(w, r)
  BY DEF SaveRecord
<1> HIDE DEF r
<1>4. QED
  BY <1>2, <1>3 DEF Goes

LEMMA GoesOn ==
  ASSUME NEW w, NEW S, NEW R, Goes(w, S, R), NEW T, NEW Q, S \subseteq T, R \subseteq Q
  PROVE  Goes(w, T, Q)
  BY DEF Goes

-----------------------------------------------------------------------------

EarlySteps == {"load", "authorize", "reserve", "claim"}

\* No order of the id can still fill, and no request can send one.
Settled(c) ==
  /\ requests[c] > 0
  /\ \A b \in OrdersOf(c) : ~Live(b)
  /\ OrdersOf(c) = {} =>
       \A w \in Workers : wk[w].client = c => wk[w].step \in {"idle", "reply"}

RowsInv ==
  /\ \A w \in Workers : wk[w].step # "idle" => requests[wk[w].client] > 0
  /\ \A v, w \in Workers :
       wk[v].step # "idle" /\ wk[w].step # "idle" /\ wk[v].client = wk[w].client => v = w
  /\ \A c \in ClientIds : requests[c] = 0 => claims[c] = "none"
  /\ \A w \in Workers : wk[w].step \in EarlySteps => claims[wk[w].client] = "none"
  /\ \A c \in ClientIds : rows[c] \in TerminalStatuses => Settled(c)
  /\ \A w \in Workers, c \in ClientIds :
       wk[w].step = "reply" /\ wk[w].client = c /\ wk[w].result \in TerminalStatuses => Settled(c)

LEMMA RowsInitially == Init => RowsInv
<1> SUFFICES ASSUME Init PROVE RowsInv
  OBVIOUS
<1>1. \A w \in Workers : wk[w].step = "idle"
  BY DEF Init, IdleWorker
<1>2. \A c \in ClientIds : rows[c] = "none" /\ claims[c] = "none"
  BY DEF Init
<1>3. QED
  BY <1>1, <1>2 DEF RowsInv, EarlySteps, TerminalStatuses

\* A final record is about an order that is final, the only one of its id.
LEMMA FinalOrders ==
  ASSUME ExecInv, NEW c \in ClientIds,
         \E b \in Matches(c) : orders[b].status \in TerminalStatuses
  PROVE  OrdersOf(c) # {} /\ \A b \in OrdersOf(c) : ~Live(b)
<1>1. PICK d \in Matches(c) : orders[d].status \in TerminalStatuses
  OBVIOUS
<1>2. d \in BrokerIds /\ Sent(d) /\ orders[d].client = c /\ ~Live(d)
  BY <1>1 DEF Matches, Visible, Sent, Live, BookStatuses, LiveStatuses, TerminalStatuses
<1>3. \A b \in OrdersOf(c) : b = d
  BY <1>2 DEF ExecInv, AtMostOneOrder, OrdersOf
<1>4. QED
  BY <1>2, <1>3 DEF OrdersOf

\* How the request of a step answers: as long as its order may live, with no final status.
Answers(w) ==
  \/ Goes(w, Steps, OpenResults)
  \/ Goes(w, Steps, RowStatuses) /\ \A b \in OrdersOf(wk[w].client) : ~Live(b)

\* A request's step that leaves the book and the rows alone.
Quiet(w) ==
  /\ wk[w].step \notin {"idle", "reply"}
  /\ Answers(w)
  /\ UNCHANGED <<rows, orders, requests>>
  /\ \A c \in ClientIds \ {wk[w].client} : claims'[c] = claims[c]
  /\ \/ Goes(w, Steps \ EarlySteps, RowStatuses)
     \/ claims' = claims /\ wk[w].step \in EarlySteps

LEMMA QuietStep ==
  ASSUME ExecInv, RowsInv, NEW w \in Workers, Quiet(w) PROVE RowsInv'
<1> USE DEF Quiet
<1>0. PICK c \in ClientIds : c = wk[w].client
  BY WorkerFacts DEF WorkerOK
<1>1. PICK r \in Worker :
        /\ Becomes(w, r)
        /\ r = IdleWorker \/ r.client = c
        /\ r.step = "reply" /\ r.result \in TerminalStatuses => \A b \in OrdersOf(c) : ~Live(b)
        /\ r.step \in EarlySteps => wk[w].step \in EarlySteps /\ claims' = claims
  <2>0. IdleWorker.step = "idle" /\ "idle" \notin EarlySteps
    BY DEF IdleWorker, EarlySteps
  <2>1. \A r, q \in Worker : Becomes(w, r) /\ Becomes(w, q) => r = q
    <3>1. ASSUME NEW r \in Worker, NEW q \in Worker, Becomes(w, r), Becomes(w, q) PROVE r = q
      <4>1. wk'[w] = r /\ wk'[w] = q
        BY <3>1 DEF Becomes, ExecInv, TypeOK
      <4>2. QED
        BY <4>1
    <3>2. QED
      BY <3>1
  <2>2. PICK r \in Worker :
          /\ Becomes(w, r)
          /\ r = IdleWorker \/ r.client = c
          /\ r.step = "reply" /\ r.result \in TerminalStatuses =>
               \A b \in OrdersOf(c) : ~Live(b)
    <3>1. CASE Goes(w, Steps, OpenResults)
      BY <1>0, <2>0, <3>1 DEF Goes, OpenResults
    <3>2. CASE Goes(w, Steps, RowStatuses) /\ \A b \in OrdersOf(wk[w].client) : ~Live(b)
      BY <1>0, <2>0, <3>2 DEF Goes
    <3>3. QED
      BY <3>1, <3>2 DEF Answers
  <2>3. CASE Goes(w, Steps \ EarlySteps, RowStatuses)
    <3>1. PICK q \in Worker : Becomes(w, q) /\ (q = IdleWorker \/ q.step \notin EarlySteps)
      BY <2>3 DEF Goes
    <3>2. r.step \notin EarlySteps
      BY <2>0, <2>1, <2>2, <3>1
    <3>3. QED
      BY <2>2, <3>2
  <2>4. CASE claims' = claims /\ wk[w].step \in EarlySteps
    BY <2>2, <2>4
  <2>5. QED
    BY <2>3, <2>4
<1>2. \A v \in Workers : wk'[v] = IF v = w THEN r ELSE wk[v]
  BY <1>1 DEF Becomes, ExecInv, TypeOK
<1>3. requests[c] > 0 /\ wk[w].step # "idle"
  BY <1>0 DEF RowsInv
<1>4. \A d : OrdersOf(d)' = OrdersOf(d)
  BY DEF OrdersOf, Sent
<1>5. \A b \in BrokerIds : Live(b)' = Live(b)
  BY DEF Live
<1>6. IdleWorker.step = "idle" /\ IdleWorker.client = NoClient /\ NoClient \notin ClientIds
  BY DEF IdleWorker
<1>7. ASSUME NEW d \in ClientIds, Settled(d) PROVE Settled(d)'
  <2>1. d # c \/ OrdersOf(d) # {}
    BY <1>0, <1>3, <1>7 DEF Settled, EarlySteps
  <2>2. \A b \in OrdersOf(d)' : ~Live(b)'
    BY <1>4, <1>5, <1>7 DEF Settled, OrdersOf
  <2>3. OrdersOf(d)' = {} =>
          \A v \in Workers : wk'[v].client = d => wk'[v].step \in {"idle", "reply"}
    BY <1>1, <1>2, <1>4, <1>6, <1>7, <2>1 DEF Settled
  <2>4. QED
    BY <1>7, <2>2, <2>3 DEF Settled
<1>8. \A v \in Workers : wk'[v].step # "idle" =>
        /\ wk[v].step # "idle" /\ wk'[v].client = wk[v].client /\ requests'[wk'[v].client] > 0
  BY <1>0, <1>1, <1>2, <1>3, <1>6 DEF RowsInv
<1>9. \A u, v \in Workers :
        wk'[u].step # "idle" /\ wk'[v].step # "idle" /\ wk'[u].client = wk'[v].client => u = v
  BY <1>8 DEF RowsInv
<1>10. \A v \in Workers : wk'[v].step \in EarlySteps => claims'[wk'[v].client] = "none"
  <2>1. SUFFICES ASSUME NEW v \in Workers, wk'[v].step \in EarlySteps
                 PROVE  claims'[wk'[v].client] = "none"
    OBVIOUS
  <2>2. wk'[v].step # "idle"
    BY <2>1 DEF EarlySteps
  <2>3. CASE v = w
    BY <1>0, <1>1, <1>2, <1>8, <2>1, <2>2, <2>3 DEF RowsInv
  <2>4. CASE v # w
    <3>1. wk'[v] = wk[v] /\ wk[v].client # c /\ wk[v].client \in ClientIds
      BY <1>0, <1>2, <1>3, <2>2, <2>4, WorkerFacts DEF RowsInv, WorkerOK
    <3>2. QED
      BY <1>0, <2>1, <3>1 DEF RowsInv
  <2>5. QED
    BY <2>3, <2>4
<1>11. \A d \in ClientIds : requests'[d] = 0 => claims'[d] = "none"
  BY <1>0, <1>3 DEF RowsInv
<1>12. \A v \in Workers, d \in ClientIds :
         wk'[v].step = "reply" /\ wk'[v].client = d /\ wk'[v].result \in TerminalStatuses
         => Settled(d)'
  <2>1. SUFFICES ASSUME NEW v \in Workers, NEW d \in ClientIds, wk'[v].step = "reply",
                        wk'[v].client = d, wk'[v].result \in TerminalStatuses
                 PROVE  Settled(d)'
    OBVIOUS
  <2>2. CASE v = w
    <3>1. wk'[v] = r /\ d = c /\ \A b \in OrdersOf(c) : ~Live(b)
      BY <1>1, <1>2, <1>6, <2>1, <2>2
    <3>2. \A u \in Workers : wk'[u].client = d => wk'[u].step \in {"idle", "reply"}
      BY <1>9, <2>1, <2>2
    <3>3. requests'[d] > 0 /\ \A b \in OrdersOf(d)' : ~Live(b)'
      BY <1>3, <1>4, <1>5, <3>1 DEF OrdersOf
    <3>4. QED
      BY <3>2, <3>3 DEF Settled
  <2>3. CASE v # w
    <3>1. Settled(d)
      BY <1>2, <2>1, <2>3 DEF RowsInv
    <3>2. QED
      BY <1>7, <3>1
  <2>4. QED
    BY <2>2, <2>3
<1>13. \A d \in ClientIds : rows'[d] \in TerminalStatuses => Settled(d)'
  BY <1>7 DEF RowsInv
<1>14. QED
  BY <1>8, <1>9, <1>10, <1>11, <1>12, <1>13 DEF RowsInv

-----------------------------------------------------------------------------

\* Nothing was sent yet for the request of an early step, whatever it answers.
LEMMA EarlyRequests ==
  ASSUME ExecInv, RowsInv, NEW w \in Workers, wk[w].step \in EarlySteps
  PROVE  OrdersOf(wk[w].client) = {}
  BY DEF ExecInv, RowsInv, OrderOK, OrdersOf

\* A step from an early step, and one that answers with no final status.
LEMMA EarlyStep ==
  ASSUME ExecInv, RowsInv, NEW w \in Workers, wk[w].step \in EarlySteps,
         Goes(w, Steps, RowStatuses), UNCHANGED <<rows, orders, requests>>,
         \A c \in ClientIds \ {wk[w].client} : claims'[c] = claims[c],
         Goes(w, Steps \ EarlySteps, RowStatuses) \/ claims' = claims
  PROVE  RowsInv'
<1>1. wk[w].step \notin {"idle", "reply"}
  BY DEF EarlySteps
<1>2. Answers(w)
  BY EarlyRequests DEF Answers
<1>3. Quiet(w)
  BY <1>1, <1>2 DEF Quiet
<1>4. QED
  BY <1>3, QuietStep

LEMMA OpenStep ==
  ASSUME ExecInv, RowsInv, NEW w \in Workers, wk[w].step \notin {"idle", "reply"},
         Goes(w, Steps \ EarlySteps, OpenResults), UNCHANGED <<rows, orders, requests>>,
         \A c \in ClientIds \ {wk[w].client} : claims'[c] = claims[c]
  PROVE  RowsInv'
<1>1. Goes(w, Steps, OpenResults) /\ Goes(w, Steps \ EarlySteps, RowStatuses)
  BY GoesOn DEF OpenResults
<1>2. Answers(w)
  BY <1>1 DEF Answers
<1>3. Quiet(w)
  BY <1>1, <1>2 DEF Quiet
<1>4. QED
  BY <1>3, QuietStep

LEMMA OpenStatuses == {"SUBMITTED", "SUBMISSION_INTENT"} \subseteq OpenResults
  BY DEF OpenResults, RowStatuses, RecordStatuses, TerminalStatuses

LEMMA EarlyActions ==
  ASSUME ExecInv, RowsInv, NEW w \in Workers,
         LoadLifecycle(w) \/ Authorize(w) \/ ReserveRisk(w)
  PROVE  RowsInv'
<1>1. wk[w].step \in EarlySteps /\ UNCHANGED <<rows, orders, claims, requests>>
  BY DEF LoadLifecycle, MayExecute, Authorize, ReserveRisk, ReservesDurably, At, EarlySteps, stores, bounds
<1>2. wk[w] \in Worker /\ file \in Files /\ "REJECTED" \in RowStatuses
  BY WorkerFacts DEF ExecInv, TypeOK, RowStatuses, RecordStatuses, TerminalStatuses
<1>0. ASSUME Goes(w, Steps, RowStatuses) PROVE RowsInv'
  BY <1>0, <1>1, EarlyStep
<1>3. ASSUME NEW r \in Worker, Becomes(w, r), r.step \in Steps \ {"reply"},
             r.client = wk[w].client
      PROVE  RowsInv'
  BY <1>0, <1>3 DEF Goes
<1>9. ASSUME Reply(w, "REJECTED") PROVE RowsInv'
  BY <1>0, <1>2, <1>9, ReplyGoes DEF Steps
<1>4. CASE LoadLifecycle(w)
  <2>1. CASE Becomes(w, [wk[w] EXCEPT !.step = "authorize", !.mem = file])
    <3> DEFINE r == [wk[w] EXCEPT !.step = "authorize", !.mem = file]
    <3>1. r \in Worker /\ r.step = "authorize" /\ r.client = wk[w].client
      BY <1>2 DEF Worker, Steps
    <3>2. Becomes(w, r)
      BY <2>1
    <3> HIDE DEF r
    <3>3. QED
      BY <1>3, <3>1, <3>2 DEF Steps
  <2>2. CASE Reply(w, "REJECTED")
    BY <1>9, <2>2
  <2>3. QED
    BY <1>4, <2>1, <2>2 DEF LoadLifecycle, MayExecute
<1>5. CASE Authorize(w)
  <2>1. ASSUME NEW e \in 0..MaxTotalExposure,
               Becomes(w, [wk[w] EXCEPT !.step = "reserve", !.exposure = e])
        PROVE  RowsInv'
    <3> DEFINE r == [wk[w] EXCEPT !.step = "reserve", !.exposure = e]
    <3>0. e \in Nat
      BY <2>1
    <3>1. r \in Worker /\ r.step = "reserve" /\ r.client = wk[w].client
      BY <1>2, <3>0 DEF Worker, Steps
    <3>2. Becomes(w, r)
      BY <2>1
    <3> HIDE DEF r
    <3>3. QED
      BY <1>3, <3>1, <3>2 DEF Steps
  <2>2. CASE Reply(w, "REJECTED")
    BY <1>9, <2>2
  <2>3. QED
    BY <1>5, <2>1, <2>2 DEF Authorize
<1>6. CASE ReserveRisk(w)
  <2>1. CASE GoTo(w, "claim")
    BY <1>0, <2>1, GoToGoes DEF Steps
  <2>2. CASE Reply(w, "REJECTED")
    BY <1>9, <2>2
  <2>3. QED
    BY <1>6, <2>1, <2>2 DEF ReserveRisk, ReservesDurably
<1>7. QED
  BY <1>4, <1>5, <1>6

LEMMA ClaimAction ==
  ASSUME ExecInv, RowsInv, NEW w \in Workers, Claim(w) PROVE RowsInv'
<1>1. wk[w].step \in EarlySteps /\ UNCHANGED <<rows, orders, requests>>
  BY DEF Claim, At, EarlySteps, bounds
<1>2. PICK c \in ClientIds : c = wk[w].client
  BY <1>1, WorkerFacts DEF WorkerOK, EarlySteps
<1>3. \A d \in ClientIds \ {wk[w].client} : claims'[d] = claims[d]
  BY DEF Claim, ExecInv, TypeOK
<1>4. wk[w] \in Worker /\ wk[w].mem[c].status \in RowStatuses /\ "SUBMITTED" \in RowStatuses
  BY WorkerFacts DEF Worker, Files, Record, RowStatuses, RecordStatuses
<1>5. CASE GivesUp(w, wk[w].mem[c].status) \/ GivesUp(w, "SUBMITTED")
  <2>1. "reply" \in Steps /\ "reply" \in Steps \ EarlySteps
    BY DEF Steps, EarlySteps
  <2>2. Goes(w, Steps, RowStatuses) /\ Goes(w, Steps \ EarlySteps, RowStatuses)
    BY <1>4, <1>5, <2>1, GivesUpGoes
  <2>3. QED
    BY <1>1, <1>3, <2>2, EarlyStep
<1>6. CASE GoTo(w, "find")
  <2>1. "find" \in Steps \ {"reply"} /\ "find" \in Steps \ EarlySteps
    BY DEF Steps, EarlySteps
  <2>2. Goes(w, Steps, RowStatuses) /\ Goes(w, Steps \ EarlySteps, RowStatuses)
    BY <1>6, <2>1, GoToGoes
  <2>3. QED
    BY <1>1, <1>3, <2>2, EarlyStep
<1>7. CASE Becomes(w, [wk[w] EXCEPT !.step = "refind", !.path = "claimed"])
  <2> DEFINE r == [wk[w] EXCEPT !.step = "refind", !.path = "claimed"]
  <2>1. r \in Worker /\ r.step = "refind" /\ r.client = wk[w].client
    BY <1>4 DEF Worker, Steps
  <2>2. Becomes(w, r)
    BY <1>7
  <2> HIDE DEF r
  <2>3. Goes(w, Steps, RowStatuses) /\ Goes(w, Steps \ EarlySteps, RowStatuses)
    BY <2>1, <2>2 DEF Goes, Steps, EarlySteps
  <2>4. QED
    BY <1>1, <1>3, <2>3, EarlyStep
<1>8. QED
  BY <1>2, <1>5, <1>6, <1>7 DEF Claim

LEMMA OpenActions ==
  ASSUME ExecInv, RowsInv, NEW w \in Workers,
         \/ FindClaimed(w) \/ FindFresh(w) \/ SaveIntent(w) \/ RouterChecks(w)
         \/ SubmitRaises(w) \/ FindAmbiguous(w) \/ SaveRecovered(w) \/ SettleRisk(w)
         \/ MarkSubmitted(w)
  PROVE  RowsInv'
<1>1. /\ wk[w].step \in Steps \ (EarlySteps \cup {"idle", "reply"})
      /\ UNCHANGED <<rows, orders, claims, requests>>
  BY DEF FindClaimed, FindFresh, SaveIntent, RouterChecks, SubmitRaises, FindAmbiguous,
         SaveRecovered, SettleRisk, MarkSubmitted, At, EarlySteps, Steps, stores, bounds
<1>2. "SUBMITTED" \in RowStatuses /\ {"SUBMITTED"} \subseteq OpenResults
  BY OpenStatuses DEF RowStatuses, RecordStatuses
<1> DEFINE Rest == Steps \ EarlySteps
<1>3. {"find", "intent", "submit", "send", "ambiguous", "mark", "save", "settle", "finalize",
       "reply"} \subseteq Rest
  BY DEF Steps, EarlySteps
<1> HIDE DEF Rest
<1>4. SUFFICES Goes(w, Rest, OpenResults)
  BY <1>1, OpenStep DEF Rest
<1>5. ASSUME NEW s \in Rest \ {"reply"}, GoTo(w, s) PROVE Goes(w, Rest, OpenResults)
  BY <1>5, GoToGoes DEF Rest
<1>6. ASSUME NEW p \in {"fresh", "claimed", "ambiguous"}, Finds(w, p)
      PROVE  Goes(w, Rest, OpenResults)
  BY <1>3, <1>6, FindsGoes
<1>7. ASSUME NEW x \in Record, NEW s \in Rest \ {"reply"}, SaveRecord(w, x, s)
      PROVE  Goes(w, Rest, OpenResults)
  BY <1>7, SaveGoes DEF Rest
<1>8. ASSUME GivesUp(w, "SUBMITTED") PROVE Goes(w, Rest, OpenResults)
  BY <1>2, <1>3, <1>8, GivesUpGoes
<1>9. ASSUME Reply(w, "SUBMITTED") PROVE Goes(w, Rest, OpenResults)
  BY <1>2, <1>3, <1>9, ReplyGoes
<1>10. CASE FindClaimed(w)
  BY <1>6, <1>8, <1>10 DEF FindClaimed
<1>11. CASE FindFresh(w)
  BY <1>3, <1>5, <1>6, <1>11 DEF FindFresh
<1>12. CASE SaveIntent(w)
  <2>1. [status |-> "SUBMISSION_INTENT", filled |-> 0] \in Record
    BY DEF Record, RecordStatuses
  <2>2. QED
    BY <1>3, <1>7, <1>12, <2>1 DEF SaveIntent
<1>13. CASE RouterChecks(w)
  BY <1>3, <1>5, <1>13 DEF RouterChecks
<1>14. CASE SubmitRaises(w)
  BY <1>3, <1>5, <1>14 DEF SubmitRaises
<1>15. CASE FindAmbiguous(w)
  BY <1>3, <1>5, <1>6, <1>15 DEF FindAmbiguous
<1>16. CASE SaveRecovered(w)
  <2>1. RecoveredRecord(w) \in Record
    BY <1>16, RecoveredIsOK DEF SaveRecovered, At
  <2>2. QED
    BY <1>3, <1>5, <1>7, <1>8, <1>16, <2>1 DEF SaveRecovered, RecoveryFails
<1>17. CASE SettleRisk(w)
  BY <1>3, <1>5, <1>17 DEF SettleRisk
<1>18. CASE MarkSubmitted(w)
  BY <1>9, <1>18 DEF MarkSubmitted
<1>19. QED
  BY <1>10, <1>11, <1>12, <1>13, <1>14, <1>15, <1>16, <1>17, <1>18

\* The recovered status is final only when the order found is.
LEMMA FinalizeAction ==
  ASSUME ExecInv, RowsInv, NEW w \in Workers, Finalize(w) PROVE RowsInv'
<1>1. wk[w].step = "finalize" /\ UNCHANGED <<rows, orders, requests>>
  BY DEF Finalize, At, bounds
<1>2. PICK c \in ClientIds : c = wk[w].client
  BY <1>1, WorkerFacts DEF WorkerOK
<1>3. \A d \in ClientIds \ {wk[w].client} : claims'[d] = claims[d]
  BY DEF Finalize, ExecInv, TypeOK
<1> DEFINE s == RecoveredRecord(w).status
<1>4. s \in RowStatuses /\ Reply(w, s)
  BY <1>1, RecoveredIsOK DEF Finalize
<1>5. "reply" \in Steps /\ "reply" \in Steps \ EarlySteps
  BY DEF Steps, EarlySteps
<1>6. CASE s \in OpenResults
  <2>1. Goes(w, Steps \ EarlySteps, OpenResults)
    BY <1>4, <1>5, <1>6, ReplyGoes
  <2>2. QED
    BY <1>1, <1>3, <2>1, OpenStep
<1>7. CASE s \notin OpenResults
  <2>1. s \in TerminalStatuses
    BY <1>4, <1>7 DEF OpenResults
  <2>2. \E b \in Matches(c) : orders[b].status \in TerminalStatuses
    BY <1>1, <1>2, <2>1, RecoveredIsOK DEF RecordOK
  <2>3. \A b \in OrdersOf(c) : ~Live(b)
    BY <2>2, FinalOrders
  <2>4. Goes(w, Steps, RowStatuses) /\ Goes(w, Steps \ EarlySteps, RowStatuses)
    BY <1>4, <1>5, ReplyGoes
  <2>5. Answers(w)
    BY <1>2, <2>3, <2>4 DEF Answers
  <2>6. wk[w].step \notin {"idle", "reply"}
    BY <1>1
  <2>7. Quiet(w)
    BY <1>1, <1>3, <2>4, <2>5, <2>6 DEF Quiet
  <2>8. QED
    BY <2>7, QuietStep
<1>8. QED
  BY <1>6, <1>7

LEMMA StoreFailsAction ==
  ASSUME ExecInv, RowsInv, NEW w \in Workers, StoreFails(w) PROVE RowsInv'
<1>1. /\ wk[w].step \in Steps \ {"idle", "reply"}
      /\ UNCHANGED <<rows, orders, claims, requests>>
  BY DEF StoreFails, Steps, bounds
<1>2. Abort(w) \/ GivesUp(w, "SUBMITTED")
  BY DEF StoreFails
<1>3. "reply" \in Steps \ EarlySteps
  BY DEF Steps, EarlySteps
<1>4. "SUBMITTED" \in RowStatuses /\ "SUBMITTED" \in OpenResults
  BY OpenStatuses DEF RowStatuses, RecordStatuses
<1>5. Goes(w, Steps \ EarlySteps, OpenResults)
  BY <1>2, <1>3, <1>4, AbortGoes, GivesUpGoes
<1>6. QED
  BY <1>1, <1>5, OpenStep

\* A new request is the first of its id, and the only one.
LEMMA CreateAction ==
  ASSUME OncePerId, ExecInv, RowsInv, NEW w \in Workers, NEW c \in ClientIds, CreateOrder(w, c)
  PROVE  RowsInv'
<1> DEFINE r == [IdleWorker EXCEPT !.step = "load", !.client = c]
<1>1. r.step = "load" /\ r.client = c
  BY DEF IdleWorker
<1>2. Becomes(w, r) /\ UNCHANGED <<claims, orders>>
  BY DEF CreateOrder
<1> HIDE DEF r
<1>3. wk[w].step = "idle" /\ \A v \in Workers : wk'[v] = IF v = w THEN r ELSE wk[v]
  BY <1>2 DEF CreateOrder, At, Becomes, ExecInv, TypeOK
<1>4. /\ requests[c] = 0 /\ requests'[c] > 0
      /\ \A d \in ClientIds \ {c} : requests'[d] = requests[d]
  BY DEF CreateOrder, OncePerId, ExecInv, TypeOK
<1>5. rows'[c] \notin TerminalStatuses /\ \A d \in ClientIds \ {c} : rows'[d] = rows[d]
  BY DEF CreateOrder, ExecInv, TypeOK, RetryableRows, TerminalStatuses
<1>6. \A v \in Workers : wk[v].step # "idle" => wk[v].client \in ClientIds \ {c}
  BY <1>4, WorkerFacts DEF RowsInv, WorkerOK
<1>7. \A d \in ClientIds \ {c} : Settled(d) => Settled(d)'
  <2>1. ASSUME NEW d \in ClientIds \ {c}, Settled(d) PROVE Settled(d)'
    <3>1. requests'[d] > 0
      BY <1>4, <2>1 DEF Settled
    <3>2. OrdersOf(d)' = OrdersOf(d) /\ \A b \in OrdersOf(d)' : ~Live(b)'
      BY <1>2, <2>1 DEF Settled, OrdersOf, Sent, Live
    <3>3. OrdersOf(d)' = {} =>
            \A v \in Workers : wk'[v].client = d => wk'[v].step \in {"idle", "reply"}
      BY <1>1, <1>3, <2>1, <3>2 DEF Settled
    <3>4. QED
      BY <3>1, <3>2, <3>3 DEF Settled
  <2>2. QED
    BY <2>1
<1>8. \A v \in Workers : wk'[v].step # "idle" => requests'[wk'[v].client] > 0
  BY <1>1, <1>3, <1>4, <1>6 DEF RowsInv
<1>9. \A u, v \in Workers :
        wk'[u].step # "idle" /\ wk'[v].step # "idle" /\ wk'[u].client = wk'[v].client => u = v
  BY <1>1, <1>3, <1>6 DEF RowsInv
<1>10. \A d \in ClientIds : requests'[d] = 0 => claims'[d] = "none"
  BY <1>2, <1>4 DEF RowsInv
<1>11. \A v \in Workers : wk'[v].step \in EarlySteps => claims'[wk'[v].client] = "none"
  BY <1>1, <1>2, <1>3, <1>4 DEF RowsInv
<1>12. \A d \in ClientIds : rows'[d] \in TerminalStatuses => Settled(d)'
  BY <1>5, <1>7 DEF RowsInv
<1>13. \A v \in Workers, d \in ClientIds :
         wk'[v].step = "reply" /\ wk'[v].client = d /\ wk'[v].result \in TerminalStatuses
         => Settled(d)'
  <2>1. SUFFICES ASSUME NEW v \in Workers, NEW d \in ClientIds, wk'[v].step = "reply",
                        wk'[v].client = d, wk'[v].result \in TerminalStatuses
                 PROVE  Settled(d)'
    OBVIOUS
  <2>2. wk'[v] = wk[v] /\ d # c
    BY <1>1, <1>3, <1>6, <2>1
  <2>3. QED
    BY <1>7, <2>1, <2>2 DEF RowsInv
<1>14. QED
  BY <1>8, <1>9, <1>10, <1>11, <1>12, <1>13 DEF RowsInv

\* An order leaves for an id that nothing is settled for.
LEMMA SendAction ==
  ASSUME ExecInv, RowsInv, NEW w \in Workers, SendOrder(w) PROVE RowsInv'
<1>1. wk[w].step = "send" /\ GoTo(w, "sent") /\ UNCHANGED <<rows, claims, requests>>
  BY DEF SendOrder, At, bounds
<1>2. PICK c \in ClientIds : c = wk[w].client
  BY <1>1, WorkerFacts DEF WorkerOK
<1>3. /\ wk'[w].step = "sent" /\ wk'[w].client = c
      /\ \A v \in Workers \ {w} : wk'[v] = wk[v]
  BY <1>1, <1>2, WorkerFacts DEF GoTo, Becomes, ExecInv, TypeOK, Worker
<1>4. ~Settled(c)
  BY <1>1, <1>2 DEF ExecInv, WorkerOK, Submitting, SubmittingSteps, Settled
<1>5. \A d \in ClientIds \ {c} : \A b \in BrokerIds :
        (b \in OrdersOf(d)' <=> b \in OrdersOf(d)) /\ (b \in OrdersOf(d) => Live(b)' = Live(b))
  <2>1. CASE UNCHANGED orders
    BY <2>1 DEF OrdersOf, Sent, Live
  <2>2. ASSUME NEW e \in BrokerIds, Send(e, wk[w].client)
        PROVE  \A d \in ClientIds \ {c} : \A b \in BrokerIds :
                 /\ b \in OrdersOf(d)' <=> b \in OrdersOf(d)
                 /\ b \in OrdersOf(d) => Live(b)' = Live(b)
    <3>1. /\ ~Sent(e) /\ orders'[e].client = c
          /\ \A b \in BrokerIds \ {e} : orders'[b] = orders[b]
      BY <1>2, <2>2 DEF Send, ExecInv, TypeOK
    <3>2. QED
      BY <3>1 DEF OrdersOf, Sent, Live
  <2>3. QED
    BY <2>1, <2>2 DEF SendOrder
<1>6. ASSUME NEW d \in ClientIds, Settled(d) PROVE Settled(d)'
  <2>1. d # c
    BY <1>4, <1>6
  <2>2. OrdersOf(d)' = OrdersOf(d) /\ \A b \in OrdersOf(d)' : ~Live(b)'
    BY <1>5, <1>6, <2>1 DEF Settled, OrdersOf
  <2>3. OrdersOf(d)' = {} =>
          \A v \in Workers : wk'[v].client = d => wk'[v].step \in {"idle", "reply"}
    BY <1>3, <1>6, <2>1, <2>2 DEF Settled
  <2>4. QED
    BY <1>1, <1>6, <2>2, <2>3 DEF Settled
<1>7. \A v \in Workers : wk'[v].step # "idle" =>
        wk[v].step # "idle" /\ wk'[v].client = wk[v].client
  BY <1>1, <1>2, <1>3
<1>8. \A v \in Workers : wk'[v].step \in EarlySteps \cup {"reply"} => wk'[v] = wk[v]
  BY <1>3 DEF EarlySteps
<1>9. QED
  BY <1>1, <1>6, <1>7, <1>8 DEF RowsInv, EarlySteps

\* Requests end, orders move on, and final rows are projected from final records.
LEMMA RestStep ==
  ASSUME RowsInv, UNCHANGED <<claims, requests>>,
         \A w \in Workers : wk'[w] = wk[w] \/ wk'[w] = IdleWorker,
         \A c \in ClientIds : OrdersOf(c)' = OrdersOf(c),
         \A b \in BrokerIds : Sent(b) /\ ~Live(b) => ~Live(b)',
         \A c \in ClientIds : rows'[c] \in TerminalStatuses => Settled(c)
  PROVE  RowsInv'
<1>1. IdleWorker.step = "idle"
  BY DEF IdleWorker
<1>2. ASSUME NEW d \in ClientIds, Settled(d) PROVE Settled(d)'
  <2>1. \A b \in OrdersOf(d)' : ~Live(b)'
    BY <1>2 DEF Settled, OrdersOf
  <2>2. OrdersOf(d)' = {} =>
          \A v \in Workers : wk'[v].client = d => wk'[v].step \in {"idle", "reply"}
    BY <1>1, <1>2 DEF Settled
  <2>3. QED
    BY <1>2, <2>1, <2>2 DEF Settled
<1>3. \A w \in Workers : wk'[w].step # "idle" => wk'[w] = wk[w]
  BY <1>1
<1>4. \A d \in ClientIds : rows'[d] \in TerminalStatuses => Settled(d)'
  BY <1>2
<1>5. \A w \in Workers, d \in ClientIds :
        wk'[w].step = "reply" /\ wk'[w].client = d /\ wk'[w].result \in TerminalStatuses
        => Settled(d)'
  BY <1>2, <1>3 DEF RowsInv
<1>6. QED
  BY <1>3, <1>4, <1>5 DEF RowsInv, EarlySteps

\* Answers are projected to their rows.
LEMMA ProjectAction ==
  ASSUME ExecInv, RowsInv, NEW w \in Workers, Project(w) PROVE RowsInv'
<1>1. wk[w].step = "reply" /\ Becomes(w, IdleWorker) /\ UNCHANGED <<orders, claims, requests>>
  BY DEF Project, At, bounds
<1>2. PICK c \in ClientIds : c = wk[w].client
  BY <1>1, WorkerFacts DEF WorkerOK
<1>3. \A v \in Workers : wk'[v] = wk[v] \/ wk'[v] = IdleWorker
  BY <1>1 DEF Becomes, ExecInv, TypeOK
<1>4. \A d \in ClientIds : rows'[d] = rows[d] \/ (d = c /\ rows'[d] = wk[w].result)
  BY <1>2 DEF Project, ExecInv, TypeOK
<1>5. \A d \in ClientIds : rows'[d] \in TerminalStatuses => Settled(d)
  BY <1>1, <1>2, <1>4 DEF RowsInv
<1>6. /\ \A d \in ClientIds : OrdersOf(d)' = OrdersOf(d)
      /\ \A b \in BrokerIds : Sent(b) /\ ~Live(b) => ~Live(b)'
  BY <1>1 DEF OrdersOf, Sent, Live
<1>7. QED
  BY <1>1, <1>3, <1>5, <1>6, RestStep

LEMMA HaltAction ==
  ASSUME RowsInv, NEW p, EmergencyHalt(p) PROVE RowsInv'
  BY RestStep DEF EmergencyHalt, bounds, OrdersOf, Sent, Live, RowsInv

\* An order that is over stays so.
LEMMA BrokerAction ==
  ASSUME ExecInv, RowsInv, NEW b \in BrokerIds, BrokerStep(b) PROVE RowsInv'
<1>1. BookStep(b) /\ UNCHANGED <<rows, claims, requests, wk>>
  BY DEF BrokerStep, bounds
<1>2. /\ Live(b) /\ Sent(b) /\ Sent(b)'
      /\ orders'[b].client = orders[b].client
      /\ \A d \in BrokerIds \ {b} : orders'[d] = orders[d]
  BY <1>1 DEF BookStep, Receive, FillOne, Cancel, SetOrder, Live, LiveStatuses, Sent,
     ExecInv, TypeOK, Order
<1>3. \A c \in ClientIds : OrdersOf(c)' = OrdersOf(c)
  BY <1>2 DEF OrdersOf, Sent
<1>4. \A d \in BrokerIds : Sent(d) /\ ~Live(d) => ~Live(d)'
  BY <1>2 DEF Live
<1>5. QED
  BY <1>1, <1>3, <1>4, RestStep DEF RowsInv

\* A startup that projects the file projects final records of final orders.
LEMMA RestartAction ==
  ASSUME ExecInv, RowsInv, NEW p \in Processes, Restart(p) PROVE RowsInv'
<1>1. UNCHANGED <<orders, claims, requests>>
  BY DEF Restart
<1>2. \A w \in Workers : wk'[w] = wk[w] \/ wk'[w] = IdleWorker
  BY DEF Restart
<1>3. ASSUME NEW c \in ClientIds, file[c].status \in TerminalStatuses PROVE Settled(c)
  <2>1. \E b \in Matches(c) : orders[b].status \in TerminalStatuses
    BY <1>3 DEF ExecInv, MemoryOK, RecordOK
  <2>2. OrdersOf(c) # {} /\ \A b \in OrdersOf(c) : ~Live(b)
    BY <2>1, FinalOrders
  <2>3. claims[c] # "none"
    BY <2>2 DEF ExecInv, OrderOK, OrdersOf
  <2>4. requests[c] > 0
    BY <2>3 DEF RowsInv, ExecInv, TypeOK
  <2>5. QED
    BY <2>2, <2>4 DEF Settled
<1>4. \A c \in ClientIds : rows'[c] = rows[c] \/ rows'[c] = file[c].status
  BY DEF Restart, StartsHalted, StartsFailing, StartsReconciled, ProjectedRows, UnresolvedRows, ExecInv, TypeOK
<1>5. \A c \in ClientIds : rows'[c] \in TerminalStatuses => Settled(c)
  BY <1>3, <1>4 DEF RowsInv
<1>6. /\ \A d \in ClientIds : OrdersOf(d)' = OrdersOf(d)
      /\ \A b \in BrokerIds : Sent(b) /\ ~Live(b) => ~Live(b)'
  BY <1>1 DEF OrdersOf, Sent, Live
<1>7. QED
  BY <1>1, <1>2, <1>5, <1>6, RestStep

LEMMA RowsPreserved == OncePerId /\ ExecInv /\ RowsInv /\ [Next]_vars => RowsInv'
<1> SUFFICES ASSUME OncePerId, ExecInv, RowsInv, [Next]_vars PROVE RowsInv'
  OBVIOUS
<1>1. ASSUME NEW w \in Workers, NEW c \in ClientIds, CreateOrder(w, c) PROVE RowsInv'
  BY <1>1, CreateAction
<1>2. ASSUME NEW w \in Workers, WorkerStep(w) PROVE RowsInv'
  BY <1>2, EarlyActions, ClaimAction, OpenActions, FinalizeAction, SendAction, ProjectAction
  DEF WorkerStep
<1>3. ASSUME NEW w \in Workers, StoreFails(w) PROVE RowsInv'
  BY <1>3, StoreFailsAction
<1>4. ASSUME NEW p \in Processes, EmergencyHalt(p) \/ Restart(p) PROVE RowsInv'
  BY <1>4, HaltAction, RestartAction
<1>5. ASSUME NEW b \in BrokerIds, BrokerStep(b) PROVE RowsInv'
  BY <1>5, BrokerAction
<1>6. CASE UNCHANGED vars
  <2>1. UNCHANGED <<rows, orders, claims, requests, wk>>
    BY <1>6 DEF vars, stores, bounds
  <2>2. QED
    BY <2>1, RestStep DEF OrdersOf, Sent, Live, RowsInv
<1>7. QED
  BY <1>1, <1>2, <1>3, <1>4, <1>5, <1>6 DEF Next

-----------------------------------------------------------------------------
(* The file, with one writer: a request saves its whole copy of the file,   *)
(* so only a single thread, or threads of one process that serve a single   *)
(* client order id, overwrite nothing of each other.                        *)

OneWriter ==
  \A v, w \in Workers : v # w =>
    ProcessOf[v] = ProcessOf[w] /\ \A c, d \in ClientIds : c = d

Locked(r) == r.step \in LockedSteps

\* From the intent on, until the outcome is saved: the record is not final.
OpenRecord(r) ==
  \/ r.step \in {"submit", "send", "sent", "ambiguous", "mark"}
  \/ r.step = "save" /\ r.path = "ambiguous"

\* The record that _save_recovered makes of what was found.
RecordOf(status, filled) ==
  LET s == MapBrokerStatus(status) IN
  [status |-> s, filled |-> IF s \in {"FILLED", "PARTIALLY_FILLED"} THEN filled ELSE 0]

\* An order of c is over, and x is its record.
EndsAs(c, x) ==
  \E b \in Matches(c) :
    orders[b].status \in TerminalStatuses /\ x = RecordOf(orders[b].status, orders[b].filled)

WriterOK(r) ==
  /\ r.step \notin {"idle", "load", "reply"} =>
       \A d \in ClientIds \ {r.client} : r.mem[d] = file[d]
  /\ r.step \in {"submit", "send"} => file[r.client].status # "none"
  /\ OpenRecord(r) => file[r.client].status \notin TerminalStatuses
  /\ r.step = "save" =>
       /\ r.found \in TerminalStatuses => EndsAs(r.client, RecordOf(r.found, r.foundFilled))
       /\ file[r.client].status \in TerminalStatuses =>
            file[r.client] = RecordOf(r.found, r.foundFilled)

FileInv ==
  /\ \A v, w \in Workers : Locked(wk[v]) /\ Locked(wk[w]) => v = w
  /\ \A w \in Workers, r \in Worker : wk[w] = r => WriterOK(r)
  /\ \A b \in BrokerIds : Sent(b) => file[orders[b].client].status # "none"
  /\ \A c \in ClientIds : file[c].status \in TerminalStatuses => EndsAs(c, file[c])

LEMMA FileInitially == Init => FileInv
<1> SUFFICES ASSUME Init PROVE FileInv
  OBVIOUS
<1>1. \A w \in Workers : wk[w].step = "idle"
  BY DEF Init, IdleWorker
<1>2. \A c \in ClientIds : file[c].status = "none"
  BY DEF Init, NoRecord
<1>3. \A b \in BrokerIds : ~Sent(b)
  BY DEF Init, BookInit, NoOrder, Sent
<1>4. \A r : r.step = "idle" => WriterOK(r)
  BY DEF WriterOK, OpenRecord
<1>5. QED
  BY <1>1, <1>2, <1>3, <1>4 DEF FileInv, Locked, LockedSteps, TerminalStatuses

LEMMA WriterStable ==
  ASSUME UNCHANGED <<file, orders>>, NEW r, WriterOK(r) PROVE WriterOK(r)'
  BY DEF WriterOK, EndsAs, Matches, Visible

\* A request moves on, the file and the book stay.
LEMMA FileStays ==
  ASSUME ExecInv, FileInv, NEW w \in Workers, NEW r \in Worker, Becomes(w, r),
         UNCHANGED <<file, orders>>, WriterOK(r),
         Locked(r) => Locked(wk[w]) \/ \A v \in Workers : ~Locked(wk[v])
  PROVE  FileInv'
<1>1. \A v \in Workers : wk'[v] = IF v = w THEN r ELSE wk[v]
  BY DEF Becomes, ExecInv, TypeOK
<1>2. \A u, v \in Workers : Locked(wk[u])' /\ Locked(wk[v])' => u = v
  BY <1>1 DEF FileInv, Locked
<1>3. \A v \in Workers, q \in Worker : wk'[v] = q => WriterOK(q)'
  <2>1. \A q : WriterOK(q) => WriterOK(q)'
    BY WriterStable
  <2>2. QED
    BY <1>1, <2>1 DEF FileInv
<1>4. \A b \in BrokerIds : Sent(b)' => file'[orders'[b].client].status # "none"
  BY DEF FileInv, Sent
<1>5. \A c \in ClientIds : file'[c].status \in TerminalStatuses => EndsAs(c, file[c])'
  BY DEF FileInv, EndsAs, Matches, Visible
<1>6. QED
  BY <1>2, <1>3, <1>4, <1>5 DEF FileInv

LEMMA FileEnds ==
  ASSUME ExecInv, FileInv, NEW w \in Workers, NEW r \in Worker, Becomes(w, r),
         UNCHANGED <<file, orders>>, r.step \in {"idle", "load", "reply"}
  PROVE  FileInv'
  BY FileStays DEF WriterOK, OpenRecord, Locked, LockedSteps

LEMMA ReplyEnds ==
  ASSUME ExecInv, FileInv, NEW w \in Workers, NEW s \in RowStatuses,
         Reply(w, s) \/ Abort(w) \/ GivesUp(w, s), UNCHANGED <<file, orders>>
  PROVE  FileInv'
<1>1. CASE Reply(w, s)
  <2> DEFINE r == [wk[w] EXCEPT !.step = "reply", !.result = s]
  <2>1. r \in Worker /\ r.step = "reply"
    BY WorkerFacts DEF Worker, Steps
  <2>2. Becomes(w, r)
    BY <1>1 DEF Reply
  <2> HIDE DEF r
  <2>3. QED
    BY <2>1, <2>2, FileEnds
<1>2. CASE Abort(w)
  <2>1. IdleWorker \in Worker /\ IdleWorker.step = "idle" /\ Becomes(w, IdleWorker)
    BY <1>2, IdleIsOK DEF Abort, IdleWorker
  <2>2. QED
    BY <2>1, FileEnds
<1>3. QED
  BY <1>1, <1>2 DEF GivesUp

\* A request in the lock moves on with all it holds.
LEMMA FileGoTo ==
  ASSUME ExecInv, FileInv, NEW w \in Workers, NEW s \in Steps \ {"idle", "load", "reply", "save"},
         GoTo(w, s), UNCHANGED <<file, orders>>,
         Locked(wk[w]),
         s \in {"submit", "send"} => wk[w].step \in {"submit", "send"},
         s \in {"sent", "ambiguous", "mark"} => OpenRecord(wk[w])
  PROVE  FileInv'
<1> DEFINE r == [wk[w] EXCEPT !.step = s]
<1>1. /\ r \in Worker /\ r.step = s /\ r.client = wk[w].client /\ r.mem = wk[w].mem
      /\ wk[w] \in Worker
  BY WorkerFacts DEF Worker
<1>2. Becomes(w, r)
  BY DEF GoTo
<1> HIDE DEF r
<1>3. WriterOK(wk[w])
  BY <1>1 DEF FileInv
<1>4. OpenRecord(r) => OpenRecord(wk[w])
  BY <1>1 DEF OpenRecord
<1>5. WriterOK(r)
  BY <1>1, <1>3, <1>4 DEF WriterOK, Locked, LockedSteps
<1>6. QED
  BY <1>1, <1>2, <1>5, FileStays

LEMMA FileFinds ==
  ASSUME ExecInv, FileInv, NEW w \in Workers, NEW p \in {"fresh", "claimed", "ambiguous"},
         Finds(w, p), UNCHANGED <<file, orders>>, Locked(wk[w]),
         p = "ambiguous" => OpenRecord(wk[w])
  PROVE  FileInv'
<1>1. PICK b \in Matches(wk[w].client) :
        Becomes(w, [wk[w] EXCEPT !.step = "save", !.path = p,
                                 !.found = orders[b].status, !.foundFilled = orders[b].filled])
  BY DEF Finds
<1> DEFINE r == [wk[w] EXCEPT !.step = "save", !.path = p,
                              !.found = orders[b].status, !.foundFilled = orders[b].filled]
<1>2. orders[b].status \in BookStatuses /\ orders[b].filled \in Nat
  BY DEF Matches, Visible, ExecInv, TypeOK, Order
<1>3. /\ r \in Worker /\ r.step = "save" /\ r.client = wk[w].client /\ r.mem = wk[w].mem
      /\ r.path = p /\ r.found = orders[b].status /\ r.foundFilled = orders[b].filled
      /\ wk[w] \in Worker
  BY <1>2, WorkerFacts DEF Worker, Steps
<1>4. Becomes(w, r)
  BY <1>1
<1> HIDE DEF r
<1>5. PICK c \in ClientIds : c = wk[w].client
  BY WorkerFacts DEF WorkerOK, Locked, LockedSteps
<1>6. WriterOK(wk[w])
  BY <1>3 DEF FileInv
<1>7. file[c].status \in TerminalStatuses => file[c] = RecordOf(r.found, r.foundFilled)
  <2>1. SUFFICES ASSUME file[c].status \in TerminalStatuses
                 PROVE  file[c] = RecordOf(r.found, r.foundFilled)
    OBVIOUS
  <2>2. PICK d \in Matches(c) : file[c] = RecordOf(orders[d].status, orders[d].filled)
    BY <2>1 DEF FileInv, EndsAs
  <2>3. d = b
    BY <1>5, <2>2 DEF ExecInv, AtMostOneOrder, Matches, Visible, Sent, BookStatuses
  <2>4. QED
    BY <1>3, <2>2, <2>3
<1>8. r.found \in TerminalStatuses => EndsAs(c, RecordOf(r.found, r.foundFilled))
  BY <1>3, <1>5 DEF EndsAs
<1>9. WriterOK(r)
  <2>1. \A d \in ClientIds \ {r.client} : r.mem[d] = file[d]
    BY <1>3, <1>6 DEF WriterOK, Locked, LockedSteps
  <2>2. OpenRecord(r) => file[r.client].status \notin TerminalStatuses
    BY <1>3, <1>6 DEF WriterOK, OpenRecord
  <2>3. QED
    BY <1>3, <1>5, <1>7, <1>8, <2>1, <2>2 DEF WriterOK
<1>10. QED
  BY <1>3, <1>4, <1>9, FileStays

\* The request in the lock saves its copy of the file with the record x of its own.
LEMMA FileWrites ==
  ASSUME OneWriter, ExecInv, FileInv, NEW w \in Workers, NEW r \in Worker, NEW x \in Record,
         Locked(wk[w]), Becomes(w, r), r.client = wk[w].client,
         file' = WithRecord(w, x), UNCHANGED orders,
         x.status # "none",
         x.status \in TerminalStatuses => EndsAs(wk[w].client, x),
         \/ r.step = "submit" /\ x.status \notin TerminalStatuses
         \/ r.step \in {"settle", "reply"},
         r.step # "reply" => r.mem = WithRecord(w, x)
  PROVE  FileInv'
<1>1. \A v \in Workers : wk'[v] = IF v = w THEN r ELSE wk[v]
  BY DEF Becomes, ExecInv, TypeOK
<1>2. PICK c \in ClientIds : c = wk[w].client
  BY WorkerFacts DEF WorkerOK, Locked, LockedSteps
<1>3. /\ file'[c] = x
      /\ \A d \in ClientIds \ {c} : file'[d] = file[d]
  <2>1. wk[w] \in Worker /\ WriterOK(wk[w])
    BY WorkerFacts DEF FileInv
  <2>2. \A d \in ClientIds \ {c} : wk[w].mem[d] = file[d]
    BY <1>2, <2>1 DEF WriterOK, Locked, LockedSteps
  <2>3. QED
    BY <1>2, <2>1, <2>2 DEF WithRecord, Worker, Files
<1>4. \A u, v \in Workers : Locked(wk[u])' /\ Locked(wk[v])' => u = v
  BY <1>1 DEF FileInv, Locked
<1>5. \A v \in Workers, q \in Worker : wk'[v] = q => WriterOK(q)'
  <2>1. SUFFICES ASSUME NEW v \in Workers, NEW q \in Worker, wk'[v] = q PROVE WriterOK(q)'
    OBVIOUS
  <2>2. CASE v = w
    <3>1. q = r
      BY <1>1, <2>1, <2>2
    <3>2. ~OpenRecord(q) \/ (q.step = "submit" /\ x.status \notin TerminalStatuses)
      BY <3>1 DEF OpenRecord
    <3>3. q.step \notin {"idle", "load", "reply"} => q.mem = file'
      BY <3>1
    <3>4. QED
      BY <1>2, <1>3, <3>1, <3>2, <3>3 DEF WriterOK, OpenRecord
  <2>3. CASE v # w
    <3>1. q = wk[v] /\ ~Locked(q)
      BY <1>1, <2>1, <2>3 DEF FileInv
    <3>2. q.step \notin LockedSteps /\ q.step \in Steps
      BY <3>1 DEF Locked, Worker
    <3>3. q.step \notin {"idle", "load", "reply"} => q.client \in ClientIds
      BY <3>1, WorkerFacts DEF WorkerOK
    <3>4. q.step \notin {"idle", "load", "reply"} =>
            \A d \in ClientIds \ {q.client} : q.mem[d] = file'[d]
      BY <2>3, <3>3 DEF OneWriter
    <3>5. q.step \notin {"submit", "send", "sent", "ambiguous", "mark", "save"}
      BY <3>2 DEF LockedSteps, Steps
    <3>6. QED
      BY <3>4, <3>5 DEF WriterOK, OpenRecord
  <2>4. QED
    BY <2>2, <2>3
<1>6. \A b \in BrokerIds : Sent(b)' => file'[orders'[b].client].status # "none"
  <2>1. SUFFICES ASSUME NEW b \in BrokerIds, Sent(b) PROVE file'[orders[b].client].status # "none"
    BY DEF Sent
  <2>2. orders[b].client \in ClientIds /\ file[orders[b].client].status # "none"
    BY <2>1 DEF ExecInv, OrderOK, FileInv
  <2>3. QED
    BY <1>3, <2>2
<1>7. \A d \in ClientIds : file'[d].status \in TerminalStatuses => EndsAs(d, file[d])'
  <2>1. SUFFICES ASSUME NEW d \in ClientIds, file'[d].status \in TerminalStatuses
                 PROVE  EndsAs(d, file[d])'
    OBVIOUS
  <2>2. EndsAs(d, file'[d])
    BY <1>2, <1>3, <2>1 DEF FileInv
  <2>3. QED
    BY <2>2 DEF EndsAs, Matches, Visible
<1>8. QED
  BY <1>4, <1>5, <1>6, <1>7 DEF FileInv

\* What a request saves of an order that is over is what the file holds already.
LEMMA FileKeepsEnds ==
  ASSUME ExecInv, FileInv, NEW w \in Workers, NEW x \in Record, Locked(wk[w]),
         file' = WithRecord(w, x),
         file[wk[w].client].status \in TerminalStatuses => x = file[wk[w].client]
  PROVE  \A c \in ClientIds : file[c].status \in TerminalStatuses => file'[c] = file[c]
<1>1. PICK c \in ClientIds : c = wk[w].client
  BY WorkerFacts DEF WorkerOK, Locked, LockedSteps
<1>2. wk[w] \in Worker /\ WriterOK(wk[w])
  BY WorkerFacts DEF FileInv
<1>3. \A d \in ClientIds \ {c} : wk[w].mem[d] = file[d]
  BY <1>1, <1>2 DEF WriterOK, Locked, LockedSteps
<1>4. QED
  BY <1>1, <1>2, <1>3 DEF WithRecord, Worker, Files

EndsStay == \A c \in ClientIds : file[c].status \in TerminalStatuses => file'[c] = file[c]

LEMMA SaveIntentWrites ==
  ASSUME OneWriter, ExecInv, FileInv, NEW w \in Workers, SaveIntent(w)
  PROVE  FileInv' /\ EndsStay
<1> DEFINE x == [status |-> "SUBMISSION_INTENT", filled |-> 0]
           r == [wk[w] EXCEPT !.step = "submit", !.mem = WithRecord(w, x)]
<1>1. wk[w].step = "intent" /\ file' = WithRecord(w, x) /\ UNCHANGED orders /\ Becomes(w, r)
  BY DEF SaveIntent, SaveRecord, At
<1>2. x \in Record /\ x.status \notin TerminalStatuses \cup {"none"}
  BY DEF Record, RecordStatuses, TerminalStatuses
<1>3. WithRecord(w, x) \in Files /\ Locked(wk[w])
  BY <1>1, <1>2, WorkerFacts DEF WithRecord, Worker, Files, Locked, LockedSteps, Steps
<1>4. /\ r \in Worker /\ r.step = "submit" /\ r.client = wk[w].client
      /\ r.mem = WithRecord(w, x)
  BY <1>3, WorkerFacts DEF Worker, Steps
<1> HIDE DEF r, x
<1>5. FileInv'
  BY <1>1, <1>2, <1>3, <1>4, FileWrites
<1>6. PICK c \in ClientIds : c = wk[w].client
  BY <1>1, WorkerFacts DEF WorkerOK
<1>7. OrdersOf(c) = {}
  BY <1>1, <1>6, WorkerFacts DEF WorkerOK, Submitting, SubmittingSteps
<1>8. ~\E b \in Matches(c) : TRUE
  BY <1>7 DEF OrdersOf, Matches, Visible, Sent, BookStatuses
<1>9. file[c].status \notin TerminalStatuses
  BY <1>8 DEF FileInv, EndsAs
<1>10. QED
  BY <1>1, <1>2, <1>3, <1>5, <1>6, <1>9, FileKeepsEnds DEF EndsStay

LEMMA SaveRecoveredWrites ==
  ASSUME OneWriter, ExecInv, FileInv, NEW w \in Workers, SaveRecovered(w)
  PROVE  FileInv' /\ EndsStay
<1>1. wk[w].step = "save" /\ UNCHANGED orders /\ Locked(wk[w])
  BY DEF SaveRecovered, At, Locked, LockedSteps, Steps
<1>2. CASE RecoveryFails(w) /\ UNCHANGED file
  <2>1. EndsStay
    BY <1>2 DEF EndsStay
  <2>2. CASE wk[w].path = "ambiguous" /\ GoTo(w, "mark")
    BY <1>1, <1>2, <2>1, <2>2, FileGoTo DEF OpenRecord, Steps
  <2>3. CASE GivesUp(w, "SUBMITTED")
    BY <1>1, <1>2, <2>1, <2>3, ReplyEnds DEF RowStatuses, RecordStatuses
  <2>4. QED
    BY <1>2, <2>2, <2>3 DEF RecoveryFails
<1>3. CASE SaveRecord(w, RecoveredRecord(w), "settle")
  <2> DEFINE x == RecoveredRecord(w)
             r == [wk[w] EXCEPT !.step = "settle", !.mem = WithRecord(w, x)]
  <2>1. x = RecordOf(wk[w].found, wk[w].foundFilled) /\ x \in Record
    BY <1>1, RecoveredIsOK DEF RecoveredRecord, RecordOf
  <2>2. wk[w] \in Worker /\ WriterOK(wk[w]) /\ wk[w].found \in BookStatuses
    BY <1>1, WorkerFacts DEF FileInv, WorkerOK, FoundOK
  <2>3. x.status # "none" /\ (x.status \in TerminalStatuses => wk[w].found \in TerminalStatuses)
    BY <2>1, <2>2 DEF RecordOf, MapBrokerStatus, BookStatuses, TerminalStatuses
  <2>4. WithRecord(w, x) \in Files
    BY <2>1, <2>2 DEF WithRecord, Worker, Files
  <2>5. /\ r \in Worker /\ r.step = "settle" /\ r.client = wk[w].client
        /\ r.mem = WithRecord(w, x)
    BY <2>2, <2>4 DEF Worker, Steps
  <2>6. file' = WithRecord(w, x) /\ Becomes(w, r)
    BY <1>3 DEF SaveRecord
  <2> HIDE DEF r, x
  <2>7. x.status \in TerminalStatuses => EndsAs(wk[w].client, x)
    BY <1>1, <2>1, <2>2, <2>3 DEF WriterOK
  <2>8. FileInv'
    BY <1>1, <2>1, <2>3, <2>5, <2>6, <2>7, FileWrites
  <2>9. file[wk[w].client].status \in TerminalStatuses => x = file[wk[w].client]
    BY <1>1, <2>1, <2>2 DEF WriterOK
  <2>10. EndsStay
    BY <1>1, <2>1, <2>6, <2>9, FileKeepsEnds DEF EndsStay
  <2>11. QED
    BY <2>8, <2>10
<1>4. QED
  BY <1>2, <1>3 DEF SaveRecovered

LEMMA MarkWrites ==
  ASSUME OneWriter, ExecInv, FileInv, NEW w \in Workers, MarkSubmitted(w)
  PROVE  FileInv' /\ EndsStay
<1> DEFINE x == [status |-> "SUBMITTED", filled |-> 0]
           r == [wk[w] EXCEPT !.step = "reply", !.result = "SUBMITTED"]
<1>1. /\ wk[w].step = "mark" /\ file' = WithRecord(w, x) /\ UNCHANGED orders /\ Becomes(w, r)
      /\ Locked(wk[w])
  BY DEF MarkSubmitted, Reply, At, Locked, LockedSteps, Steps
<1>2. x \in Record /\ x.status \notin TerminalStatuses \cup {"none"}
  BY DEF Record, RecordStatuses, TerminalStatuses
<1>3. wk[w] \in Worker /\ WriterOK(wk[w]) /\ "SUBMITTED" \in RowStatuses
  BY WorkerFacts DEF FileInv, RowStatuses, RecordStatuses
<1>4. r \in Worker /\ r.step = "reply" /\ r.client = wk[w].client
  BY <1>3 DEF Worker, Steps
<1> HIDE DEF r, x
<1>5. FileInv'
  BY <1>1, <1>2, <1>4, FileWrites
<1>6. file[wk[w].client].status \notin TerminalStatuses
  BY <1>1, <1>3 DEF WriterOK, OpenRecord
<1>7. QED
  BY <1>1, <1>2, <1>5, <1>6, FileKeepsEnds DEF EndsStay

-----------------------------------------------------------------------------

LEMMA EarlyRequestsFile ==
  ASSUME OneWriter, ExecInv, FileInv, NEW w \in Workers,
         LoadLifecycle(w) \/ Authorize(w) \/ ReserveRisk(w) \/ Claim(w)
  PROVE  FileInv'
<1>1. UNCHANGED <<file, orders>> /\ wk[w].step \in {"load", "authorize", "reserve", "claim"}
  BY DEF LoadLifecycle, MayExecute, Authorize, ReserveRisk, ReservesDurably, Claim, At, stores
<1>2. wk[w] \in Worker /\ WriterOK(wk[w]) /\ file \in Files
  BY WorkerFacts DEF FileInv, ExecInv, TypeOK
<1>3. PICK c \in ClientIds : c = wk[w].client
  BY <1>1, WorkerFacts DEF WorkerOK
<1>4. {"REJECTED", "SUBMITTED", wk[w].mem[c].status} \subseteq RowStatuses
  BY <1>2 DEF Worker, Files, Record, RowStatuses, RecordStatuses, TerminalStatuses
<1>5. ASSUME NEW s \in RowStatuses, Reply(w, s) \/ GivesUp(w, s) PROVE FileInv'
  BY <1>1, <1>5, ReplyEnds
<1>6. CASE LoadLifecycle(w)
  <2>1. CASE Becomes(w, [wk[w] EXCEPT !.step = "authorize", !.mem = file])
    <3> DEFINE r == [wk[w] EXCEPT !.step = "authorize", !.mem = file]
    <3>1. r \in Worker /\ r.step = "authorize" /\ r.mem = file
      BY <1>2 DEF Worker, Steps
    <3>2. Becomes(w, r)
      BY <2>1
    <3> HIDE DEF r
    <3>3. WriterOK(r) /\ ~Locked(r)
      BY <3>1 DEF WriterOK, OpenRecord, Locked, LockedSteps
    <3>4. QED
      BY <1>1, <3>1, <3>2, <3>3, FileStays
  <2>2. QED
    BY <1>4, <1>5, <1>6, <2>1 DEF LoadLifecycle, MayExecute
<1>7. CASE Authorize(w)
  <2>1. ASSUME NEW e \in 0..MaxTotalExposure,
               Becomes(w, [wk[w] EXCEPT !.step = "reserve", !.exposure = e])
        PROVE  FileInv'
    <3> DEFINE r == [wk[w] EXCEPT !.step = "reserve", !.exposure = e]
    <3>0. e \in Nat
      BY <2>1
    <3>1. wk[w].step = "authorize"
      BY <1>7 DEF Authorize, At
    <3>2. /\ r \in Worker /\ r.step = "reserve" /\ r.mem = wk[w].mem
          /\ r.client = wk[w].client
      BY <1>2, <3>0 DEF Worker, Steps
    <3>3. Becomes(w, r)
      BY <2>1
    <3> HIDE DEF r
    <3>4. WriterOK(r)
      BY <1>2, <3>1, <3>2 DEF WriterOK, OpenRecord
    <3>5. \A v \in Workers : ProcessOf[v] = ProcessOf[w] => ~Locked(wk[v])
      BY <1>7 DEF Authorize, LockFree, Locked
    <3>6. \A v \in Workers : ~Locked(wk[v])
      BY <3>5 DEF OneWriter
    <3>7. QED
      BY <1>1, <3>2, <3>3, <3>4, <3>6, FileStays
  <2>2. QED
    BY <1>4, <1>5, <1>7, <2>1 DEF Authorize
<1>8. CASE ReserveRisk(w)
  <2>1. CASE GoTo(w, "claim")
    <3>1. Locked(wk[w])
      BY <1>8 DEF ReserveRisk, ReservesDurably, At, Locked, LockedSteps, Steps
    <3>2. QED
      BY <1>1, <2>1, <3>1, FileGoTo DEF Steps
  <2>2. QED
    BY <1>4, <1>5, <1>8, <2>1 DEF ReserveRisk, ReservesDurably
<1>9. CASE Claim(w)
  <2>1. Locked(wk[w]) /\ wk[w].step = "claim"
    BY <1>9 DEF Claim, At, Locked, LockedSteps, Steps
  <2>2. CASE GoTo(w, "find")
    BY <1>1, <2>1, <2>2, FileGoTo DEF Steps
  <2>3. CASE Becomes(w, [wk[w] EXCEPT !.step = "refind", !.path = "claimed"])
    <3> DEFINE r == [wk[w] EXCEPT !.step = "refind", !.path = "claimed"]
    <3>1. /\ r \in Worker /\ r.step = "refind" /\ r.mem = wk[w].mem
          /\ r.client = wk[w].client
      BY <1>2 DEF Worker, Steps
    <3>2. Becomes(w, r)
      BY <2>3
    <3> HIDE DEF r
    <3>3. WriterOK(r)
      BY <1>2, <2>1, <3>1 DEF WriterOK, OpenRecord
    <3>4. QED
      BY <1>1, <2>1, <3>1, <3>2, <3>3, FileStays
  <2>4. QED
    BY <1>3, <1>4, <1>5, <1>9, <2>2, <2>3 DEF Claim
<1>10. QED
  BY <1>6, <1>7, <1>8, <1>9

LEMMA LateRequestsFile ==
  ASSUME ExecInv, FileInv, NEW w \in Workers,
         \/ FindClaimed(w) \/ FindFresh(w) \/ RouterChecks(w) \/ SubmitRaises(w)
         \/ FindAmbiguous(w) \/ SettleRisk(w) \/ Finalize(w)
  PROVE  FileInv'
<1>1. UNCHANGED <<file, orders>> /\ Locked(wk[w])
  BY DEF FindClaimed, FindFresh, RouterChecks, SubmitRaises, FindAmbiguous, SettleRisk,
         Finalize, At, Locked, LockedSteps, Steps, stores
<1>2. "SUBMITTED" \in RowStatuses
  BY DEF RowStatuses, RecordStatuses
<1>3. CASE FindClaimed(w)
  BY <1>1, <1>2, <1>3, FileFinds, ReplyEnds DEF FindClaimed
<1>4. CASE FindFresh(w)
  BY <1>1, <1>4, FileFinds, FileGoTo DEF FindFresh, Steps
<1>5. CASE RouterChecks(w)
  BY <1>1, <1>5, FileGoTo DEF RouterChecks, At, OpenRecord, Steps
<1>6. CASE SubmitRaises(w)
  BY <1>1, <1>6, FileGoTo DEF SubmitRaises, At, OpenRecord, Steps
<1>7. CASE FindAmbiguous(w)
  <2>1. OpenRecord(wk[w])
    BY <1>7 DEF FindAmbiguous, At, OpenRecord
  <2>2. CASE Finds(w, "ambiguous")
    BY <1>1, <2>1, <2>2, FileFinds
  <2>3. CASE GoTo(w, "mark")
    BY <1>1, <2>1, <2>3, FileGoTo DEF Steps
  <2>4. QED
    BY <1>7, <2>2, <2>3 DEF FindAmbiguous
<1>8. CASE SettleRisk(w)
  BY <1>1, <1>8, FileGoTo DEF SettleRisk, Steps
<1>9. CASE Finalize(w)
  <2>1. RecoveredRecord(w).status \in RowStatuses
    BY <1>9, RecoveredIsOK DEF Finalize, At
  <2>2. QED
    BY <1>1, <1>9, <2>1, ReplyEnds DEF Finalize
<1>10. QED
  BY <1>3, <1>4, <1>5, <1>6, <1>7, <1>8, <1>9

LEMMA EndingRequestsFile ==
  ASSUME ExecInv, FileInv, NEW w \in Workers,
         Project(w) \/ StoreFails(w) \/ \E c \in ClientIds : CreateOrder(w, c)
  PROVE  FileInv'
<1>1. UNCHANGED <<file, orders>>
  BY DEF Project, StoreFails, CreateOrder
<1>2. CASE Project(w)
  BY <1>1, <1>2, IdleIsOK, FileEnds DEF Project, IdleWorker
<1>3. CASE StoreFails(w)
  <2>1. "SUBMITTED" \in RowStatuses
    BY DEF RowStatuses, RecordStatuses
  <2>2. Abort(w) \/ GivesUp(w, "SUBMITTED")
    BY <1>3 DEF StoreFails
  <2>3. QED
    BY <1>1, <2>1, <2>2, ReplyEnds
<1>4. ASSUME NEW c \in ClientIds, CreateOrder(w, c) PROVE FileInv'
  <2> DEFINE r == [IdleWorker EXCEPT !.step = "load", !.client = c]
  <2>1. r \in Worker /\ r.step = "load"
    BY IdleIsOK DEF Worker, Steps
  <2>2. Becomes(w, r)
    BY <1>4 DEF CreateOrder
  <2> HIDE DEF r
  <2>3. QED
    BY <1>1, <2>1, <2>2, FileEnds
<1>5. QED
  BY <1>2, <1>3, <1>4

\* The book moves on, but not what is over in it.
LEMMA WriterKeeps ==
  ASSUME UNCHANGED file,
         \A b \in BrokerIds : orders[b].status \in TerminalStatuses => orders'[b] = orders[b],
         NEW r, WriterOK(r)
  PROVE  WriterOK(r)'
<1>1. \A c, x : EndsAs(c, x) => EndsAs(c, x)'
  BY DEF EndsAs, Matches, Visible
<1>2. QED
  BY <1>1 DEF WriterOK

LEMMA EndsKept ==
  ASSUME FileInv, UNCHANGED file,
         \A b \in BrokerIds : orders[b].status \in TerminalStatuses => orders'[b] = orders[b]
  PROVE  \A c \in ClientIds : file'[c].status \in TerminalStatuses => EndsAs(c, file[c])'
  BY DEF FileInv, EndsAs, Matches, Visible

LEMMA SendOrderFile ==
  ASSUME ExecInv, FileInv, NEW w \in Workers, SendOrder(w) PROVE FileInv'
<1>1. wk[w].step = "send" /\ GoTo(w, "sent") /\ UNCHANGED file
  BY DEF SendOrder, At
<1> DEFINE r == [wk[w] EXCEPT !.step = "sent"]
<1>2. /\ r \in Worker /\ r.step = "sent" /\ r.client = wk[w].client /\ r.mem = wk[w].mem
      /\ wk[w] \in Worker
  BY WorkerFacts DEF Worker, Steps
<1>3. \A v \in Workers : wk'[v] = IF v = w THEN r ELSE wk[v]
  BY <1>1 DEF GoTo, Becomes, ExecInv, TypeOK
<1> HIDE DEF r
<1>4. \A b \in BrokerIds :
        \/ orders'[b] = orders[b]
        \/ ~Sent(b) /\ orders'[b].client = wk[w].client
  BY DEF SendOrder, Send, ExecInv, TypeOK
<1>5. \A b \in BrokerIds : orders[b].status \in TerminalStatuses => orders'[b] = orders[b]
  BY <1>4 DEF Sent, TerminalStatuses
<1>6. WriterOK(wk[w])
  BY <1>2 DEF FileInv
<1>7. WriterOK(r)
  BY <1>1, <1>2, <1>6 DEF WriterOK, OpenRecord
<1>8. \A u, v \in Workers : Locked(wk[u])' /\ Locked(wk[v])' => u = v
  <2>1. \A v \in Workers : Locked(wk[v])' => Locked(wk[v])
    BY <1>1, <1>3 DEF Locked, LockedSteps, Steps
  <2>2. QED
    BY <2>1 DEF FileInv
<1>9. \A v \in Workers, q \in Worker : wk'[v] = q => WriterOK(q)'
  <2>1. \A q : WriterOK(q) => WriterOK(q)'
    BY <1>1, <1>5, WriterKeeps
  <2>2. QED
    BY <1>3, <1>7, <2>1 DEF FileInv
<1>10. \A b \in BrokerIds : Sent(b)' => file'[orders'[b].client].status # "none"
  <2>1. file[wk[w].client].status # "none"
    BY <1>1, <1>6 DEF WriterOK
  <2>2. QED
    BY <1>1, <1>4, <2>1 DEF FileInv, Sent
<1>11. QED
  BY <1>1, <1>5, <1>8, <1>9, <1>10, EndsKept DEF FileInv

\* Requests end and orders move on.
LEMMA RestFile ==
  ASSUME FileInv, UNCHANGED file,
         \A w \in Workers : wk'[w] = wk[w] \/ wk'[w] = IdleWorker,
         \A b \in BrokerIds : orders'[b].client = orders[b].client /\ (Sent(b)' => Sent(b)),
         \A b \in BrokerIds : orders[b].status \in TerminalStatuses => orders'[b] = orders[b]
  PROVE  FileInv'
<1>1. IdleWorker.step = "idle"
  BY DEF IdleWorker
<1>2. \A u, v \in Workers : Locked(wk[u])' /\ Locked(wk[v])' => u = v
  BY <1>1 DEF FileInv, Locked, LockedSteps
<1>3. \A v \in Workers, q \in Worker : wk'[v] = q => WriterOK(q)'
  <2>1. \A q : WriterOK(q) => WriterOK(q)'
    BY WriterKeeps
  <2>2. \A q : q.step = "idle" => WriterOK(q)
    BY DEF WriterOK, OpenRecord
  <2>3. QED
    BY <1>1, <2>1, <2>2 DEF FileInv
<1>4. \A b \in BrokerIds : Sent(b)' => file'[orders'[b].client].status # "none"
  BY DEF FileInv
<1>5. QED
  BY <1>2, <1>3, <1>4, EndsKept DEF FileInv

LEMMA BrokerStepFile ==
  ASSUME ExecInv, FileInv, NEW b \in BrokerIds, BrokerStep(b) PROVE FileInv'
<1>1. BookStep(b) /\ UNCHANGED <<file, wk>>
  BY DEF BrokerStep
<1>2. /\ orders[b].status \in {"inflight", "NEW", "PARTIALLY_FILLED"}
      /\ orders'[b].client = orders[b].client
      /\ \A d \in BrokerIds \ {b} : orders'[d] = orders[d]
  BY <1>1 DEF BookStep, Receive, FillOne, Cancel, SetOrder, ExecInv, TypeOK, Order
<1>3. QED
  BY <1>1, <1>2, RestFile DEF Sent, TerminalStatuses

LEMMA SystemStepFile ==
  ASSUME FileInv, NEW p, EmergencyHalt(p) \/ Restart(p) \/ UNCHANGED vars PROVE FileInv'
<1>1. UNCHANGED <<file, orders>> /\ \A w \in Workers : wk'[w] = wk[w] \/ wk'[w] = IdleWorker
  BY DEF EmergencyHalt, Restart, vars, stores
<1>2. QED
  BY <1>1, RestFile DEF Sent

LEMMA FilePreserved ==
  OneWriter /\ ExecInv /\ FileInv /\ [Next]_vars => FileInv' /\ [EndsStay]_file
<1> SUFFICES ASSUME OneWriter, ExecInv, FileInv, [Next]_vars PROVE FileInv' /\ [EndsStay]_file
  OBVIOUS
<1>1. ASSUME NEW w \in Workers, SaveIntent(w) \/ SaveRecovered(w) \/ MarkSubmitted(w)
      PROVE  FileInv' /\ [EndsStay]_file
  BY <1>1, SaveIntentWrites, SaveRecoveredWrites, MarkWrites
<1>2. ASSUME NEW w \in Workers,
             \/ LoadLifecycle(w) \/ Authorize(w) \/ ReserveRisk(w) \/ Claim(w)
             \/ FindClaimed(w) \/ FindFresh(w) \/ RouterChecks(w) \/ SubmitRaises(w)
             \/ FindAmbiguous(w) \/ SettleRisk(w) \/ Finalize(w)
             \/ SendOrder(w)
             \/ Project(w) \/ StoreFails(w) \/ \E c \in ClientIds : CreateOrder(w, c)
      PROVE  FileInv' /\ [EndsStay]_file
  <2>1. UNCHANGED file
    BY <1>2 DEF LoadLifecycle, MayExecute, Authorize, ReserveRisk, ReservesDurably, Claim, FindClaimed, FindFresh,
       RouterChecks, SubmitRaises, FindAmbiguous, SettleRisk, Finalize, SendOrder, Project,
       StoreFails, CreateOrder, stores
  <2>2. FileInv'
    BY <1>2, EarlyRequestsFile, LateRequestsFile, SendOrderFile, EndingRequestsFile
  <2>3. QED
    BY <2>1, <2>2
<1>3. ASSUME NEW p \in Processes, EmergencyHalt(p) \/ Restart(p) PROVE FileInv' /\ UNCHANGED file
  BY <1>3, SystemStepFile DEF EmergencyHalt, Restart
<1>4. ASSUME NEW b \in BrokerIds, BrokerStep(b) PROVE FileInv' /\ UNCHANGED file
  BY <1>4, BrokerStepFile DEF BrokerStep
<1>5. CASE UNCHANGED vars
  BY <1>5, SystemStepFile DEF vars, stores
<1>6. QED
  BY <1>1, <1>2, <1>3, <1>4, <1>5 DEF Next, WorkerStep

LEMMA FileInvariant == ASSUME OneWriter PROVE Spec => [](ExecInv /\ FileInv)
<1>1. Init => ExecInv /\ FileInv
  BY InitExecInv, FileInitially
<1>2. (ExecInv /\ FileInv) /\ [Next]_vars => (ExecInv /\ FileInv)'
  BY StepPreserves, FilePreserved
<1>3. QED
  BY <1>1, <1>2, PTL DEF Spec

\* With one writer of the execution-state file, every order that left for the broker has a
\* record in it that a startup can notice (execution_persistence.py:15), across crashes,
\* failed saves and retries. exec_lost_update shows that two writers break this.
THEOREM SentOrdersAreRecordedCorrect ==
  ASSUME OneWriter PROVE Spec => []SentOrdersAreRecorded
<1>1. FileInv => SentOrdersAreRecorded
  BY DEF FileInv, SentOrdersAreRecorded
<1>2. QED
  BY <1>1, FileInvariant, PTL

\* With one writer no retry, failed settlement or restart reopens or rewrites a record with
\* a final status (order_state_machine.py).
THEOREM FinalRecordsStayCorrect ==
  ASSUME OneWriter PROVE Spec => FinalRecordsStay
<1>1. ExecInv /\ FileInv /\ [Next]_vars => [EndsStay]_file
  BY FilePreserved
<1>2. QED
  BY <1>1, FileInvariant, PTL DEF Spec, FinalRecordsStay, EndsStay

-----------------------------------------------------------------------------
(* Exposure: what active reservations hold, and what was sent.              *)

ActiveIn(R) == {c \in DOMAIN R : R[c].status = "ACTIVE"}
AmountOf(R) == SumFunction([c \in ActiveIn(R) |-> R[c].amount])

\* The values of sums are numbers, and those of parts are no more.
LEMMA SumOfNumbers ==
  ASSUME NEW S, IsFiniteSet(S), NEW f, \A x \in S : f[x] \in Nat
  PROVE  SumFunctionOnSet(f, S) \in Nat
<1>1. SumFunctionOnSet(f, {}) <= SumFunctionOnSet(f, S)
  BY SumOfPart
<1>2. SumFunctionOnSet(f, S) \in Int
  BY SumType
<1>3. QED
  BY <1>1, <1>2, SumEmpty

\* A sum over a set, whatever function gives the values of the set.
LEMMA SumOn ==
  ASSUME NEW S, IsFiniteSet(S), NEW f, \A x \in S : f[x] \in Nat
  PROVE  SumFunction([x \in S |-> f[x]]) = SumFunctionOnSet(f, S)
<1> DEFINE g == [x \in S |-> f[x]]
<1>1. DOMAIN g = S /\ \A x \in S : f[x] \in Int /\ g[x] = f[x]
  OBVIOUS
<1>2. SumFunctionOnSet(g, S) = SumFunctionOnSet(f, S)
  BY <1>1, SumOfEqual
<1>3. QED
  BY <1>1, <1>2 DEF SumFunction

LEMMA AmountIs ==
  ASSUME NEW C, IsFiniteSet(C), NEW R \in [C -> Reservation]
  PROVE  LET f == [c \in C |-> R[c].amount] IN
         /\ f \in [C -> Nat]
         /\ ActiveIn(R) \subseteq C /\ IsFiniteSet(ActiveIn(R))
         /\ AmountOf(R) = SumFunctionOnSet(f, ActiveIn(R))
<1> DEFINE f == [c \in C |-> R[c].amount]
<1>1. f \in [C -> Nat]
  BY DEF Reservation
<1>2. ActiveIn(R) \subseteq C /\ IsFiniteSet(ActiveIn(R))
  BY FS_Subset DEF ActiveIn
<1>3. [c \in ActiveIn(R) |-> R[c].amount] = [c \in ActiveIn(R) |-> f[c]]
  BY <1>2
<1> HIDE DEF f
<1>4. AmountOf(R) = SumFunctionOnSet(f, ActiveIn(R))
  BY <1>1, <1>2, <1>3, SumOn DEF AmountOf
<1>5. QED
  BY <1>1, <1>2, <1>4 DEF f

LEMMA AmountType ==
  ASSUME NEW C, IsFiniteSet(C), NEW R \in [C -> Reservation]
  PROVE  AmountOf(R) \in Nat
<1> DEFINE f == [c \in C |-> R[c].amount]
<1>1. /\ f \in [C -> Nat]
      /\ ActiveIn(R) \subseteq C /\ IsFiniteSet(ActiveIn(R))
      /\ AmountOf(R) = SumFunctionOnSet(f, ActiveIn(R))
  BY AmountIs
<1> HIDE DEF f
<1>2. QED
  BY <1>1, SumOfNumbers

\* A new reservation adds its amount.
LEMMA AmountAdds ==
  ASSUME NEW C, IsFiniteSet(C), NEW R \in [C -> Reservation], NEW Q \in [C -> Reservation],
         NEW c \in C, NEW a \in Nat, R[c].status # "ACTIVE",
         Q[c] = [status |-> "ACTIVE", amount |-> a], \A d \in C \ {c} : Q[d] = R[d]
  PROVE  AmountOf(Q) = AmountOf(R) + a
<1> DEFINE f == [d \in C |-> R[d].amount]
           g == [d \in C |-> Q[d].amount]
<1>1. /\ f \in [C -> Nat]
      /\ ActiveIn(R) \subseteq C /\ IsFiniteSet(ActiveIn(R))
      /\ AmountOf(R) = SumFunctionOnSet(f, ActiveIn(R))
  BY AmountIs
<1>2. g \in [C -> Nat] /\ AmountOf(Q) = SumFunctionOnSet(g, ActiveIn(Q))
  BY AmountIs
<1>3. ActiveIn(Q) = ActiveIn(R) \cup {c} /\ c \notin ActiveIn(R)
  BY DEF ActiveIn
<1>4. g[c] = a /\ \A d \in ActiveIn(R) : g[d] = f[d]
  BY <1>1, <1>3
<1> HIDE DEF f, g
<1>5. \A d \in ActiveIn(R) \cup {c} : g[d] \in Int
  BY <1>1, <1>2
<1>6. SumFunctionOnSet(g, ActiveIn(Q)) = a + SumFunctionOnSet(g, ActiveIn(R))
  BY <1>1, <1>3, <1>4, <1>5, SumAdds
<1>7. \A d \in ActiveIn(R) : f[d] \in Int /\ g[d] = f[d]
  BY <1>1, <1>4
<1>8. SumFunctionOnSet(g, ActiveIn(R)) = SumFunctionOnSet(f, ActiveIn(R))
  BY <1>1, <1>7, SumOfEqual
<1>9. SumFunctionOnSet(f, ActiveIn(R)) \in Nat
  BY <1>1, SumOfNumbers
<1>10. QED
  BY <1>1, <1>2, <1>6, <1>8, <1>9

\* Reservations that are released or shrink hold no more.
LEMMA AmountShrinks ==
  ASSUME NEW C, IsFiniteSet(C), NEW R \in [C -> Reservation], NEW Q \in [C -> Reservation],
         \A c \in C : Q[c].status = "ACTIVE" =>
           R[c].status = "ACTIVE" /\ Q[c].amount <= R[c].amount
  PROVE  ActiveIn(Q) \subseteq ActiveIn(R) /\ AmountOf(Q) <= AmountOf(R)
<1> DEFINE f == [d \in C |-> R[d].amount]
           g == [d \in C |-> Q[d].amount]
<1>1. /\ f \in [C -> Nat]
      /\ ActiveIn(R) \subseteq C /\ IsFiniteSet(ActiveIn(R))
      /\ AmountOf(R) = SumFunctionOnSet(f, ActiveIn(R))
  BY AmountIs
<1>2. /\ g \in [C -> Nat]
      /\ ActiveIn(Q) \subseteq C /\ IsFiniteSet(ActiveIn(Q))
      /\ AmountOf(Q) = SumFunctionOnSet(g, ActiveIn(Q))
  BY AmountIs
<1>3. ActiveIn(Q) \subseteq ActiveIn(R)
  BY DEF ActiveIn
<1>4. \A d \in ActiveIn(Q) : g[d] <= f[d]
  BY DEF ActiveIn
<1> HIDE DEF f, g
<1>5. \A d \in ActiveIn(Q) : g[d] \in Int /\ f[d] \in Int /\ g[d] <= f[d]
  BY <1>1, <1>2, <1>4
<1>6. SumFunctionOnSet(g, ActiveIn(Q)) <= SumFunctionOnSet(f, ActiveIn(Q))
  BY <1>2, <1>5, SumGrows
<1>7. SumFunctionOnSet(f, ActiveIn(Q)) <= SumFunctionOnSet(f, ActiveIn(R))
  BY <1>1, <1>3, SumOfPart
<1>8. /\ SumFunctionOnSet(g, ActiveIn(Q)) \in Nat
      /\ SumFunctionOnSet(f, ActiveIn(Q)) \in Nat
      /\ SumFunctionOnSet(f, ActiveIn(R)) \in Nat
  BY <1>1, <1>2, SumOfNumbers
<1>9. QED
  BY <1>1, <1>2, <1>3, <1>6, <1>7, <1>8

\* What is fully reserved is part of what the active reservations hold.
LEMMA FullPart ==
  ASSUME NEW C, IsFiniteSet(C), NEW R \in [C -> Reservation], NEW q \in [C -> Nat],
         NEW T \in SUBSET C, \A c \in T : R[c] = [status |-> "ACTIVE", amount |-> q[c]]
  PROVE  T \subseteq ActiveIn(R) /\ SumFunctionOnSet(q, T) <= AmountOf(R)
<1> DEFINE f == [d \in C |-> R[d].amount]
<1>1. /\ f \in [C -> Nat]
      /\ ActiveIn(R) \subseteq C /\ IsFiniteSet(ActiveIn(R))
      /\ AmountOf(R) = SumFunctionOnSet(f, ActiveIn(R))
  BY AmountIs
<1>2. T \subseteq ActiveIn(R) /\ \A c \in T : f[c] = q[c]
  <2>1. ASSUME NEW c \in T PROVE c \in C /\ R[c].status = "ACTIVE" /\ R[c].amount = q[c]
    <3>1. R[c] = [status |-> "ACTIVE", amount |-> q[c]]
      OBVIOUS
    <3>2. QED
      BY <3>1
  <2>2. QED
    BY <2>1 DEF ActiveIn
<1> HIDE DEF f
<1>3. IsFiniteSet(T) /\ \A c \in T : f[c] \in Int /\ q[c] = f[c]
  BY <1>1, <1>2, FS_Subset
<1>4. SumFunctionOnSet(q, T) = SumFunctionOnSet(f, T)
  BY <1>3, SumOfEqual
<1>5. SumFunctionOnSet(f, T) <= SumFunctionOnSet(f, ActiveIn(R))
  BY <1>1, <1>2, SumOfPart
<1>6. QED
  BY <1>1, <1>2, <1>4, <1>5

\* Every order counts for at most the quantity of its own client order id.
LEMMA SumPerClient ==
  ASSUME NEW S, IsFiniteSet(S), NEW C, IsFiniteSet(C), NEW g \in [S -> C],
         \A b, d \in S : g[b] = g[d] => b = d,
         NEW q \in [C -> Nat], NEW f \in [S -> Nat], \A b \in S : f[b] <= q[g[b]]
  PROVE  SumFunctionOnSet(f, S) <= SumFunctionOnSet(q, {g[b] : b \in S})
<1> DEFINE Image(U) == {g[b] : b \in U}
           D == {U \in SUBSET S : SumFunctionOnSet(f, U) <= SumFunctionOnSet(q, Image(U))}
<1>1. {} \in D
  <2>1. Image({}) = {}
    OBVIOUS
  <2>2. SumFunctionOnSet(f, {}) = 0 /\ SumFunctionOnSet(q, {}) = 0
    BY SumEmpty
  <2>3. QED
    BY <2>1, <2>2
<1>2. ASSUME NEW U \in SUBSET S, NEW y \in S \ U, U \in D PROVE U \cup {y} \in D
  <2>1. Image(U \cup {y}) = Image(U) \cup {g[y]} /\ g[y] \notin Image(U)
    OBVIOUS
  <2>2. IsFiniteSet(U) /\ IsFiniteSet(Image(U)) /\ Image(U) \subseteq C
    <3>1. Image(U) \subseteq C
      OBVIOUS
    <3>2. QED
      BY <3>1, FS_Subset
  <2>3. SumFunctionOnSet(f, U) <= SumFunctionOnSet(q, Image(U))
    BY <1>2
  <2> HIDE DEF Image
  <2>4. \A b \in U \cup {y} : f[b] \in Int
    OBVIOUS
  <2>5. SumFunctionOnSet(f, U \cup {y}) = f[y] + SumFunctionOnSet(f, U)
    BY <2>2, <2>4, SumAdds
  <2>6. \A c \in Image(U) \cup {g[y]} : q[c] \in Int
    BY <2>2
  <2>7. SumFunctionOnSet(q, Image(U) \cup {g[y]}) = q[g[y]] + SumFunctionOnSet(q, Image(U))
    BY <2>1, <2>2, <2>6, SumAdds
  <2>8. SumFunctionOnSet(f, U) \in Int /\ SumFunctionOnSet(q, Image(U)) \in Int
    BY <2>2, <2>4, <2>6, SumType
  <2>9. f[y] <= q[g[y]] /\ f[y] \in Nat /\ q[g[y]] \in Nat
    OBVIOUS
  <2>10. SumFunctionOnSet(q, Image(U \cup {y})) = q[g[y]] + SumFunctionOnSet(q, Image(U))
    BY <2>1, <2>7
  <2>11. f[y] + SumFunctionOnSet(f, U) <= q[g[y]] + SumFunctionOnSet(q, Image(U))
    BY <2>3, <2>8, <2>9
  <2>12. SumFunctionOnSet(f, U \cup {y}) <= SumFunctionOnSet(q, Image(U \cup {y}))
    BY <2>5, <2>10, <2>11
  <2>13. QED
    BY <2>12
<1> HIDE DEF D
<1>3. S \in D
  BY <1>1, <1>2, FiniteSetInduction
<1>4. QED
  BY <1>3 DEF D

-----------------------------------------------------------------------------

\* Between its reservation and its order a request holds what it will send.
HoldingSteps == {"claim", "find", "intent", "submit", "send"}

FullyReserved(c) == reservations[c] = [status |-> "ACTIVE", amount |-> Quantity[c]]

\* What was sent, or will be whatever else happens.
Committed ==
  {c \in ClientIds : \/ OrdersOf(c) # {}
                    \/ \E w \in Workers : wk[w].step = "send" /\ wk[w].client = c}

CommittedWithinLimit ==
  Committed # {} => CurrentExposure + SumFunctionOnSet(Quantity, Committed) <= MaxTotalExposure

\* As long as the startup's reconciliation is the present one, the broker has shown no order;
\* until then whatever was sent is still reserved in full.
ExposureInv ==
  /\ ActiveWithinLimit
  /\ safety = "clear" => \A b \in BrokerIds : ~Visible(b)
  /\ \A w \in Workers : wk[w].step # "refind"
  /\ \A w \in Workers : wk[w].step = "reserve" => CurrentExposure <= wk[w].exposure
  /\ \A w \in Workers, c \in ClientIds :
       wk[w].step \in HoldingSteps /\ wk[w].client = c => FullyReserved(c)
  /\ \A c \in ClientIds : OrdersOf(c) # {} /\ Matches(c) = {} => FullyReserved(c)
  /\ CommittedWithinLimit

LEMMA ExposureInitially == Init => ExposureInv
<1> SUFFICES ASSUME Init PROVE ExposureInv
  OBVIOUS
<1>1. \A w \in Workers : wk[w].step = "idle"
  BY DEF Init, IdleWorker
<1>2. \A b \in BrokerIds : ~Sent(b) /\ ~Visible(b)
  BY DEF Init, BookInit, NoOrder, Sent, Visible, BookStatuses
<1>3. Active = {}
  BY DEF Init, ReservationsInit, NoReservation, Active
<1>4. \A c \in ClientIds : OrdersOf(c) = {}
  BY <1>2 DEF OrdersOf
<1>5. Committed = {}
  BY <1>1, <1>4 DEF Committed
<1>6. QED
  BY <1>1, <1>2, <1>3, <1>4, <1>5
  DEF ExposureInv, ActiveWithinLimit, HoldingSteps, CommittedWithinLimit

\* The conditions of the theorem: see ExposureWithinLimitCorrect.
Bounded ==
  /\ Durable /\ OncePerId /\ MaxRestarts = 0
  /\ IsFiniteSet(ClientIds) /\ IsFiniteSet(BrokerIds)

Shrinks ==
  \A c \in ClientIds : reservations'[c].status = "ACTIVE" =>
    reservations[c].status = "ACTIVE" /\ reservations'[c].amount <= reservations[c].amount

LEMMA ActiveShrinks ==
  ASSUME Bounded, ReservationsTypeOK, ReservationsTypeOK', Shrinks, ActiveWithinLimit
  PROVE  ActiveWithinLimit'
<1>1. /\ reservations \in [ClientIds -> Reservation]
      /\ reservations' \in [ClientIds -> Reservation]
      /\ IsFiniteSet(ClientIds)
  BY DEF ReservationsTypeOK, Bounded
<1>2. /\ ActiveIn(reservations') \subseteq ActiveIn(reservations)
      /\ AmountOf(reservations') <= AmountOf(reservations)
  BY <1>1, AmountShrinks DEF Shrinks
<1>3. Active = ActiveIn(reservations) /\ Active' = ActiveIn(reservations')
  BY <1>1 DEF Active, ActiveIn
<1>4. ActiveAmount = AmountOf(reservations) /\ ActiveAmount' = AmountOf(reservations')
  BY <1>3 DEF ActiveAmount, AmountOf
<1>5. AmountOf(reservations) \in Nat /\ AmountOf(reservations') \in Nat
  BY <1>1, AmountType
<1>6. QED
  BY <1>2, <1>3, <1>4, <1>5 DEF ActiveWithinLimit

LEMMA CommittedShrinks ==
  ASSUME Bounded, Committed' \subseteq Committed, CommittedWithinLimit
  PROVE  CommittedWithinLimit'
<1>1. IsFiniteSet(Committed) /\ Committed \subseteq ClientIds
  BY FS_Subset DEF Bounded, Committed
<1>2. IsFiniteSet(Committed') /\ \A c \in Committed : Quantity[c] \in Nat
  BY <1>1, FS_Subset
<1>3. SumFunctionOnSet(Quantity, Committed') <= SumFunctionOnSet(Quantity, Committed)
  BY <1>1, <1>2, SumOfPart
<1>4. SumFunctionOnSet(Quantity, Committed') \in Nat /\ SumFunctionOnSet(Quantity, Committed) \in Nat
  BY <1>1, <1>2, SumOfNumbers
<1>5. QED
  BY <1>3, <1>4 DEF CommittedWithinLimit

\* A request moves on: it may give its reservation back, unless it is to send or has sent
\* an order that the broker does not show.
LEMMA RequestMoves ==
  ASSUME Bounded, ExecInv, RowsInv, ExposureInv, NEW w \in Workers, NEW r \in Worker,
         Becomes(w, r), UNCHANGED orders, safety' \in {safety, "halted"},
         ReservationsTypeOK', Shrinks,
         \A c \in ClientIds : c # wk[w].client => reservations'[c] = reservations[c],
         \/ reservations' = reservations
         \/ /\ wk[w].step # "idle" /\ r.step \notin HoldingSteps
            /\ OrdersOf(wk[w].client) = {} \/ Matches(wk[w].client) # {},
         r.step # "refind",
         r.step = "reserve" => CurrentExposure <= r.exposure,
         r.step = "send" => wk[w].step = "send",
         r.step \in HoldingSteps => wk[w].step \in HoldingSteps /\ r.client = wk[w].client
  PROVE  ExposureInv'
<1>1. \A v \in Workers : wk'[v] = IF v = w THEN r ELSE wk[v]
  BY DEF Becomes, ExecInv, TypeOK
<1>2. ActiveWithinLimit'
  BY ActiveShrinks DEF ExposureInv, ExecInv, TypeOK
<1>3. safety' = "clear" => \A b \in BrokerIds : ~Visible(b)'
  BY DEF ExposureInv, Visible
<1>4. \A v \in Workers : wk'[v].step # "refind"
  BY <1>1 DEF ExposureInv
<1>5. \A v \in Workers : wk'[v].step = "reserve" => CurrentExposure <= wk'[v].exposure
  BY <1>1 DEF ExposureInv
<1>6. \A v \in Workers, c \in ClientIds :
        wk'[v].step \in HoldingSteps /\ wk'[v].client = c => FullyReserved(c)'
  <2>1. SUFFICES ASSUME NEW v \in Workers, NEW c \in ClientIds, wk'[v].step \in HoldingSteps,
                        wk'[v].client = c
                 PROVE  FullyReserved(c)'
    OBVIOUS
  <2>2. wk[v].step \in HoldingSteps /\ wk[v].client = c
    BY <1>1, <2>1
  <2>3. FullyReserved(c) /\ wk[v].step # "idle"
    BY <2>2 DEF ExposureInv, HoldingSteps
  <2>4. reservations'[c] = reservations[c]
    BY <1>1, <2>1, <2>2, <2>3 DEF RowsInv
  <2>5. QED
    BY <2>3, <2>4 DEF FullyReserved
<1>7. \A c \in ClientIds : OrdersOf(c)' # {} /\ Matches(c)' = {} => FullyReserved(c)'
  <2>1. SUFFICES ASSUME NEW c \in ClientIds, OrdersOf(c)' # {}, Matches(c)' = {}
                 PROVE  FullyReserved(c)'
    OBVIOUS
  <2>2. OrdersOf(c) # {} /\ Matches(c) = {}
    BY <2>1 DEF OrdersOf, Matches, Sent, Visible
  <2>3. FullyReserved(c) /\ reservations'[c] = reservations[c]
    BY <2>2 DEF ExposureInv
  <2>4. QED
    BY <2>3 DEF FullyReserved
<1>8. Committed' \subseteq Committed
  <2>1. \A c \in ClientIds : OrdersOf(c)' = OrdersOf(c)
    BY DEF OrdersOf, Sent
  <2>2. \A v \in Workers : wk'[v].step = "send" =>
          wk[v].step = "send" /\ wk'[v].client = wk[v].client
    BY <1>1 DEF HoldingSteps
  <2>3. QED
    BY <2>1, <2>2 DEF Committed
<1>9. CommittedWithinLimit'
  BY <1>8, CommittedShrinks DEF ExposureInv
<1>10. QED
  BY <1>2, <1>3, <1>4, <1>5, <1>6, <1>7, <1>9 DEF ExposureInv

\* The same of a step that leaves the reservations alone, by where it takes the request.
LEMMA GoesHolding ==
  ASSUME Bounded, ExecInv, RowsInv, ExposureInv, NEW w \in Workers, NEW T, NEW Q,
         Goes(w, T, Q), UNCHANGED <<reservations, orders>>, safety' \in {safety, "halted"},
         T \cap {"reserve", "refind", "send"} = {},
         T \cap HoldingSteps = {} \/ wk[w].step \in HoldingSteps
  PROVE  ExposureInv'
<1>1. PICK r \in Worker : Becomes(w, r) /\ (r = IdleWorker \/ (r.client = wk[w].client /\ r.step \in T))
  BY DEF Goes
<1>2. r.step \in T \/ r.step = "idle"
  BY <1>1 DEF IdleWorker
<1>3. /\ r.step \notin {"reserve", "refind", "send"}
      /\ r.step \in HoldingSteps => wk[w].step \in HoldingSteps /\ r.client = wk[w].client
  BY <1>1, <1>2 DEF HoldingSteps, IdleWorker
<1>4. ReservationsTypeOK'
  BY DEF ExecInv, TypeOK, ReservationsTypeOK
<1>5. Shrinks
  BY DEF Shrinks, ExecInv, TypeOK, ReservationsTypeOK, Reservation
<1>6. QED
  BY <1>1, <1>3, <1>4, <1>5, RequestMoves

\* A reconciliation of the request's own reservation only gives back.
LEMMA ReconcileShrinks ==
  ASSUME ExecInv, NEW c \in ClientIds, NEW s, NEW remaining \in Nat, Reconcile(c, s, remaining)
  PROVE  /\ ReservationsTypeOK' /\ Shrinks
         /\ \A d \in ClientIds \ {c} : reservations'[d] = reservations[d]
<1>1. /\ reservations \in [ClientIds -> Reservation]
      /\ reservations' = [reservations EXCEPT ![c] = ReconcileResult(c, s, remaining)]
  BY DEF Reconcile, ExecInv, TypeOK, ReservationsTypeOK
<1>2. /\ ReconcileResult(c, s, remaining) \in Reservation
      /\ ReconcileResult(c, s, remaining).status = "ACTIVE" =>
           /\ reservations[c].status = "ACTIVE"
           /\ ReconcileResult(c, s, remaining).amount <= reservations[c].amount
  BY <1>1 DEF Reconcile, ReconcileAccepts, ReconcileResult, Reservation
<1> HIDE DEF ReconcileResult
<1>3. \A d \in ClientIds : reservations'[d] =
        IF d = c THEN ReconcileResult(c, s, remaining) ELSE reservations[d]
  BY <1>1
<1>4. \A d \in ClientIds : reservations[d].amount \in Nat
  BY <1>1 DEF Reservation
<1>5. QED
  BY <1>1, <1>2, <1>3, <1>4 DEF Shrinks, ReservationsTypeOK

\* A request gives its reservation back and ends.
LEMMA ReleaseEnds ==
  ASSUME Bounded, ExecInv, RowsInv, ExposureInv, NEW w \in Workers, wk[w].step # "idle",
         OrdersOf(wk[w].client) = {} \/ Matches(wk[w].client) # {},
         NEW s \in RowStatuses, GivesUp(w, s), UNCHANGED orders, safety' \in {safety, "halted"}
  PROVE  ExposureInv'
<1>1. CASE Abort(w) /\ UNCHANGED reservations
  <2>1. Goes(w, {}, {})
    BY <1>1, AbortGoes
  <2>2. QED
    BY <1>1, <2>1, GoesHolding
<1>2. CASE ReleaseRisk(wk[w].client) /\ Reply(w, s)
  <2> DEFINE r == [wk[w] EXCEPT !.step = "reply", !.result = s]
  <2>1. r \in Worker /\ r.step = "reply" /\ Becomes(w, r)
    BY <1>2, WorkerFacts DEF Worker, Steps, Reply
  <2> HIDE DEF r
  <2>2. PICK c \in ClientIds : c = wk[w].client
    BY WorkerFacts DEF WorkerOK
  <2>3. Reconcile(c, "CANCELLED", 0)
    BY <1>2, <2>2 DEF ReleaseRisk, Bounded
  <2>4. /\ ReservationsTypeOK' /\ Shrinks
        /\ \A d \in ClientIds \ {c} : reservations'[d] = reservations[d]
    BY <2>3, ReconcileShrinks
  <2>5. QED
    BY <2>1, <2>2, <2>4, RequestMoves DEF HoldingSteps
<1>3. QED
  BY <1>1, <1>2 DEF GivesUp

\* Every step of a request that reserves and sends nothing.
LEMMA EarlyExposure ==
  ASSUME Bounded, ExecInv, RowsInv, ExposureInv, NEW w \in Workers, LoadLifecycle(w) \/ Claim(w)
  PROVE  ExposureInv'
<1>1. UNCHANGED <<orders, safety>> /\ wk[w].step \in EarlySteps
  BY DEF LoadLifecycle, MayExecute, Claim, At, EarlySteps, stores
<1>2. wk[w] \in Worker /\ file \in Files /\ wk[w].step # "idle" /\ OrdersOf(wk[w].client) = {}
  BY <1>1, WorkerFacts, EarlyRequests DEF ExecInv, TypeOK, EarlySteps
<1>3. PICK c \in ClientIds : c = wk[w].client
  BY <1>2, WorkerFacts DEF WorkerOK
<1>4. {"REJECTED", "SUBMITTED", wk[w].mem[c].status} \subseteq RowStatuses
  BY <1>2 DEF Worker, Files, Record, RowStatuses, RecordStatuses, TerminalStatuses
<1>5. CASE LoadLifecycle(w)
  <2>1. CASE Becomes(w, [wk[w] EXCEPT !.step = "authorize", !.mem = file])
    <3> DEFINE r == [wk[w] EXCEPT !.step = "authorize", !.mem = file]
    <3>1. r \in Worker /\ r.step = "authorize" /\ r.client = wk[w].client
      BY <1>2 DEF Worker, Steps
    <3>2. Becomes(w, r)
      BY <2>1
    <3> HIDE DEF r
    <3>3. Goes(w, {"authorize"}, {})
      BY <3>1, <3>2 DEF Goes
    <3>4. QED
      BY <1>1, <1>5, <3>3, GoesHolding DEF HoldingSteps, LoadLifecycle, MayExecute, stores
  <2>2. CASE Reply(w, "REJECTED")
    <3>1. Goes(w, {"reply"}, RowStatuses)
      BY <1>4, <2>2, ReplyGoes
    <3>2. QED
      BY <1>1, <1>5, <3>1, GoesHolding DEF HoldingSteps, LoadLifecycle, MayExecute, stores
  <2>3. QED
    BY <1>5, <2>1, <2>2 DEF LoadLifecycle, MayExecute
<1>6. CASE Claim(w)
  <2>1. wk[w].step = "claim" /\ claims[c] = "none"
    BY <1>3, <1>6 DEF Claim, At, RowsInv, EarlySteps
  <2>2. CASE GivesUp(w, wk[w].mem[c].status) \/ GivesUp(w, "SUBMITTED")
    BY <1>1, <1>2, <1>4, <2>2, ReleaseEnds
  <2>3. CASE GoTo(w, "find") /\ UNCHANGED reservations
    <3>1. Goes(w, {"find"}, {})
      BY <2>3, GoToGoes DEF Steps
    <3>2. QED
      BY <1>1, <2>1, <2>3, <3>1, GoesHolding DEF HoldingSteps
  <2>4. QED
    BY <1>3, <1>6, <2>1, <2>2, <2>3 DEF Claim
<1>7. QED
  BY <1>5, <1>6

LEMMA LateExposure ==
  ASSUME Bounded, ExecInv, RowsInv, ExposureInv, NEW w \in Workers,
         \/ FindClaimed(w) \/ FindFresh(w) \/ SaveIntent(w)
         \/ SubmitRaises(w) \/ FindAmbiguous(w) \/ SaveRecovered(w) \/ Finalize(w)
         \/ MarkSubmitted(w) \/ StoreFails(w) \/ Project(w)
  PROVE  ExposureInv'
<1>1. UNCHANGED orders /\ safety' \in {safety, "halted"}
  BY DEF FindClaimed, FindFresh, SaveIntent, SubmitRaises, FindAmbiguous,
         SaveRecovered, Finalize, MarkSubmitted, StoreFails, Project, stores
<1> DEFINE Ending == {"sent", "ambiguous", "mark", "save", "settle", "finalize", "reply"}
<1>2. "SUBMITTED" \in RowStatuses
  BY DEF RowStatuses, RecordStatuses
<1>3. ASSUME Goes(w, Ending, RowStatuses), UNCHANGED reservations PROVE ExposureInv'
  BY <1>1, <1>3, GoesHolding DEF HoldingSteps
<1>4. wk[w].step # "refind"
  BY DEF ExposureInv
<1>5. ASSUME wk[w].step \in {"save", "settle", "finalize"} PROVE Matches(wk[w].client) # {}
  BY <1>5, WorkerFacts DEF WorkerOK, FoundOK
<1> HIDE DEF Ending
<1>6. CASE FindClaimed(w)
  BY <1>4, <1>6 DEF FindClaimed, At
<1>7. CASE FindFresh(w)
  <2>1. CASE Finds(w, "fresh")
    BY <1>3, <1>7, <2>1, FindsGoes DEF FindFresh, stores, Ending
  <2>2. CASE GoTo(w, "intent")
    <3>1. Goes(w, {"intent"}, {}) /\ wk[w].step = "find" /\ UNCHANGED reservations
      BY <1>7, <2>2, GoToGoes DEF FindFresh, At, Steps, stores
    <3>2. QED
      BY <1>1, <3>1, GoesHolding DEF HoldingSteps
  <2>3. QED
    BY <1>7, <2>1, <2>2 DEF FindFresh
<1>8. CASE SaveIntent(w)
  <2>1. [status |-> "SUBMISSION_INTENT", filled |-> 0] \in Record
    BY DEF Record, RecordStatuses
  <2>2. Goes(w, {"submit"}, {}) /\ wk[w].step = "intent" /\ UNCHANGED reservations
    BY <1>8, <2>1, SaveGoes DEF SaveIntent, At, Steps
  <2>3. QED
    BY <1>1, <2>2, GoesHolding DEF HoldingSteps
<1>9. CASE SubmitRaises(w)
  BY <1>3, <1>9, GoToGoes DEF SubmitRaises, Ending, Steps
<1>10. CASE FindAmbiguous(w)
  BY <1>3, <1>10, GoToGoes, FindsGoes DEF FindAmbiguous, Ending, Steps, stores
<1>11. CASE SaveRecovered(w)
  <2>1. wk[w].step = "save"
    BY <1>11 DEF SaveRecovered, At
  <2>2. CASE SaveRecord(w, RecoveredRecord(w), "settle") /\ UNCHANGED reservations
    BY <1>3, <2>1, <2>2, RecoveredIsOK, SaveGoes DEF Ending, Steps
  <2>3. CASE GoTo(w, "mark") /\ UNCHANGED reservations
    BY <1>3, <2>3, GoToGoes DEF Ending, Steps
  <2>4. CASE GivesUp(w, "SUBMITTED")
    BY <1>1, <1>2, <1>5, <2>1, <2>4, ReleaseEnds
  <2>5. QED
    BY <1>11, <2>2, <2>3, <2>4 DEF SaveRecovered, RecoveryFails
<1>12. CASE Finalize(w)
  <2>1. RecoveredRecord(w).status \in RowStatuses
    BY <1>12, RecoveredIsOK DEF Finalize, At
  <2>2. QED
    BY <1>3, <1>12, <2>1, ReplyGoes DEF Finalize, Ending
<1>13. CASE MarkSubmitted(w)
  BY <1>2, <1>3, <1>13, ReplyGoes DEF MarkSubmitted, Ending
<1>14. CASE StoreFails(w)
  <2>1. CASE Abort(w) /\ UNCHANGED reservations
    BY <1>3, <2>1, AbortGoes
  <2>2. CASE GivesUp(w, "SUBMITTED") /\ wk[w].step \in {"save", "settle", "finalize"}
    BY <1>1, <1>2, <1>5, <2>2, ReleaseEnds
  <2>3. CASE GivesUp(w, "SUBMITTED") /\ wk[w].step \in {"find", "intent"}
    <3>1. OrdersOf(wk[w].client) = {} /\ wk[w].step # "idle"
      BY <2>3, WorkerFacts DEF WorkerOK, Submitting, SubmittingSteps
    <3>2. QED
      BY <1>1, <1>2, <2>3, <3>1, ReleaseEnds
  <2>4. QED
    BY <1>14, <2>1, <2>2, <2>3 DEF StoreFails
<1>15. CASE Project(w)
  BY <1>3, <1>15, AbortGoes DEF Project, Abort
<1>16. QED
  BY <1>6, <1>7, <1>8, <1>9, <1>10, <1>11, <1>12, <1>13, <1>14, <1>15

LEMMA CreateExposure ==
  ASSUME Bounded, ExecInv, RowsInv, ExposureInv, NEW w \in Workers, NEW c \in ClientIds,
         CreateOrder(w, c)
  PROVE  ExposureInv'
<1> DEFINE r == [IdleWorker EXCEPT !.step = "load", !.client = c]
<1>1. r \in Worker /\ r.step = "load"
  BY IdleIsOK DEF Worker, Steps
<1>2. Becomes(w, r) /\ UNCHANGED <<reservations, orders, safety>>
  BY DEF CreateOrder
<1> HIDE DEF r
<1>3. ReservationsTypeOK' /\ Shrinks
  BY <1>2 DEF ExecInv, TypeOK, ReservationsTypeOK, Shrinks, Reservation
<1>4. QED
  BY <1>1, <1>2, <1>3, RequestMoves DEF HoldingSteps

\* A request is authorized with at least the exposure of the snapshot.
LEMMA AuthorizeExposure ==
  ASSUME Bounded, ExecInv, RowsInv, ExposureInv, NEW w \in Workers, Authorize(w)
  PROVE  ExposureInv'
<1>1. UNCHANGED <<reservations, orders, safety>>
  BY DEF Authorize, stores
<1>2. VisibleFills \in Nat
  <2> DEFINE S == {d \in BrokerIds : Visible(d)}
             f == [b \in BrokerIds |-> orders[b].filled]
  <2>1. IsFiniteSet(S) /\ \A b \in S : f[b] \in Nat
    BY FS_Subset DEF Bounded, ExecInv, TypeOK, Order
  <2>2. VisibleFills = SumFunction([b \in S |-> f[b]])
    BY DEF VisibleFills
  <2> HIDE DEF S, f
  <2>3. QED
    BY <2>1, <2>2, SumOn, SumOfNumbers
<1>3. ASSUME NEW e \in 0..MaxTotalExposure, e = CurrentExposure + VisibleFills,
             Becomes(w, [wk[w] EXCEPT !.step = "reserve", !.exposure = e])
      PROVE  ExposureInv'
  <2> DEFINE r == [wk[w] EXCEPT !.step = "reserve", !.exposure = e]
  <2>1. e \in Nat /\ CurrentExposure <= e
    BY <1>2, <1>3
  <2>2. r \in Worker /\ r.step = "reserve" /\ r.exposure = e
    BY <2>1, WorkerFacts DEF Worker, Steps
  <2>3. Becomes(w, r)
    BY <1>3
  <2> HIDE DEF r
  <2>4. ReservationsTypeOK' /\ Shrinks
    BY <1>1 DEF ExecInv, TypeOK, ReservationsTypeOK, Shrinks, Reservation
  <2>5. QED
    BY <1>1, <2>1, <2>2, <2>3, <2>4, RequestMoves DEF HoldingSteps
<1>4. CASE Reply(w, "REJECTED")
  <2>1. Goes(w, {"reply"}, RowStatuses)
    BY <1>4, ReplyGoes DEF RowStatuses, RecordStatuses, TerminalStatuses
  <2>2. QED
    BY <1>1, <2>1, GoesHolding DEF HoldingSteps
<1>5. QED
  BY <1>3, <1>4 DEF Authorize

\* A reservation is only made within the limit.
LEMMA ReserveExposure ==
  ASSUME Bounded, ExecInv, RowsInv, ExposureInv, NEW w \in Workers, ReserveRisk(w)
  PROVE  ExposureInv'
<1>1. wk[w].step = "reserve" /\ UNCHANGED <<orders, safety>>
  BY DEF ReserveRisk, ReservesDurably, At
<1>2. PICK c \in ClientIds : c = wk[w].client
  BY <1>1, WorkerFacts DEF WorkerOK
<1>3. OrdersOf(c) = {}
  BY <1>1, <1>2, EarlyRequests DEF EarlySteps
<1>4. CASE Reply(w, "REJECTED") /\ UNCHANGED reservations
  <2>1. Goes(w, {"reply"}, RowStatuses)
    BY <1>4, ReplyGoes DEF RowStatuses, RecordStatuses, TerminalStatuses
  <2>2. QED
    BY <1>1, <1>4, <2>1, GoesHolding DEF HoldingSteps
<1>5. CASE /\ ReserveFits(c, Quantity[c], wk[w].exposure)
           /\ Activate(c, Quantity[c])
           /\ GoTo(w, "claim")
  <2>1. /\ reservations \in [ClientIds -> Reservation] /\ IsFiniteSet(ClientIds)
        /\ Quantity[c] \in Nat /\ wk[w].exposure \in Nat /\ CurrentExposure <= wk[w].exposure
    BY <1>1, WorkerFacts DEF ExecInv, TypeOK, ReservationsTypeOK, Bounded, Worker, ExposureInv
  <2>2. /\ reservations' \in [ClientIds -> Reservation]
        /\ reservations'[c] = [status |-> "ACTIVE", amount |-> Quantity[c]]
        /\ \A d \in ClientIds \ {c} : reservations'[d] = reservations[d]
    BY <1>5, <2>1 DEF Activate, Reservation
  <2>3. ActiveWithinLimit'
    <3>1. CASE Replays(c, Quantity[c])
      <4>1. reservations[c].status = "ACTIVE" /\ reservations[c].amount = Quantity[c]
        BY <3>1 DEF Replays
      <4>2. Shrinks
        BY <2>1, <2>2, <4>1 DEF Shrinks, Reservation
      <4>3. QED
        BY <2>1, <2>2, <4>2, ActiveShrinks DEF ReservationsTypeOK, ExposureInv
    <3>2. CASE /\ reservations[c].status = "none"
               /\ wk[w].exposure + ActiveAmount + Quantity[c] <= MaxTotalExposure
      <4>1. AmountOf(reservations') = AmountOf(reservations) + Quantity[c]
        BY <2>1, <2>2, <3>2, AmountAdds
      <4>2. Active = ActiveIn(reservations) /\ Active' = ActiveIn(reservations')
        BY <2>1, <2>2 DEF Active, ActiveIn
      <4>3. ActiveAmount = AmountOf(reservations) /\ ActiveAmount' = AmountOf(reservations')
        BY <4>2 DEF ActiveAmount, AmountOf
      <4>4. AmountOf(reservations) \in Nat
        BY <2>1, AmountType
      <4>5. CurrentExposure + (AmountOf(reservations) + Quantity[c]) <= MaxTotalExposure
        BY <2>1, <3>2, <4>3, <4>4
      <4>6. QED
        BY <4>1, <4>3, <4>5 DEF ActiveWithinLimit
    <3>3. QED
      BY <1>5, <3>1, <3>2 DEF ReserveFits
  <2>4. /\ wk'[w].step = "claim" /\ wk'[w].client = c
        /\ \A v \in Workers \ {w} : wk'[v] = wk[v]
    BY <1>2, <1>5, WorkerFacts DEF GoTo, Becomes, ExecInv, TypeOK, Worker
  <2>5. \A v \in Workers, d \in ClientIds :
          wk'[v].step \in HoldingSteps /\ wk'[v].client = d => FullyReserved(d)'
    <3>1. SUFFICES ASSUME NEW v \in Workers, NEW d \in ClientIds,
                          wk'[v].step \in HoldingSteps, wk'[v].client = d
                   PROVE  FullyReserved(d)'
      OBVIOUS
    <3>2. CASE v = w
      BY <2>2, <2>4, <3>1, <3>2 DEF FullyReserved
    <3>3. CASE v # w
      <4>1. FullyReserved(d) /\ wk[v].step # "idle" /\ wk[v].client = d
        BY <2>4, <3>1, <3>3 DEF ExposureInv, HoldingSteps
      <4>2. d # c
        BY <1>1, <1>2, <3>3, <4>1 DEF RowsInv
      <4>3. QED
        BY <2>2, <4>1, <4>2 DEF FullyReserved
    <3>4. QED
      BY <3>2, <3>3
  <2>6. \A d \in ClientIds : OrdersOf(d)' # {} /\ Matches(d)' = {} => FullyReserved(d)'
    <3>1. SUFFICES ASSUME NEW d \in ClientIds, OrdersOf(d)' # {}, Matches(d)' = {}
                   PROVE  FullyReserved(d)'
      OBVIOUS
    <3>2. OrdersOf(d) # {} /\ Matches(d) = {}
      BY <1>1, <3>1 DEF OrdersOf, Matches, Sent, Visible
    <3>3. FullyReserved(d) /\ d # c
      BY <1>3, <3>2 DEF ExposureInv
    <3>4. QED
      BY <2>2, <3>3 DEF FullyReserved
  <2>7. Committed' \subseteq Committed
    <3>1. \A d \in ClientIds : OrdersOf(d)' = OrdersOf(d)
      BY <1>1 DEF OrdersOf, Sent
    <3>2. \A v \in Workers : wk'[v].step = "send" => wk'[v] = wk[v]
      BY <2>4
    <3>3. QED
      BY <3>1, <3>2 DEF Committed
  <2>8. CommittedWithinLimit'
    BY <2>7, CommittedShrinks DEF ExposureInv
  <2>9. safety' = "clear" => \A b \in BrokerIds : ~Visible(b)'
    BY <1>1 DEF ExposureInv, Visible
  <2>10. \A v \in Workers : wk'[v].step # "refind"
    BY <2>4 DEF ExposureInv
  <2>11. \A v \in Workers : wk'[v].step = "reserve" => CurrentExposure <= wk'[v].exposure
    BY <2>4 DEF ExposureInv
  <2>12. QED
    BY <2>3, <2>5, <2>6, <2>8, <2>9, <2>10, <2>11 DEF ExposureInv
<1>6. QED
  BY <1>2, <1>4, <1>5 DEF ReserveRisk, ReservesDurably, Bounded

\* The router lets a request send only while the broker has shown no order: all that was
\* sent or is about to be is reserved in full, and so within the limit.
LEMMA RouterExposure ==
  ASSUME Bounded, ExecInv, RowsInv, ExposureInv, NEW w \in Workers, RouterChecks(w)
  PROVE  ExposureInv'
<1>1. wk[w].step = "submit" /\ UNCHANGED <<reservations, orders>>
  BY DEF RouterChecks, At
<1>2. CASE GoTo(w, "ambiguous") /\ safety' \in {safety, "halted"}
  <2>1. Goes(w, {"ambiguous"}, {})
    BY <1>2, GoToGoes DEF Steps
  <2>2. QED
    BY <1>1, <1>2, <2>1, GoesHolding DEF HoldingSteps
<1>3. CASE safety = "clear" /\ GoTo(w, "send") /\ UNCHANGED safety
  <2>1. PICK c \in ClientIds : c = wk[w].client
    BY <1>1, WorkerFacts DEF WorkerOK
  <2>2. /\ wk'[w].step = "send" /\ wk'[w].client = c
        /\ \A v \in Workers \ {w} : wk'[v] = wk[v]
    BY <1>3, <2>1, WorkerFacts DEF GoTo, Becomes, ExecInv, TypeOK, Worker
  <2>3. \A d \in ClientIds : Matches(d) = {}
    BY <1>3 DEF ExposureInv, Matches
  <2>4. \A v \in Workers, d \in ClientIds :
          wk'[v].step \in HoldingSteps /\ wk'[v].client = d => FullyReserved(d)
    BY <1>1, <2>1, <2>2 DEF ExposureInv, HoldingSteps
  <2>5. ASSUME NEW d \in Committed' PROVE FullyReserved(d)
    <3>1. d \in ClientIds
      BY DEF Committed
    <3>2. CASE OrdersOf(d)' # {}
      <4>1. OrdersOf(d) # {}
        BY <1>1, <3>2 DEF OrdersOf, Sent
      <4>2. QED
        BY <2>3, <3>1, <4>1 DEF ExposureInv
    <3>3. CASE \E v \in Workers : wk'[v].step = "send" /\ wk'[v].client = d
      BY <2>4, <3>1, <3>3 DEF HoldingSteps
    <3>4. QED
      BY <3>2, <3>3 DEF Committed
  <2>6. /\ reservations \in [ClientIds -> Reservation] /\ IsFiniteSet(ClientIds)
        /\ Quantity \in [ClientIds -> Nat]
    BY DEF ExecInv, TypeOK, ReservationsTypeOK, Bounded
  <2>7. Committed' \in SUBSET ClientIds
    BY DEF Committed
  <2>8. \A d \in Committed' : reservations[d] = [status |-> "ACTIVE", amount |-> Quantity[d]]
    BY <2>5 DEF FullyReserved
  <2>9. /\ Committed' \subseteq ActiveIn(reservations)
        /\ SumFunctionOnSet(Quantity, Committed') <= AmountOf(reservations)
    BY <2>6, <2>7, <2>8, FullPart
  <2>10. Active = ActiveIn(reservations) /\ ActiveAmount = AmountOf(reservations)
    BY <2>6 DEF Active, ActiveIn, ActiveAmount, AmountOf
  <2>11. AmountOf(reservations) \in Nat
    BY <2>6, AmountType
  <2>12. SumFunctionOnSet(Quantity, Committed') \in Nat
    <3>1. IsFiniteSet(Committed') /\ \A d \in Committed' : Quantity[d] \in Nat
      BY <2>6, <2>7, FS_Subset
    <3>2. QED
      BY <3>1, SumOfNumbers
  <2>13. CommittedWithinLimit'
    BY <2>9, <2>10, <2>11, <2>12 DEF CommittedWithinLimit, ExposureInv, ActiveWithinLimit
  <2>14. ActiveWithinLimit'
    BY <1>1 DEF ExposureInv, ActiveWithinLimit, Active, ActiveAmount
  <2>15. \A v \in Workers, d \in ClientIds :
           wk'[v].step \in HoldingSteps /\ wk'[v].client = d => FullyReserved(d)'
    BY <1>1, <2>4 DEF FullyReserved
  <2>16. \A d \in ClientIds : OrdersOf(d)' # {} /\ Matches(d)' = {} => FullyReserved(d)'
    BY <1>1 DEF ExposureInv, OrdersOf, Matches, Sent, Visible, FullyReserved
  <2>17. safety' = "clear" => \A b \in BrokerIds : ~Visible(b)'
    BY <1>1, <1>3 DEF ExposureInv, Visible
  <2>18. \A v \in Workers : wk'[v].step # "refind"
    BY <2>2 DEF ExposureInv
  <2>19. \A v \in Workers : wk'[v].step = "reserve" => CurrentExposure <= wk'[v].exposure
    BY <2>2 DEF ExposureInv
  <2>20. QED
    BY <2>13, <2>14, <2>15, <2>16, <2>17, <2>18, <2>19 DEF ExposureInv
<1>4. QED
  BY <1>2, <1>3 DEF RouterChecks

\* Only what the broker shows is settled.
LEMMA SettleExposure ==
  ASSUME Bounded, ExecInv, RowsInv, ExposureInv, NEW w \in Workers, SettleRisk(w)
  PROVE  ExposureInv'
<1>1. wk[w].step = "settle" /\ GoTo(w, "finalize") /\ UNCHANGED <<orders, safety>>
  BY DEF SettleRisk, At
<1>2. PICK c \in ClientIds : c = wk[w].client
  BY <1>1, WorkerFacts DEF WorkerOK
<1>3. wk[w] \in Worker /\ \E b \in Matches(c) : wk[w].foundFilled <= orders[b].filled
  BY <1>1, <1>2, WorkerFacts DEF WorkerOK, FoundOK
<1>4. PICK b \in BrokerIds : /\ b \in Matches(c) /\ wk[w].foundFilled <= orders[b].filled
                            /\ orders[b].client = c /\ Sent(b)
  BY <1>3 DEF Matches, Visible, Sent, BookStatuses
<1>5. Quantity[c] - wk[w].foundFilled \in Nat
  <2>1. /\ orders[b].filled <= Quantity[c] /\ orders[b].filled \in Nat
        /\ wk[w].foundFilled \in Nat /\ Quantity[c] \in Nat
    BY <1>3, <1>4 DEF ExecInv, OrderOK, TypeOK, Order, Worker
  <2>2. QED
    BY <1>4, <2>1
<1>6. /\ ReservationsTypeOK' /\ Shrinks
      /\ \A d \in ClientIds : d # c => reservations'[d] = reservations[d]
  <2>1. CASE ReleaseRisk(c)
    BY <2>1, ReconcileShrinks DEF ReleaseRisk, Bounded
  <2>2. CASE UpdateAfterFill(c, wk[w].foundFilled)
    BY <1>5, <2>2, ReconcileShrinks DEF UpdateAfterFill, Bounded
  <2>3. CASE UNCHANGED reservations
    BY <2>3 DEF ExecInv, TypeOK, ReservationsTypeOK, Shrinks, Reservation
  <2>4. QED
    BY <1>2, <2>1, <2>2, <2>3 DEF SettleRisk
<1> DEFINE r == [wk[w] EXCEPT !.step = "finalize"]
<1>7. r \in Worker /\ r.step = "finalize" /\ Becomes(w, r)
  BY <1>1, <1>3 DEF Worker, Steps, GoTo
<1> HIDE DEF r
<1>8. QED
  BY <1>1, <1>2, <1>4, <1>6, <1>7, RequestMoves DEF HoldingSteps

\* What is sent was committed and is still reserved.
LEMMA SendExposure ==
  ASSUME Bounded, ExecInv, RowsInv, ExposureInv, NEW w \in Workers, SendOrder(w)
  PROVE  ExposureInv'
<1>1. wk[w].step = "send" /\ GoTo(w, "sent") /\ UNCHANGED <<reservations, safety>>
  BY DEF SendOrder, At
<1>2. PICK c \in ClientIds : c = wk[w].client
  BY <1>1, WorkerFacts DEF WorkerOK
<1>3. /\ wk'[w].step = "sent" /\ \A v \in Workers \ {w} : wk'[v] = wk[v]
  BY <1>1, WorkerFacts DEF GoTo, Becomes, ExecInv, TypeOK, Worker
<1>4. FullyReserved(c) /\ c \in Committed
  BY <1>1, <1>2 DEF ExposureInv, HoldingSteps, Committed
<1>5. \A b \in BrokerIds :
        \/ orders'[b] = orders[b]
        \/ ~Sent(b) /\ orders'[b].client = c /\ orders'[b].status = "inflight"
  BY <1>2 DEF SendOrder, Send, ExecInv, TypeOK
<1>6. \A b \in BrokerIds : Visible(b)' <=> Visible(b)
  BY <1>5 DEF Visible, Sent, BookStatuses
<1>7. ASSUME NEW d \in ClientIds PROVE Matches(d)' = Matches(d)
  BY <1>5, <1>6 DEF Matches, Visible, BookStatuses, Sent
<1>8. ASSUME NEW d \in ClientIds \ {c} PROVE OrdersOf(d)' = {} \/ OrdersOf(d) # {}
  BY <1>5 DEF OrdersOf, Sent
<1>9. \A d \in ClientIds : OrdersOf(d)' # {} /\ Matches(d)' = {} => FullyReserved(d)'
  BY <1>1, <1>4, <1>7, <1>8 DEF ExposureInv, FullyReserved
<1>10. \A v \in Workers, d \in ClientIds :
         wk'[v].step \in HoldingSteps /\ wk'[v].client = d => FullyReserved(d)'
  BY <1>1, <1>3 DEF ExposureInv, HoldingSteps, FullyReserved
<1>11. Committed' \subseteq Committed
  <2>1. \A v \in Workers : wk'[v].step = "send" => wk'[v] = wk[v]
    BY <1>3
  <2>2. QED
    BY <1>4, <1>8, <2>1 DEF Committed
<1>12. CommittedWithinLimit'
  BY <1>11, CommittedShrinks DEF ExposureInv
<1>13. ActiveWithinLimit'
  BY <1>1 DEF ExposureInv, ActiveWithinLimit, Active, ActiveAmount
<1>14. safety' = "clear" => \A b \in BrokerIds : ~Visible(b)'
  BY <1>1, <1>6 DEF ExposureInv
<1>15. \A v \in Workers : wk'[v].step # "refind"
  BY <1>3 DEF ExposureInv
<1>16. \A v \in Workers : wk'[v].step = "reserve" => CurrentExposure <= wk'[v].exposure
  BY <1>3 DEF ExposureInv
<1>17. QED
  BY <1>9, <1>10, <1>12, <1>13, <1>14, <1>15, <1>16 DEF ExposureInv

\* The broker, halts, and steps of nobody: reservations and requests stay.
LEMMA RestExposure ==
  ASSUME Bounded, ExposureInv, UNCHANGED <<wk, reservations>>,
         \A b \in BrokerIds : orders'[b].client = orders[b].client,
         \A b \in BrokerIds : Sent(b)' = Sent(b),
         \A b \in BrokerIds : Visible(b) => Visible(b)',
         safety' = "clear" => /\ safety = "clear"
                              /\ \A b \in BrokerIds : Visible(b)' => Visible(b)
  PROVE  ExposureInv'
<1>1. \A d \in ClientIds : OrdersOf(d)' = OrdersOf(d) /\ (Matches(d)' = {} => Matches(d) = {})
  BY DEF OrdersOf, Matches
<1>2. Committed' \subseteq Committed
  BY <1>1 DEF Committed
<1>3. CommittedWithinLimit'
  BY <1>2, CommittedShrinks DEF ExposureInv
<1>4. ActiveWithinLimit'
  BY DEF ExposureInv, ActiveWithinLimit, Active, ActiveAmount
<1>5. \A d \in ClientIds : OrdersOf(d)' # {} /\ Matches(d)' = {} => FullyReserved(d)'
  BY <1>1 DEF ExposureInv, FullyReserved
<1>6. QED
  BY <1>3, <1>4, <1>5 DEF ExposureInv, FullyReserved

LEMMA BrokerExposure ==
  ASSUME Bounded, ExecInv, ExposureInv, NEW b \in BrokerIds, BrokerStep(b) PROVE ExposureInv'
<1>1. BookStep(b) /\ UNCHANGED <<wk, reservations>>
  BY DEF BrokerStep
<1>2. /\ orders[b].status \in {"inflight", "NEW", "PARTIALLY_FILLED"}
      /\ orders'[b].client = orders[b].client /\ orders'[b].status # "unused"
      /\ Visible(b) => Visible(b)'
      /\ \A d \in BrokerIds \ {b} : orders'[d] = orders[d]
  BY <1>1 DEF BookStep, Receive, FillOne, Cancel, SetOrder, ExecInv, TypeOK, Order, Visible,
     BookStatuses
<1>3. /\ \A d \in BrokerIds : orders'[d].client = orders[d].client
      /\ \A d \in BrokerIds : Sent(d)' = Sent(d)
      /\ \A d \in BrokerIds : Visible(d) => Visible(d)'
  <2>1. Sent(b)' = Sent(b)
    BY <1>2 DEF Sent
  <2>2. QED
    BY <1>2, <2>1 DEF Sent, Visible
<1>4. safety' = "clear" => /\ safety = "clear"
                           /\ \A d \in BrokerIds : Visible(d)' => Visible(d)
  <2>1. safety' = "clear" => safety = "clear" /\ ~Visible(b)'
    BY DEF BrokerStep
  <2>2. QED
    BY <1>2, <2>1 DEF Visible
<1>5. QED
  BY <1>1, <1>3, <1>4, RestExposure

LEMMA HaltExposure ==
  ASSUME Bounded, ExposureInv, NEW p, EmergencyHalt(p) \/ UNCHANGED vars PROVE ExposureInv'
<1>1. UNCHANGED <<wk, reservations, orders>> /\ safety' \in {safety, "halted"}
  BY DEF EmergencyHalt, vars, stores
<1>2. /\ \A b \in BrokerIds : orders'[b].client = orders[b].client
      /\ \A b \in BrokerIds : Sent(b)' = Sent(b)
      /\ \A b \in BrokerIds : Visible(b)' = Visible(b)
  BY <1>1 DEF Sent, Visible
<1>3. safety' = "clear" => /\ safety = "clear"
                           /\ \A b \in BrokerIds : Visible(b)' => Visible(b)
  BY <1>1, <1>2
<1>4. QED
  BY <1>1, <1>2, <1>3, RestExposure

LEMMA ExposurePreserved ==
  Bounded /\ ExecInv /\ RowsInv /\ ExposureInv /\ [Next]_vars => ExposureInv'
<1> SUFFICES ASSUME Bounded, ExecInv, RowsInv, ExposureInv, [Next]_vars PROVE ExposureInv'
  OBVIOUS
<1>1. ASSUME NEW w \in Workers, NEW c \in ClientIds, CreateOrder(w, c) PROVE ExposureInv'
  BY <1>1, CreateExposure
<1>2. ASSUME NEW w \in Workers, WorkerStep(w) \/ StoreFails(w) PROVE ExposureInv'
  BY <1>2, EarlyExposure, AuthorizeExposure, ReserveExposure, RouterExposure, SettleExposure,
     SendExposure, LateExposure DEF WorkerStep
<1>3. ASSUME NEW p \in Processes, EmergencyHalt(p) PROVE ExposureInv'
  BY <1>3, HaltExposure
<1>4. ASSUME NEW p \in Processes, Restart(p) PROVE FALSE
  BY <1>4 DEF Restart, Bounded, ExecInv, TypeOK
<1>5. ASSUME NEW b \in BrokerIds, BrokerStep(b) PROVE ExposureInv'
  BY <1>5, BrokerExposure
<1>6. CASE UNCHANGED vars
  BY <1>6, HaltExposure
<1>7. QED
  BY <1>1, <1>2, <1>3, <1>4, <1>5, <1>6 DEF Next

\* What the orders have at stake is at most what was committed.
LEMMA StakesAreCommitted ==
  ASSUME Bounded, ExecInv, ExposureInv PROVE ExposureWithinLimit
<1> DEFINE S == {b \in BrokerIds : Sent(b)}
           g == [b \in S |-> orders[b].client]
           f == [b \in S |-> AtStake(b)]
           T == {g[b] : b \in S}
<1>1. SUFFICES ASSUME S # {}
               PROVE  CurrentExposure + SumFunction(f) <= MaxTotalExposure
  BY DEF ExposureWithinLimit
<1>2. IsFiniteSet(S) /\ IsFiniteSet(ClientIds) /\ Quantity \in [ClientIds -> Nat]
  BY FS_Subset DEF Bounded
<1>3. \A b \in S : /\ orders[b].client \in ClientIds /\ AtStake(b) \in Nat
                  /\ AtStake(b) <= Quantity[orders[b].client]
  BY DEF ExecInv, TypeOK, Order, OrderOK, AtStake
<1>4. g \in [S -> ClientIds] /\ f \in [S -> Nat] /\ \A b \in S : f[b] <= Quantity[g[b]]
  BY <1>3
<1>5. \A b, d \in S : g[b] = g[d] => b = d
  BY DEF ExecInv, AtMostOneOrder
<1>6. SumFunction(f) = SumFunctionOnSet(f, S)
  BY DEF SumFunction
<1>7. T \subseteq Committed /\ T # {}
  BY <1>1, <1>3 DEF Committed, OrdersOf
<1> HIDE DEF S, f, g
<1>8. SumFunctionOnSet(f, S) <= SumFunctionOnSet(Quantity, T)
  BY <1>2, <1>4, <1>5, SumPerClient
<1> HIDE DEF T
<1>9. IsFiniteSet(Committed) /\ \A c \in Committed : Quantity[c] \in Nat
  BY <1>2, FS_Subset DEF Committed
<1>10. SumFunctionOnSet(Quantity, T) <= SumFunctionOnSet(Quantity, Committed)
  BY <1>7, <1>9, SumOfPart
<1>11. CurrentExposure + SumFunctionOnSet(Quantity, Committed) <= MaxTotalExposure
  BY <1>7 DEF ExposureInv, CommittedWithinLimit
<1>12. SumFunctionOnSet(f, S) \in Nat /\ SumFunctionOnSet(Quantity, Committed) \in Nat
  BY <1>2, <1>4, <1>9, SumOfNumbers
<1>13. SumFunctionOnSet(Quantity, T) \in Nat
  BY <1>7, <1>9, FS_Subset, SumOfNumbers
<1>14. QED
  BY <1>6, <1>8, <1>10, <1>11, <1>12, <1>13

\* With the durable reservations (risk_reservation_store.py reserve), requests of distinct
\* ids, and until a process is restarted, whatever order the broker still fills and whatever
\* is settled in between: what all orders sent can still lead to keeps the limit.
THEOREM ExposureWithinLimitCorrect ==
  ASSUME Durable, OncePerId, MaxRestarts = 0, IsFiniteSet(ClientIds), IsFiniteSet(BrokerIds)
  PROVE  Spec => []ExposureWithinLimit
<1>1. Bounded
  BY DEF Bounded
<1>2. Init => ExecInv /\ RowsInv /\ ExposureInv
  BY InitExecInv, RowsInitially, ExposureInitially
<1>3. (ExecInv /\ RowsInv /\ ExposureInv) /\ [Next]_vars => (ExecInv /\ RowsInv /\ ExposureInv)'
  BY <1>1, StepPreserves, RowsPreserved, ExposurePreserved DEF Bounded
<1>4. ExecInv /\ ExposureInv => ExposureWithinLimit
  BY <1>1, StakesAreCommitted
<1>5. QED
  BY <1>2, <1>3, <1>4, PTL DEF Spec
=============================================================================
