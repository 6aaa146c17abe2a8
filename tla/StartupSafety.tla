--------------------------- MODULE StartupSafety ----------------------------
(***************************************************************************)
(* The lifespan of main.py against the safety state that all processes      *)
(* share: when a process may become READY, when trading is halted, and what *)
(* lifts a halt or the risk circuit.                                        *)
(*                                                                          *)
(* Every process has a startup state machine and an in-memory circuit       *)
(* breaker of its own; SafetyStateStore is one file under a file lock, so   *)
(* each of its operations is one step. Its reads and its writes are steps   *)
(* of their own wherever the code does not hold the lock across them. With  *)
(* several active accounts MultiAccountStartupRecovery runs, with one (or   *)
(* none) BrokerStartupRecovery and StartupRecoveryManager.                  *)
(*                                                                          *)
(* As wired today no startup gets far: the routes of active accounts do not *)
(* pass their validation (module BrokerAccounts; here the failing outcome   *)
(* of Provision), and the engine's state store has no record_check, so that *)
(* every observation raises (ChecksRecorded is FALSE). With ChecksRecorded  *)
(* the module is broader than the code: it checks what the rest of the      *)
(* lifespan does once the two calls work, as in the tests of the recovery   *)
(* (tests/test_multi_account_startup_recovery.py:38).                       *)
(***************************************************************************)
EXTENDS Naturals, FiniteSets

CONSTANTS
  Processes,
  Accounts,        \* broker accounts
  ActiveSets,      \* the sets of them that may be active at a startup
  ChecksRecorded,  \* the engine's state store has record_check, or there is none
  Faults,          \* startup checks that may fail
  MaxTime,         \* bound: the clock
  MaxStops,        \* bound: processes stopped
  MaxHalts         \* bound: halts ordered by operators or components

ASSUME StartupAssumption ==
  /\ IsFiniteSet(Accounts)
  /\ ActiveSets \subseteq SUBSET Accounts
  /\ ChecksRecorded \in BOOLEAN
  /\ Faults \subseteq {"provision", "unscoped", "snapshot", "drift", "projection"}
  /\ MaxTime \in Nat \ {0} /\ MaxStops \in Nat /\ MaxHalts \in Nat

VARIABLES
  clock,    \* the wall clock
  safety,   \* SafetyStateStore
  machine,  \* per process: StartupExecutionStateMachine
  breaker,  \* per process: TradingRiskCircuitBreaker is blocked
  boot,     \* per process: where its lifespan is
  stops, halts

vars == <<clock, safety, machine, breaker, boot, stops, halts>>

-----------------------------------------------------------------------------

Times == 1..MaxTime
Never == 0
MaybeTimes == Times \cup {Never}

StartupStates == {"LOCKED", "RECOVERING", "BROKER_RECONCILED", "PORTFOLIO_RECONCILED",
                  "RISK_READY", "READY", "FAILED", "HALTED"}

\* halt_reason, as far as it tells who halted.
Reasons == {"none", "operator", "component", "startup"}

SafetyState == [halted: BOOLEAN, reason: Reasons, haltedAt: MaybeTimes,
                recon: [Accounts -> MaybeTimes], latest: MaybeTimes,
                blocked: BOOLEAN, engagedAt: MaybeTimes]

BootSteps == {"down", "provision", "haltcheck", "observe", "persisted", "clear",
              "orders", "serving"}

Boot == [step: BootSteps, active: SUBSET Accounts, startedAt: MaybeTimes,
         observed: [Accounts -> MaybeTimes], failed: SUBSET Accounts]

DownBoot == [step |-> "down", active |-> {}, startedAt |-> Never,
             observed |-> [a \in Accounts |-> Never], failed |-> {}]

TypeOK ==
  /\ clock \in Times
  /\ safety \in SafetyState
  /\ safety.halted <=> safety.haltedAt # Never
  /\ safety.blocked <=> safety.engagedAt # Never
  /\ machine \in [Processes -> StartupStates]
  /\ breaker \in [Processes -> BOOLEAN]
  /\ boot \in [Processes -> Boot]
  /\ stops \in 0..MaxStops
  /\ halts \in 0..MaxHalts

\* An empty store reads as the default SafetyState().
Init ==
  /\ clock = 1
  /\ safety = [halted |-> FALSE, reason |-> "none", haltedAt |-> Never,
               recon |-> [a \in Accounts |-> Never], latest |-> Never,
               blocked |-> FALSE, engagedAt |-> Never]
  /\ machine = [p \in Processes |-> "LOCKED"]
  /\ breaker = [p \in Processes |-> FALSE]
  /\ boot = [p \in Processes |-> DownBoot]
  /\ stops = 0 /\ halts = 0

At(p, s) == boot[p].step = s
Multi(p) == Cardinality(boot[p].active) > 1

GoTo(p, s) == boot' = [boot EXCEPT ![p].step = s]
Machine(p, s) == machine' = [machine EXCEPT ![p] = s]

\* The process serves without having recovered: what it saw is of no use.
Locked(p, s) ==
  Machine(p, s) /\ boot' = [boot EXCEPT ![p] = [DownBoot EXCEPT !.step = "serving"]]

\* startup_state.fail and the end of the lifespan's startup part.
Fails(p) == Locked(p, "FAILED")

\* An exception leaves the lifespan: the application does not start.
Dies(p) == boot' = [boot EXCEPT ![p] = DownBoot] /\ Machine(p, "LOCKED")

-----------------------------------------------------------------------------
(* SafetyStateStore.                                                        *)

\* Mutant: a halt does not store its time.
HaltedUndated(r) == [safety EXCEPT !.halted = TRUE, !.reason = r, !.latest = Never]

\* halt: the reconciliation of each account is kept, the latest one is not.
Halted(r) ==
  [safety EXCEPT !.halted = TRUE, !.reason = r, !.haltedAt = clock, !.latest = Never]

\* Mutant: one account observed after the halt is enough.
ClearAcceptsAny(p) ==
  safety.halted => \E a \in boot[p].active : boot[p].observed[a] > safety.haltedAt

\* clear_all refuses an observation that is not younger than the halt.
ClearAccepts(p) ==
  safety.halted => \A a \in boot[p].active : boot[p].observed[a] > safety.haltedAt

\* The latest reconciliation after clear_all is one of these.
Reconciliations(p) ==
  {safety.latest} \cup {boot[p].observed[a] : a \in boot[p].active}

IsLatest(p, t) == t \in Reconciliations(p) /\ \A u \in Reconciliations(p) : u <= t

\* clear_all stores of each account the observation it was given.
Cleared(p, latest) ==
  [safety EXCEPT !.halted = FALSE, !.reason = "none", !.haltedAt = Never,
                 !.recon = [a \in Accounts |->
                              IF a \in boot[p].active THEN boot[p].observed[a] ELSE @[a]],
                 !.latest = latest]

\* risk_circuit_reset_ready
ResetReady ==
  safety.latest > safety.engagedAt \/ \E a \in Accounts : safety.recon[a] > safety.engagedAt

-----------------------------------------------------------------------------
(* The lifespan.                                                            *)

\* Mutant: a new process does not read the persisted circuit.
StartUnblocked(p) ==
  \E active \in ActiveSets :
    /\ At(p, "down")
    /\ boot' = [boot EXCEPT ![p] = [DownBoot EXCEPT !.step = "provision", !.active = active,
                                                    !.startedAt = clock]]
    /\ Machine(p, "LOCKED")
    /\ breaker' = [breaker EXCEPT ![p] = FALSE]
    /\ UNCHANGED <<clock, safety, stops, halts>>

\* The module is imported: ObservableRiskCircuitBreaker reads the store.
Start(p) ==
  \E active \in ActiveSets :
    /\ At(p, "down")
    /\ boot' = [boot EXCEPT ![p] = [DownBoot EXCEPT !.step = "provision", !.active = active,
                                                    !.startedAt = clock]]
    /\ Machine(p, "LOCKED")
    /\ breaker' = [breaker EXCEPT ![p] = safety.blocked]
    /\ UNCHANGED <<clock, safety, stops, halts>>

\* Migrations and account routes. A failure is reported with fail(), which
\* LOCKED does not allow: it raises.
Provision(p) ==
  /\ At(p, "provision")
  /\ \/ GoTo(p, "haltcheck") /\ UNCHANGED machine
     \/ "provision" \in Faults /\ Dies(p)
  /\ UNCHANGED <<clock, safety, breaker, stops, halts>>

\* A persisted halt ends the startup; otherwise recovery begins.
HaltCheck(p) ==
  /\ At(p, "haltcheck")
  /\ \/ safety.halted /\ Locked(p, "HALTED")
     \/ /\ ~safety.halted
        /\ Machine(p, "RECOVERING")
        /\ GoTo(p, IF boot[p].active = {} THEN "persisted" ELSE "observe")
  /\ UNCHANGED <<clock, safety, breaker, stops, halts>>

\* ReconciliationCoordinator.reconcile of one account: the snapshot agrees
\* with the stores (its time is that of the check) or the call raises. With the
\* state store of broker_factory.py, which has no record_check, check() always
\* raises. Several accounts are not looked at when a persisted order or position
\* names no account.
Observe(p) ==
  LET todo == {a \in boot[p].active : boot[p].observed[a] = Never} \ boot[p].failed
      ok(a) == boot' = [boot EXCEPT ![p].observed = [@ EXCEPT ![a] = clock],
                                    ![p].step = IF Multi(p) THEN "observe" ELSE "persisted"]
      fails == ~ChecksRecorded \/ "snapshot" \in Faults
  IN
  /\ At(p, "observe")
  /\ \E a \in todo :
       \/ ChecksRecorded /\ ok(a) /\ UNCHANGED machine
       \/ /\ fails /\ Multi(p)
          /\ boot' = [boot EXCEPT ![p].failed = @ \cup {a}]
          /\ UNCHANGED machine
       \/ fails /\ ~Multi(p) /\ Dies(p)
       \/ "unscoped" \in Faults /\ Multi(p) /\ todo = boot[p].active /\ Fails(p)
  /\ UNCHANGED <<clock, safety, breaker, stops, halts>>

Observed(p) ==
  \A a \in boot[p].active : boot[p].observed[a] # Never \/ a \in boot[p].failed

\* Mutant: an account that could not be reconciled does not stop the startup.
EndRecoveryPartial(p) ==
  /\ At(p, "observe") /\ Multi(p) /\ Observed(p)
  /\ boot[p].failed # boot[p].active
  /\ Machine(p, "RISK_READY") /\ GoTo(p, "clear")
  /\ UNCHANGED <<clock, safety, breaker, stops, halts>>

\* The end of MultiAccountStartupRecovery.run and the projection of the rows.
EndRecovery(p) ==
  /\ At(p, "observe") /\ Multi(p) /\ Observed(p)
  /\ \/ /\ boot[p].failed # {}
        /\ safety' = Halted("startup")
        /\ Fails(p)
     \/ /\ boot[p].failed = {} /\ "projection" \in Faults
        /\ Fails(p) /\ UNCHANGED safety
     \/ /\ boot[p].failed = {}
        /\ Machine(p, "RISK_READY") /\ GoTo(p, "clear")
        /\ UNCHANGED safety
  /\ UNCHANGED <<clock, breaker, stops, halts>>

\* StartupRecoveryManager.startup up to its clear: a second comparison, the
\* persisted halt, and a route that is bound to an account.
LoadPersisted(p) ==
  /\ At(p, "persisted")
  /\ \/ "drift" \in Faults /\ safety' = Halted("startup") /\ Fails(p)
     \/ safety.halted /\ safety' = Halted(safety.reason) /\ Fails(p)
     \/ ~safety.halted /\ boot[p].active = {} /\ safety' = Halted("startup") /\ Fails(p)
     \/ /\ ~safety.halted /\ boot[p].active # {}
        /\ GoTo(p, "clear") /\ UNCHANGED <<safety, machine>>
  /\ UNCHANGED <<clock, breaker, stops, halts>>

\* clear_all. Refused, the multi-account startup fails and the manager of the
\* other one halts.
ClearSafety(p) ==
  /\ At(p, "clear")
  /\ \/ /\ ClearAccepts(p)
        /\ \E t \in MaybeTimes : IsLatest(p, t) /\ safety' = Cleared(p, t)
        /\ IF Multi(p) THEN Machine(p, "READY") /\ GoTo(p, "serving")
           ELSE GoTo(p, "orders") /\ UNCHANGED machine
     \/ /\ ~ClearAccepts(p)
        /\ safety' = IF Multi(p) THEN safety ELSE Halted("startup")
        /\ Fails(p)
  /\ UNCHANGED <<clock, breaker, stops, halts>>

\* The rest of the single-account startup: pending orders, the rows, the
\* positions, and StartupReconciliationGate.evaluate, which compares the
\* startup state machine, by then BROKER_RECONCILED, with RecoveryState.READY:
\* it refuses before it looks at a position.
EndSingle(p) ==
  /\ At(p, "orders")
  /\ Fails(p)
  /\ UNCHANGED <<clock, safety, breaker, stops, halts>>

-----------------------------------------------------------------------------
(* While a process serves.                                                  *)

Serving(p) == At(p, "serving")

\* EmergencyHaltController.halt
EmergencyHalt(p) ==
  /\ Serving(p) /\ halts < MaxHalts
  /\ halts' = halts + 1
  /\ safety' = Halted("operator")
  /\ Machine(p, "HALTED")
  /\ UNCHANGED <<clock, breaker, boot, stops>>

\* The router or another component halts trading in the store only.
ComponentHalt(p) ==
  /\ Serving(p) /\ halts < MaxHalts
  /\ halts' = halts + 1
  /\ safety' = Halted("component")
  /\ UNCHANGED <<clock, machine, breaker, boot, stops>>

\* Mutant: a cleared process trades again.
EmergencyClearReady(p) ==
  /\ Serving(p) /\ ~safety.halted /\ machine[p] = "HALTED"
  /\ Machine(p, "READY")
  /\ UNCHANGED <<clock, safety, breaker, boot, stops, halts>>

\* EmergencyHaltController.clear: while the store is halted it calls
\* safety_store.clear() without its arguments, which raises.
EmergencyClear(p) ==
  /\ Serving(p) /\ ~safety.halted /\ machine[p] = "HALTED"
  /\ Machine(p, "RECOVERING")
  /\ UNCHANGED <<clock, safety, breaker, boot, stops, halts>>

\* engage, and every evaluate that finds the breaker blocked.
EngageCircuit(p) ==
  /\ Serving(p)
  /\ breaker' = [breaker EXCEPT ![p] = TRUE]
  /\ safety' = [safety EXCEPT !.blocked = TRUE, !.engagedAt = clock]
  /\ UNCHANGED <<clock, machine, boot, stops, halts>>

\* reset: refused while the persisted circuit has no younger reconciliation.
ResetCircuit(p) ==
  /\ Serving(p)
  /\ safety.blocked => ResetReady
  /\ breaker' = [breaker EXCEPT ![p] = FALSE]
  /\ safety' = [safety EXCEPT !.blocked = FALSE, !.engagedAt = Never]
  /\ UNCHANGED <<clock, machine, boot, stops, halts>>

\* The process ends, during its startup or later.
Stop(p) ==
  /\ ~At(p, "down") /\ stops < MaxStops
  /\ stops' = stops + 1
  /\ Dies(p)
  /\ UNCHANGED <<clock, safety, breaker, halts>>

Tick ==
  /\ clock < MaxTime
  /\ clock' = clock + 1
  /\ UNCHANGED <<safety, machine, breaker, boot, stops, halts>>

BootStep(p) ==
  \/ Provision(p) \/ HaltCheck(p) \/ Observe(p) \/ EndRecovery(p)
  \/ LoadPersisted(p) \/ ClearSafety(p) \/ EndSingle(p)

Next ==
  \/ Tick
  \/ \E p \in Processes :
       \/ Start(p) \/ BootStep(p) \/ Stop(p)
       \/ EmergencyHalt(p) \/ ComponentHalt(p) \/ EmergencyClear(p)
       \/ EngageCircuit(p) \/ ResetCircuit(p)

Spec == Init /\ [][Next]_vars

\* The lifespan is straight-line code: a process that is not stopped runs it
\* to its end.
FairSpec == Spec /\ \A p \in Processes : WF_vars(BootStep(p))

-----------------------------------------------------------------------------
(* Properties                                                               *)

\* require_trading_ready of api/orders.py.
Accepts(p) ==
  Serving(p) /\ machine[p] = "READY" /\ ~safety.halted /\ ~breaker[p]

\* A process takes orders only after each of its accounts was observed by its
\* own startup, and the store has a reconciliation of each: one account that
\* could not be reconciled keeps all of them locked ("Reconcile every active
\* broker account independently; safety is released by the final startup
\* gate", multi_account_startup_recovery.py:34).
AcceptsOnReconciledAccounts ==
  \A p \in Processes : Accepts(p) =>
    \A a \in boot[p].active : boot[p].observed[a] # Never /\ safety.recon[a] # Never

\* Whatever is interleaved between a startup's halt check, its observations
\* and its clear, a halt is lifted only by observations made after it
\* ("reconciliation must occur after the safety halt", safety_state.py:211).
HaltNeedsNewerReconciliation ==
  [][safety.halted /\ ~safety'.halted =>
       \E p \in Processes :
         /\ boot[p].active # {}
         /\ \A a \in boot[p].active : safety'.recon[a] > safety.haltedAt]_safety

\* A process that was started after the circuit was engaged is blocked by it,
\* whatever other processes reset or engage in between: "risk circuit survives
\* process recreation" (tests/test_risk_circuit_persistence.py:9).
CircuitSurvivesRestart ==
  \A p \in Processes :
    safety.blocked /\ boot[p].startedAt > safety.engagedAt => ~Accepts(p)

\* A process that serves does not become READY again: after a halt or a failed
\* startup only a restart, with its reconciliation, unlocks it
\* (tests/test_startup_execution_state.py:35).
LockedUntilRestart ==
  [][\A p \in Processes :
       Serving(p) /\ machine[p] # "READY" => machine'[p] # "READY"]_machine

\* A startup in which nothing fails and nobody halts makes a process ready.
StartupBecomesReady ==
  (\E p \in Processes : At(p, "provision")) ~> (\E p \in Processes : machine[p] = "READY")
=============================================================================
