------------------------ MODULE StartupSafetyProofs -------------------------
(***************************************************************************)
(* Theorems about StartupSafety, for every set of processes and accounts,   *)
(* every choice of active accounts and faults, with or without recorded     *)
(* checks, and every bound: type correctness, then the inductive invariant  *)
(* BootInv, which says what a startup has established at each of its steps. *)
(*                                                                         *)
(* Then the order records a startup recovers (LocalOrders): LocalInv says   *)
(* which record the rows of a broker order can reach, so that a transition  *)
(* books a fill once, to a record of its order.                            *)
(***************************************************************************)
EXTENDS StartupSafety, LocalOrders, SumTheorems, FiniteSetTheorems, TLAPS

USE StartupAssumption

\* Each observation a startup needs is there.
Complete(p) ==
  /\ boot[p].active # {}
  /\ \A a \in boot[p].active : boot[p].observed[a] # Never

ReadyOK(p) ==
  machine[p] = "READY" =>
    /\ At(p, "serving")
    /\ \A a \in boot[p].active : boot[p].observed[a] # Never /\ safety.recon[a] # Never

CircuitOK(p) ==
  /\ boot[p].startedAt <= clock
  /\ safety.blocked /\ boot[p].startedAt > safety.engagedAt => breaker[p]

BootOK(p) ==
  /\ At(p, "persisted") /\ boot[p].active # {} => Complete(p)
  /\ boot[p].step \in {"clear", "orders"} => Complete(p)
  /\ ReadyOK(p)
  /\ CircuitOK(p)

BootInv ==
  /\ TypeOK
  /\ \A p \in Processes : BootOK(p)

-----------------------------------------------------------------------------
(* Facts about the parts of a step.                                         *)

LEMMA ConstantTypes ==
  /\ DownBoot \in Boot
  /\ Never \in MaybeTimes
  /\ Times \subseteq MaybeTimes
  /\ MaybeTimes \subseteq Nat
  /\ 1 \in Times
  /\ Never \notin Times
  BY DEF DownBoot, Boot, BootSteps, Never, MaybeTimes, Times

LEMMA HaltedType ==
  ASSUME TypeOK, NEW r \in Reasons
  PROVE  /\ Halted(r) \in SafetyState
         /\ Halted(r).halted /\ Halted(r).haltedAt = clock
         /\ Halted(r).blocked = safety.blocked
         /\ Halted(r).engagedAt = safety.engagedAt
         /\ Halted(r).recon = safety.recon
  BY ConstantTypes DEF TypeOK, Halted, SafetyState

LEMMA ClearedType ==
  ASSUME TypeOK, NEW p \in Processes, NEW t \in MaybeTimes
  PROVE  /\ Cleared(p, t) \in SafetyState
         /\ ~Cleared(p, t).halted /\ Cleared(p, t).haltedAt = Never
         /\ Cleared(p, t).blocked = safety.blocked
         /\ Cleared(p, t).engagedAt = safety.engagedAt
         /\ \A a \in Accounts : Cleared(p, t).recon[a] =
              IF a \in boot[p].active THEN boot[p].observed[a] ELSE safety.recon[a]
<1> DEFINE rec == [a \in Accounts |->
                     IF a \in boot[p].active THEN boot[p].observed[a] ELSE safety.recon[a]]
<1>1. boot[p] \in Boot /\ safety \in SafetyState
  BY DEF TypeOK
<1>2. rec \in [Accounts -> MaybeTimes]
  BY <1>1 DEF Boot, SafetyState
<1>3. Cleared(p, t) = [safety EXCEPT !.halted = FALSE, !.reason = "none", !.haltedAt = Never,
                                     !.recon = rec, !.latest = t]
  BY <1>1 DEF Cleared, SafetyState
<1> HIDE DEF rec
<1>4. /\ Cleared(p, t) \in SafetyState
      /\ ~Cleared(p, t).halted /\ Cleared(p, t).haltedAt = Never
      /\ Cleared(p, t).blocked = safety.blocked
      /\ Cleared(p, t).engagedAt = safety.engagedAt
      /\ Cleared(p, t).recon = rec
  BY <1>1, <1>2, <1>3, ConstantTypes DEF SafetyState, Reasons
<1>5. QED
  BY <1>4 DEF rec

-----------------------------------------------------------------------------
(* A step of one process.                                                   *)

\* Process p is now described by r and m.
Becomes(p, r, m) ==
  /\ boot' = [boot EXCEPT ![p] = r]
  /\ machine' = [machine EXCEPT ![p] = m]

\* The store keeps its circuit and forgets no reconciliation.
StoreKeeps ==
  /\ safety' \in SafetyState
  /\ (safety'.halted <=> safety'.haltedAt # Never)
  /\ safety'.blocked = safety.blocked
  /\ safety'.engagedAt = safety.engagedAt
  /\ \A a \in Accounts : safety.recon[a] # Never => safety'.recon[a] # Never

LEMMA StoreUnchanged == ASSUME TypeOK, safety' = safety PROVE StoreKeeps
  BY DEF TypeOK, StoreKeeps

LEMMA HaltKeeps ==
  ASSUME TypeOK, NEW r \in Reasons, safety' = Halted(r)
  PROVE  StoreKeeps
  BY HaltedType, ConstantTypes DEF TypeOK, StoreKeeps

\* What the new state of the process owes to the invariant.
StateOK(p, r, m) ==
  /\ r.step = "persisted" /\ r.active # {} => \A a \in r.active : r.observed[a] # Never
  /\ r.step \in {"clear", "orders"} =>
       r.active # {} /\ \A a \in r.active : r.observed[a] # Never
  /\ m = "READY" =>
       /\ r.step = "serving"
       /\ \A a \in r.active : r.observed[a] # Never /\ safety'.recon[a] # Never
  /\ r.startedAt \in {Never, boot[p].startedAt}

LEMMA ProcessStep ==
  ASSUME BootInv, NEW p \in Processes, NEW r \in Boot, NEW m \in StartupStates,
         Becomes(p, r, m), StoreKeeps, StateOK(p, r, m),
         clock' = clock, breaker' = breaker,
         stops' \in 0..MaxStops, halts' \in 0..MaxHalts
  PROVE  BootInv'
<1>1. TypeOK'
  BY DEF BootInv, TypeOK, Becomes, StoreKeeps
<1>2. ASSUME NEW q \in Processes PROVE BootOK(q)'
  <2>1. boot'[q] = (IF q = p THEN r ELSE boot[q]) /\ machine'[q] = (IF q = p THEN m ELSE machine[q])
    BY DEF BootInv, TypeOK, Becomes
  <2>2. boot[q] \in Boot /\ clock \in Nat /\ safety \in SafetyState
    BY ConstantTypes DEF BootInv, TypeOK
  <2>3. CASE q = p
    <3>1. CircuitOK(p)'
      <4>1. boot[p].startedAt \in Nat /\ safety.engagedAt \in Nat
        BY <2>2, <2>3, ConstantTypes DEF Boot, SafetyState
      <4>2. CircuitOK(p) /\ boot'[p] = r
        BY <2>1, <2>3 DEF BootInv, BootOK
      <4>3. CASE r.startedAt = Never
        <5>1. ~(r.startedAt > safety.engagedAt) /\ r.startedAt <= clock
          BY <2>2, <4>1, <4>3 DEF Never
        <5>2. QED
          BY <4>2, <5>1 DEF CircuitOK, StoreKeeps
      <4>4. CASE r.startedAt = boot[p].startedAt
        BY <4>2, <4>4 DEF CircuitOK, StoreKeeps
      <4>5. QED
        BY <4>3, <4>4 DEF StateOK
    <3>2. QED
      BY <2>1, <2>3, <3>1 DEF BootOK, ReadyOK, Complete, At, StateOK
  <2>4. CASE q # p
    <3>1. boot[q].active \subseteq Accounts
      BY <2>2 DEF Boot
    <3>2. CircuitOK(q)'
      BY <2>1, <2>4 DEF BootInv, BootOK, CircuitOK, StoreKeeps
    <3>3. ReadyOK(q)'
      BY <2>1, <2>4, <3>1 DEF BootInv, BootOK, ReadyOK, At, StoreKeeps
    <3>4. QED
      BY <2>1, <2>4, <3>2, <3>3 DEF BootInv, BootOK, Complete, At
  <2>5. QED
    BY <2>3, <2>4
<1>3. QED
  BY <1>1, <1>2 DEF BootInv

LEMMA LockedStep ==
  ASSUME BootInv, NEW p \in Processes, NEW s \in {"FAILED", "HALTED"},
         Locked(p, s), StoreKeeps, UNCHANGED <<clock, breaker, stops, halts>>
  PROVE  BootInv'
<1> DEFINE r == [DownBoot EXCEPT !.step = "serving"]
<1>1. r \in Boot /\ r.step = "serving" /\ r.startedAt = Never
  BY ConstantTypes DEF DownBoot, Boot, BootSteps
<1>2. Becomes(p, r, s)
  BY DEF Locked, Machine, Becomes
<1> HIDE DEF r
<1>3. StateOK(p, r, s)
  BY <1>1 DEF StateOK
<1>4. QED
  BY <1>1, <1>2, <1>3, ProcessStep DEF BootInv, TypeOK, StartupStates

LEMMA DiesStep ==
  ASSUME BootInv, NEW p \in Processes, Dies(p), safety' = safety,
         UNCHANGED <<clock, breaker, halts>>, stops' \in 0..MaxStops
  PROVE  BootInv'
<1>1. DownBoot.step = "down" /\ DownBoot.startedAt = Never
  BY DEF DownBoot
<1>2. Becomes(p, DownBoot, "LOCKED")
  BY DEF Dies, Machine, Becomes
<1>3. StateOK(p, DownBoot, "LOCKED")
  BY <1>1 DEF StateOK
<1>4. StoreKeeps
  BY StoreUnchanged DEF BootInv
<1>5. QED
  BY <1>2, <1>3, <1>4, ConstantTypes, ProcessStep DEF BootInv, TypeOK, StartupStates

\* The process goes on to another step of its lifespan.
LEMMA GoToStep ==
  ASSUME BootInv, NEW p \in Processes, NEW s \in BootSteps, NEW m \in StartupStates,
         GoTo(p, s), machine' = [machine EXCEPT ![p] = m], StoreKeeps,
         m = "READY" =>
           /\ s = "serving"
           /\ \A a \in boot[p].active : boot[p].observed[a] # Never /\ safety'.recon[a] # Never,
         s = "persisted" => boot[p].active = {},
         s \in {"clear", "orders"} => Complete(p),
         UNCHANGED <<clock, breaker, stops, halts>>
  PROVE  BootInv'
<1> DEFINE r == [boot[p] EXCEPT !.step = s]
<1>0. boot[p] \in Boot
  BY DEF BootInv, TypeOK
<1>1. /\ r \in Boot /\ r.step = s /\ r.startedAt = boot[p].startedAt
      /\ r.active = boot[p].active /\ r.observed = boot[p].observed
  BY <1>0 DEF Boot
<1>2. Becomes(p, r, m)
  BY DEF GoTo, Becomes, BootInv, TypeOK
<1> HIDE DEF r
<1>3. StateOK(p, r, m)
  BY <1>1 DEF StateOK, Complete
<1>4. QED
  BY <1>1, <1>2, <1>3, ProcessStep DEF BootInv, TypeOK

-----------------------------------------------------------------------------
(* The invariant holds initially and is preserved by every action.          *)

LEMMA InitBootInv == Init => BootInv
<1> SUFFICES ASSUME Init PROVE BootInv
  OBVIOUS
<1>1. /\ DownBoot.step = "down" /\ DownBoot.startedAt = Never
      /\ DownBoot.active = {}
  BY DEF DownBoot
<1>2. TypeOK
  BY ConstantTypes DEF Init, TypeOK, SafetyState, Reasons, StartupStates
<1>3. ASSUME NEW p \in Processes PROVE BootOK(p)
  BY <1>1 DEF Init, BootOK, ReadyOK, CircuitOK, Complete, At, Never
<1>4. QED
  BY <1>2, <1>3 DEF BootInv

LEMMA StartPreserves ==
  ASSUME BootInv, NEW p \in Processes, Start(p) PROVE BootInv'
<1>1. PICK active \in ActiveSets :
        boot' = [boot EXCEPT ![p] = [DownBoot EXCEPT !.step = "provision",
                                       !.active = active, !.startedAt = clock]]
  BY DEF Start
<1> DEFINE r == [DownBoot EXCEPT !.step = "provision", !.active = active, !.startedAt = clock]
<1>2. clock \in MaybeTimes /\ active \in SUBSET Accounts
  BY ConstantTypes DEF BootInv, TypeOK
<1>3. r \in Boot /\ r.step = "provision" /\ r.startedAt = clock
  BY <1>2, ConstantTypes DEF DownBoot, Boot, BootSteps
<1>4. boot' = [boot EXCEPT ![p] = r]
  BY <1>1
<1> HIDE DEF r
<1>5. /\ machine' = [machine EXCEPT ![p] = "LOCKED"]
      /\ breaker' = [breaker EXCEPT ![p] = safety.blocked]
      /\ UNCHANGED <<clock, safety, stops, halts>>
  BY DEF Start, Machine
<1>6. safety.blocked \in BOOLEAN /\ "LOCKED" \in StartupStates
  BY DEF BootInv, TypeOK, SafetyState, StartupStates
<1>7. TypeOK'
  BY <1>3, <1>4, <1>5, <1>6 DEF BootInv, TypeOK
<1>8. ASSUME NEW q \in Processes PROVE BootOK(q)'
  <2>1. CASE q = p
    <3>1. boot'[p] = r /\ machine'[p] = "LOCKED" /\ breaker'[p] = safety.blocked
      BY <1>4, <1>5 DEF BootInv, TypeOK
    <3>2. clock \in Nat
      BY <1>2, ConstantTypes
    <3>3. CircuitOK(p)'
      BY <1>3, <1>5, <3>1, <3>2 DEF CircuitOK
    <3>4. QED
      BY <1>3, <2>1, <3>1, <3>3 DEF BootOK, ReadyOK, At
  <2>2. CASE q # p
    <3>1. boot'[q] = boot[q] /\ machine'[q] = machine[q] /\ breaker'[q] = breaker[q]
      BY <1>4, <1>5, <2>2 DEF BootInv, TypeOK
    <3>2. QED
      BY <1>5, <3>1 DEF BootInv, BootOK, ReadyOK, CircuitOK, Complete, At
  <2>3. QED
    BY <2>1, <2>2
<1>9. QED
  BY <1>7, <1>8 DEF BootInv

LEMMA ProvisionPreserves ==
  ASSUME BootInv, NEW p \in Processes, Provision(p) PROVE BootInv'
<1>1. StoreKeeps
  BY StoreUnchanged DEF Provision, BootInv
<1>2. CASE GoTo(p, "haltcheck") /\ UNCHANGED machine
  <2>1. machine' = [machine EXCEPT ![p] = machine[p]] /\ machine[p] \in StartupStates
    BY <1>2 DEF BootInv, TypeOK
  <2>2. machine[p] # "READY"
    BY DEF BootInv, BootOK, ReadyOK, Provision, At
  <2>3. QED
    BY <1>1, <1>2, <2>1, <2>2, GoToStep DEF Provision, BootSteps
<1>3. CASE Dies(p)
  BY <1>3, DiesStep DEF Provision, BootInv, TypeOK
<1>4. QED
  BY <1>2, <1>3 DEF Provision

LEMMA HaltCheckPreserves ==
  ASSUME BootInv, NEW p \in Processes, HaltCheck(p) PROVE BootInv'
<1>1. StoreKeeps
  BY StoreUnchanged DEF HaltCheck, BootInv
<1>2. CASE Locked(p, "HALTED")
  BY <1>1, <1>2, LockedStep DEF HaltCheck
<1>3. CASE /\ Machine(p, "RECOVERING")
           /\ GoTo(p, IF boot[p].active = {} THEN "persisted" ELSE "observe")
  BY <1>1, <1>3, GoToStep DEF HaltCheck, Machine, BootSteps, StartupStates
<1>4. QED
  BY <1>2, <1>3 DEF HaltCheck

\* A startup that observes one account only has nothing else to observe.
LEMMA OnlyAccount ==
  ASSUME TypeOK, NEW p \in Processes, ~Multi(p), NEW a \in boot[p].active
  PROVE  boot[p].active = {a}
<1>1. boot[p].active \subseteq Accounts
  BY DEF TypeOK, Boot
<1>2. IsFiniteSet(boot[p].active)
  BY <1>1, FS_Subset
<1>3. Cardinality(boot[p].active) \in Nat /\ Cardinality(boot[p].active) # 0
  BY <1>2, FS_CardinalityType, FS_EmptySet
<1>4. Cardinality(boot[p].active) = 1
  BY <1>3 DEF Multi
<1>5. PICK x : boot[p].active = {x}
  BY <1>2, <1>4, FS_Singleton
<1>6. QED
  BY <1>5

LEMMA ObservePreserves ==
  ASSUME BootInv, NEW p \in Processes, Observe(p) PROVE BootInv'
<1>1. StoreKeeps
  BY StoreUnchanged DEF Observe, BootInv
<1>2. boot[p] \in Boot /\ clock \in MaybeTimes /\ clock # Never
  BY ConstantTypes DEF BootInv, TypeOK
<1>3. machine[p] # "READY" /\ machine[p] \in StartupStates
  BY DEF BootInv, TypeOK, BootOK, ReadyOK, Observe, At
<1>4. PICK a \in boot[p].active :
        \/ /\ boot' = [boot EXCEPT ![p].observed = [@ EXCEPT ![a] = clock],
                                   ![p].step = IF Multi(p) THEN "observe" ELSE "persisted"]
           /\ UNCHANGED machine
        \/ /\ Multi(p) /\ boot' = [boot EXCEPT ![p].failed = @ \cup {a}] /\ UNCHANGED machine
        \/ Dies(p)
        \/ Fails(p)
  BY DEF Observe
<1>5. UNCHANGED <<clock, safety, breaker, stops, halts>>
  BY DEF Observe
<1>6. machine' = machine => machine' = [machine EXCEPT ![p] = machine[p]]
  BY DEF BootInv, TypeOK
<1>7. CASE /\ boot' = [boot EXCEPT ![p].observed = [@ EXCEPT ![a] = clock],
                                  ![p].step = IF Multi(p) THEN "observe" ELSE "persisted"]
           /\ UNCHANGED machine
  <2> DEFINE obs == [boot[p].observed EXCEPT ![a] = clock]
             s == IF Multi(p) THEN "observe" ELSE "persisted"
             r == [boot[p] EXCEPT !.observed = obs, !.step = s]
  <2>1. a \in Accounts /\ obs \in [Accounts -> MaybeTimes] /\ obs[a] = clock
    BY <1>2 DEF Boot
  <2>2. s \in BootSteps
    BY DEF BootSteps
  <2>3. boot' = [boot EXCEPT ![p] = r]
    BY <1>7 DEF BootInv, TypeOK
  <2>4. ~Multi(p) => boot[p].active = {a}
    BY OnlyAccount DEF BootInv
  <2>5. s \in {"observe", "persisted"} /\ (s = "persisted" => ~Multi(p))
    OBVIOUS
  <2> HIDE DEF obs, s
  <2>6. /\ r \in Boot /\ r.step = s /\ r.observed = obs
        /\ r.active = boot[p].active /\ r.startedAt = boot[p].startedAt
    BY <1>2, <2>1, <2>2 DEF Boot
  <2> HIDE DEF r
  <2>7. StateOK(p, r, machine[p])
    BY <1>2, <1>3, <2>1, <2>4, <2>5, <2>6 DEF StateOK
  <2>8. Becomes(p, r, machine[p])
    BY <1>6, <1>7, <2>3 DEF Becomes
  <2>9. QED
    BY <1>1, <1>3, <1>5, <2>6, <2>7, <2>8, ProcessStep DEF BootInv, TypeOK
<1>8. CASE boot' = [boot EXCEPT ![p].failed = @ \cup {a}] /\ UNCHANGED machine
  <2> DEFINE r == [boot[p] EXCEPT !.failed = @ \cup {a}]
  <2>1. boot[p].step = "observe"
    BY DEF Observe, At
  <2>2. boot' = [boot EXCEPT ![p] = r]
    BY <1>8 DEF BootInv, TypeOK
  <2>3. /\ r \in Boot /\ r.step = boot[p].step /\ r.startedAt = boot[p].startedAt
    BY <1>2 DEF Boot
  <2> HIDE DEF r
  <2>4. StateOK(p, r, machine[p])
    BY <1>3, <2>1, <2>3 DEF StateOK
  <2>5. Becomes(p, r, machine[p])
    BY <1>6, <1>8, <2>2 DEF Becomes
  <2>6. QED
    BY <1>1, <1>3, <1>5, <2>3, <2>4, <2>5, ProcessStep DEF BootInv, TypeOK
<1>9. CASE Dies(p)
  BY <1>5, <1>9, DiesStep DEF BootInv, TypeOK
<1>10. CASE Fails(p)
  BY <1>1, <1>5, <1>10, LockedStep DEF Fails
<1>11. QED
  BY <1>4, <1>7, <1>8, <1>9, <1>10

LEMMA EndRecoveryPreserves ==
  ASSUME BootInv, NEW p \in Processes, EndRecovery(p) PROVE BootInv'
<1>1. CASE safety' = Halted("startup") /\ Fails(p)
  <2>1. StoreKeeps
    BY <1>1, HaltKeeps DEF BootInv, Reasons
  <2>2. QED
    BY <1>1, <2>1, LockedStep DEF EndRecovery, Fails
<1>2. CASE Fails(p) /\ UNCHANGED safety
  <2>1. StoreKeeps
    BY <1>2, StoreUnchanged DEF BootInv
  <2>2. QED
    BY <1>2, <2>1, LockedStep DEF EndRecovery, Fails
<1>3. CASE /\ boot[p].failed = {}
           /\ Machine(p, "RISK_READY") /\ GoTo(p, "clear") /\ UNCHANGED safety
  <2>1. StoreKeeps
    BY <1>3, StoreUnchanged DEF BootInv
  <2>2. boot[p].active # {}
    <3>1. Cardinality(boot[p].active) # 0
      BY DEF EndRecovery, Multi
    <3>2. Cardinality({}) = 0
      BY FS_EmptySet
    <3>3. QED
      BY <3>1, <3>2
  <2>3. Complete(p)
    BY <1>3, <2>2 DEF EndRecovery, Observed, Complete
  <2>4. QED
    BY <1>3, <2>1, <2>3, GoToStep DEF EndRecovery, Machine, BootSteps, StartupStates
<1>4. QED
  BY <1>1, <1>2, <1>3 DEF EndRecovery

LEMMA LoadPersistedPreserves ==
  ASSUME BootInv, NEW p \in Processes, LoadPersisted(p) PROVE BootInv'
<1>1. CASE \E r \in Reasons : safety' = Halted(r) /\ Fails(p)
  <2>1. StoreKeeps
    BY <1>1, HaltKeeps DEF BootInv
  <2>2. QED
    BY <1>1, <2>1, LockedStep DEF LoadPersisted, Fails
<1>2. CASE boot[p].active # {} /\ GoTo(p, "clear") /\ UNCHANGED <<safety, machine>>
  <2>1. StoreKeeps
    BY <1>2, StoreUnchanged DEF BootInv
  <2>2. Complete(p) /\ machine[p] # "READY"
    BY <1>2 DEF BootInv, BootOK, ReadyOK, LoadPersisted, At
  <2>3. machine' = [machine EXCEPT ![p] = machine[p]] /\ machine[p] \in StartupStates
    BY <1>2 DEF BootInv, TypeOK
  <2>4. QED
    BY <1>2, <2>1, <2>2, <2>3, GoToStep DEF LoadPersisted, BootSteps
<1>3. safety.reason \in Reasons /\ "startup" \in Reasons
  BY DEF BootInv, TypeOK, SafetyState, Reasons
<1>4. QED
  BY <1>1, <1>2, <1>3 DEF LoadPersisted

LEMMA ClearSafetyPreserves ==
  ASSUME BootInv, NEW p \in Processes, ClearSafety(p) PROVE BootInv'
<1>1. Complete(p) /\ machine[p] # "READY"
  BY DEF BootInv, BootOK, ReadyOK, ClearSafety, At
<1>2. CASE \E t \in MaybeTimes : safety' = Cleared(p, t)
  <2>1. PICK t \in MaybeTimes : safety' = Cleared(p, t)
    BY <1>2
  <2>2. StoreKeeps
    BY <1>1, <2>1, ClearedType DEF BootInv, TypeOK, StoreKeeps, Complete
  <2>3. \A a \in boot[p].active : boot[p].observed[a] # Never /\ safety'.recon[a] # Never
    <3>1. boot[p].active \subseteq Accounts
      BY DEF BootInv, TypeOK, Boot
    <3>2. QED
      BY <1>1, <2>1, <3>1, ClearedType DEF BootInv, Complete
  <2>4. CASE Machine(p, "READY") /\ GoTo(p, "serving")
    BY <2>2, <2>3, <2>4, GoToStep DEF ClearSafety, Machine, BootSteps, StartupStates
  <2>5. CASE GoTo(p, "orders") /\ UNCHANGED machine
    <3>1. machine' = [machine EXCEPT ![p] = machine[p]] /\ machine[p] \in StartupStates
      BY <2>5 DEF BootInv, TypeOK
    <3>2. QED
      BY <1>1, <2>2, <2>5, <3>1, GoToStep DEF ClearSafety, BootSteps
  <2>6. CASE Fails(p)
    BY <2>2, <2>6, LockedStep DEF ClearSafety, Fails
  <2>7. QED
    BY <2>4, <2>5, <2>6 DEF ClearSafety
<1>3. CASE (safety' = IF Multi(p) THEN safety ELSE Halted("startup")) /\ Fails(p)
  <2>1. StoreKeeps
    BY <1>3, HaltKeeps, StoreUnchanged DEF BootInv, Reasons
  <2>2. QED
    BY <1>3, <2>1, LockedStep DEF ClearSafety, Fails
<1>4. QED
  BY <1>2, <1>3 DEF ClearSafety

LEMMA EndSinglePreserves ==
  ASSUME BootInv, NEW p \in Processes, EndSingle(p) PROVE BootInv'
<1>1. StoreKeeps
  BY StoreUnchanged DEF EndSingle, BootInv
<1>2. QED
  BY <1>1, LockedStep DEF EndSingle, Fails

\* Steps of a serving process: its boot stays and it does not become READY.
LEMMA ServingStep ==
  ASSUME BootInv, NEW p \in Processes, NEW m \in StartupStates \ {"READY"},
         machine' = [machine EXCEPT ![p] = m] \/ machine' = machine,
         StoreKeeps, halts' \in 0..MaxHalts,
         UNCHANGED <<clock, breaker, boot, stops>>
  PROVE  BootInv'
<1>1. TypeOK'
  BY DEF BootInv, TypeOK, StoreKeeps
<1>2. ASSUME NEW q \in Processes PROVE BootOK(q)'
  <2>1. boot[q].active \subseteq Accounts
    BY DEF BootInv, TypeOK, Boot
  <2>2. machine'[q] = "READY" => machine[q] = "READY"
    BY DEF BootInv, TypeOK
  <2>3. ReadyOK(q)'
    BY <2>1, <2>2 DEF BootInv, BootOK, ReadyOK, At, StoreKeeps
  <2>4. CircuitOK(q)'
    BY DEF BootInv, BootOK, CircuitOK, StoreKeeps
  <2>5. QED
    BY <2>3, <2>4 DEF BootInv, BootOK, Complete, At
<1>3. QED
  BY <1>1, <1>2 DEF BootInv

LEMMA EmergencyHaltPreserves ==
  ASSUME BootInv, NEW p \in Processes, EmergencyHalt(p) PROVE BootInv'
<1>1. StoreKeeps /\ halts' \in 0..MaxHalts
  BY HaltKeeps DEF EmergencyHalt, BootInv, TypeOK, Reasons
<1>2. QED
  BY <1>1, ServingStep DEF EmergencyHalt, Machine, StartupStates

LEMMA ComponentHaltPreserves ==
  ASSUME BootInv, NEW p \in Processes, ComponentHalt(p) PROVE BootInv'
<1>1. StoreKeeps /\ halts' \in 0..MaxHalts
  BY HaltKeeps DEF ComponentHalt, BootInv, TypeOK, Reasons
<1>2. "HALTED" \in StartupStates \ {"READY"}
  BY DEF StartupStates
<1>3. QED
  BY <1>1, <1>2, ServingStep DEF ComponentHalt

LEMMA EmergencyClearPreserves ==
  ASSUME BootInv, NEW p \in Processes, EmergencyClear(p) PROVE BootInv'
<1>1. StoreKeeps /\ halts' \in 0..MaxHalts
  BY StoreUnchanged DEF EmergencyClear, BootInv, TypeOK
<1>2. QED
  BY <1>1, ServingStep DEF EmergencyClear, Machine, StartupStates

\* No process was started after an engagement that is made now.
LEMMA EngageCircuitPreserves ==
  ASSUME BootInv, NEW p \in Processes, EngageCircuit(p) PROVE BootInv'
<1>1. clock \in MaybeTimes /\ clock # Never /\ safety \in SafetyState
  BY ConstantTypes DEF BootInv, TypeOK
<1>2. /\ safety' \in SafetyState /\ safety'.engagedAt = clock /\ safety'.blocked
      /\ safety'.halted = safety.halted /\ safety'.haltedAt = safety.haltedAt
      /\ safety'.recon = safety.recon
  BY <1>1 DEF EngageCircuit, SafetyState
<1>3. TypeOK'
  BY <1>1, <1>2 DEF EngageCircuit, BootInv, TypeOK
<1>4. ASSUME NEW q \in Processes PROVE BootOK(q)'
  <2>1. boot[q].startedAt \in Nat /\ clock \in Nat
    BY <1>1, ConstantTypes DEF BootInv, TypeOK, Boot
  <2>2. boot[q].startedAt <= clock
    BY DEF BootInv, BootOK, CircuitOK
  <2>3. CircuitOK(q)'
    BY <1>2, <2>1, <2>2 DEF EngageCircuit, CircuitOK
  <2>4. QED
    BY <1>2, <2>3 DEF EngageCircuit, BootInv, BootOK, ReadyOK, Complete, At
<1>5. QED
  BY <1>3, <1>4 DEF BootInv

LEMMA ResetCircuitPreserves ==
  ASSUME BootInv, NEW p \in Processes, ResetCircuit(p) PROVE BootInv'
<1>1. safety \in SafetyState /\ Never \in MaybeTimes
  BY ConstantTypes DEF BootInv, TypeOK
<1>2. /\ safety' \in SafetyState /\ safety'.engagedAt = Never /\ ~safety'.blocked
      /\ safety'.halted = safety.halted /\ safety'.haltedAt = safety.haltedAt
      /\ safety'.recon = safety.recon
  BY <1>1 DEF ResetCircuit, SafetyState
<1>3. TypeOK'
  BY <1>1, <1>2 DEF ResetCircuit, BootInv, TypeOK
<1>4. ASSUME NEW q \in Processes PROVE BootOK(q)'
  BY <1>2 DEF ResetCircuit, BootInv, BootOK, ReadyOK, CircuitOK, Complete, At
<1>5. QED
  BY <1>3, <1>4 DEF BootInv

LEMMA StopPreserves ==
  ASSUME BootInv, NEW p \in Processes, Stop(p) PROVE BootInv'
<1>1. stops' \in 0..MaxStops
  BY DEF Stop, BootInv, TypeOK
<1>2. QED
  BY <1>1, DiesStep DEF Stop

LEMMA TickPreserves ==
  ASSUME BootInv, Tick PROVE BootInv'
<1>1. clock \in Nat /\ clock' \in Times /\ clock <= clock'
  BY DEF Tick, BootInv, TypeOK, Times
<1>2. ASSUME NEW q \in Processes PROVE boot[q].startedAt <= clock'
  <2>1. boot[q].startedAt \in Nat /\ boot[q].startedAt <= clock
    BY ConstantTypes DEF BootInv, BootOK, CircuitOK, TypeOK, Boot
  <2>2. QED
    BY <1>1, <2>1 DEF Times
<1>3. QED
  BY <1>1, <1>2
  DEF Tick, BootInv, TypeOK, BootOK, ReadyOK, CircuitOK, Complete, At

LEMMA StepPreserves == BootInv /\ [Next]_vars => BootInv'
<1> SUFFICES ASSUME BootInv, [Next]_vars PROVE BootInv'
  OBVIOUS
<1>1. CASE UNCHANGED vars
  BY <1>1 DEF vars, BootInv, TypeOK, BootOK, ReadyOK, CircuitOK, Complete, At
<1>2. CASE Tick
  BY <1>2, TickPreserves
<1>3. ASSUME NEW p \in Processes, Start(p) \/ BootStep(p) \/ Stop(p) PROVE BootInv'
  BY <1>3, StartPreserves, ProvisionPreserves, HaltCheckPreserves, ObservePreserves,
     EndRecoveryPreserves, LoadPersistedPreserves, ClearSafetyPreserves,
     EndSinglePreserves, StopPreserves DEF BootStep
<1>4. ASSUME NEW p \in Processes,
             \/ EmergencyHalt(p) \/ ComponentHalt(p) \/ EmergencyClear(p)
             \/ EngageCircuit(p) \/ ResetCircuit(p)
      PROVE  BootInv'
  BY <1>4, EmergencyHaltPreserves, ComponentHaltPreserves, EmergencyClearPreserves,
     EngageCircuitPreserves, ResetCircuitPreserves
<1>5. QED
  BY <1>1, <1>2, <1>3, <1>4 DEF Next

-----------------------------------------------------------------------------
(* Theorems.                                                                *)

LEMMA InvariantHolds == Spec => []BootInv
<1>1. Init => BootInv
  BY InitBootInv
<1>2. BootInv /\ [Next]_vars => BootInv'
  BY StepPreserves
<1>3. QED
  BY <1>1, <1>2, PTL DEF Spec

\* The store, the startup machines and the lifespans always have their types,
\* and a halt and an engagement always carry their time.
THEOREM TypeCorrect == Spec => []TypeOK
<1>1. BootInv => TypeOK
  BY DEF BootInv
<1>2. QED
  BY <1>1, InvariantHolds, PTL

\* A process takes orders only on accounts that its own startup observed and
\* that the store has a reconciliation of (require_trading_ready).
THEOREM AcceptanceCorrect == Spec => []AcceptsOnReconciledAccounts
<1>1. BootInv => AcceptsOnReconciledAccounts
  BY DEF BootInv, BootOK, ReadyOK, AcceptsOnReconciledAccounts, Accepts
<1>2. QED
  BY <1>1, InvariantHolds, PTL

\* A process started after the circuit was engaged is blocked by it.
THEOREM CircuitCorrect == Spec => []CircuitSurvivesRestart
<1>1. BootInv => CircuitSurvivesRestart
  BY DEF BootInv, BootOK, CircuitOK, CircuitSurvivesRestart, Accepts
<1>2. QED
  BY <1>1, InvariantHolds, PTL

\* Only clear_all ends a halt, and it does so with an observation of each
\* account of that startup which is younger than the halt.
LEMMA HaltStep ==
  ASSUME BootInv, [Next]_vars, safety.halted, ~safety'.halted
  PROVE  \E p \in Processes :
           /\ boot[p].active # {}
           /\ \A a \in boot[p].active : safety'.recon[a] > safety.haltedAt
<1>1. ASSUME NEW r \in Reasons, safety' = Halted(r) PROVE FALSE
  BY <1>1, HaltedType DEF BootInv
<1>2. safety' # safety
  OBVIOUS
<1>3. safety \in SafetyState /\ "startup" \in Reasons /\ "operator" \in Reasons
      /\ "component" \in Reasons
  BY DEF BootInv, TypeOK, Reasons
<1>4. safety.reason \in Reasons
  BY <1>3 DEF SafetyState
<1>5. ASSUME NEW p \in Processes, EngageCircuit(p) \/ ResetCircuit(p) PROVE FALSE
  BY <1>3, <1>5 DEF EngageCircuit, ResetCircuit, SafetyState
<1>6. ASSUME NEW p \in Processes, ~ClearSafety(p), BootStep(p) PROVE FALSE
  BY <1>1, <1>2, <1>3, <1>4, <1>6
  DEF BootStep, Provision, HaltCheck, Observe, EndRecovery, LoadPersisted, EndSingle
<1>7. ASSUME NEW p \in Processes,
             Start(p) \/ Stop(p) \/ EmergencyHalt(p) \/ ComponentHalt(p) \/ EmergencyClear(p)
      PROVE  FALSE
  BY <1>1, <1>2, <1>3, <1>7 DEF Start, Stop, EmergencyHalt, ComponentHalt, EmergencyClear
<1>8. PICK p \in Processes : ClearSafety(p)
  BY <1>2, <1>5, <1>6, <1>7 DEF Next, Tick, vars
<1>9. ClearAccepts(p) /\ \E t \in MaybeTimes : safety' = Cleared(p, t)
  BY <1>1, <1>2, <1>3, <1>8 DEF ClearSafety
<1>10. boot[p].active # {} /\ boot[p].active \subseteq Accounts
  BY <1>8 DEF BootInv, BootOK, Complete, ClearSafety, At, TypeOK, Boot
<1>11. \A a \in boot[p].active : safety'.recon[a] = boot[p].observed[a]
  BY <1>9, <1>10, ClearedType DEF BootInv
<1>12. QED
  BY <1>9, <1>10, <1>11 DEF ClearAccepts

\* A halt is lifted only by observations that were made after it, whatever the
\* other processes did since the startup checked it.
THEOREM HaltsCorrect == Spec => HaltNeedsNewerReconciliation
<1> DEFINE Lifts ==
      safety.halted /\ ~safety'.halted =>
        \E p \in Processes :
          /\ boot[p].active # {}
          /\ \A a \in boot[p].active : safety'.recon[a] > safety.haltedAt
<1>1. BootInv /\ [Next]_vars => [Lifts]_safety
  BY HaltStep
<1> HIDE DEF Lifts
<1>2. BootInv /\ [Next]_vars => [Lifts]_safety
  BY <1>1
<1>3. Spec => [][Lifts]_safety
  BY <1>2, InvariantHolds, PTL DEF Spec
<1>4. QED
  BY <1>3 DEF HaltNeedsNewerReconciliation, Lifts

\* A process that serves and is not READY is unlocked by no step but a restart.
LEMMA UnlockStep ==
  ASSUME BootInv, [Next]_vars, NEW p \in Processes, Serving(p), machine[p] # "READY"
  PROVE  machine'[p] # "READY"
<1>1. machine \in [Processes -> StartupStates]
  BY DEF BootInv, TypeOK
<1>2. ASSUME NEW q \in Processes, BootStep(q) PROVE q # p
  BY <1>2 DEF BootStep, Provision, HaltCheck, Observe, EndRecovery, LoadPersisted,
     ClearSafety, EndSingle, Serving, At
<1>3. ASSUME NEW q \in Processes, BootStep(q)
      PROVE  machine' = machine \/ \E s : machine' = [machine EXCEPT ![q] = s]
  BY <1>3 DEF BootStep, Provision, HaltCheck, Observe, EndRecovery, LoadPersisted,
     ClearSafety, EndSingle, Dies, Fails, Locked, Machine
<1>4. ASSUME NEW q \in Processes, BootStep(q) PROVE machine'[p] = machine[p]
  BY <1>1, <1>2, <1>3, <1>4
<1>5. ASSUME NEW q \in Processes,
             \/ Start(q) \/ Stop(q) \/ EmergencyHalt(q) \/ ComponentHalt(q)
             \/ EmergencyClear(q) \/ EngageCircuit(q) \/ ResetCircuit(q)
      PROVE  machine'[p] \in {machine[p], "LOCKED", "HALTED", "RECOVERING"}
  BY <1>1, <1>5 DEF Start, Stop, EmergencyHalt, ComponentHalt, EmergencyClear,
     EngageCircuit, ResetCircuit, Dies, Machine
<1>6. CASE Tick \/ UNCHANGED vars
  BY <1>6 DEF Tick, vars
<1>7. QED
  BY <1>4, <1>5, <1>6 DEF Next

\* After a halt or a failed startup only a restart unlocks a process.
THEOREM UnlockingCorrect == Spec => LockedUntilRestart
<1> DEFINE StaysLocked == \A p \in Processes :
                      Serving(p) /\ machine[p] # "READY" => machine'[p] # "READY"
<1>1. BootInv /\ [Next]_vars => [StaysLocked]_machine
  BY UnlockStep
<1> HIDE DEF StaysLocked
<1>2. BootInv /\ [Next]_vars => [StaysLocked]_machine
  BY <1>1
<1>3. Spec => [][StaysLocked]_machine
  BY <1>2, InvariantHolds, PTL DEF Spec
<1>4. QED
  BY <1>3 DEF LockedUntilRestart, StaysLocked

HIDE StartupAssumption

-----------------------------------------------------------------------------
(* The records of the local orders.                                         *)

\* What the broker has filled of an order so far.
FilledSoFar(b, rem) == IF rem[b] = <<>> THEN 0 ELSE Last(rem[b]).filled

\* What each record adds to the position.
Parts(bk) == [c \in Ids |-> Signed(bk.records[c].side, bk.records[c].applied)]

UnknownAreBlank(bk) ==
  \A c \in Ids : bk.records[c].status = "NONE" =>
                   bk.records[c].applied = 0 /\ bk.records[c].bound = NoRemote

NetIsTheSum(bk) ==
  IsFiniteSet(Known(bk)) /\ bk.net = SumFunctionOnSet(Parts(bk), Known(bk))

\* A record is of a broker order, or of the client's order it was sent for.
KnownAreOfOrders(bk) ==
  \A c \in Ids : bk.records[c].status # "NONE" => \E b \in RemoteIds : c \in {b, ClientOf[b]}

\* A record is of the account of its broker order.
AccountsHold(bk) ==
  \A b \in RemoteIds : \A c \in {b, ClientOf[b]} :
    bk.records[c].status # "NONE" => bk.records[c].account = AccountOf[b]

\* A record is bound only to an order of its own, whose rows have been shown.
BoundToTheirOwn(bk, rem) ==
  \A c \in Ids : \A b \in RemoteIds :
    bk.records[c].bound = b => c \in {b, ClientOf[b]} /\ rem[b] # <<>>

\* A record made from a row that does not name the client stands beside one that has
\* booked nothing and is bound to nothing.
BesideNothing(bk, rem) ==
  \A b \in RemoteIds : Sole(b, rem) /\ bk.records[b].status # "NONE" =>
    /\ b \notin Tagged
    /\ bk.records[ClientOf[b]].applied = 0 /\ bk.records[ClientOf[b]].bound # b

\* The client's record books an order without its id only once it is bound to it.
BookedWhenBound(bk, rem) ==
  \A b \in RemoteIds : /\ Sole(b, rem) /\ b \notin Tagged
                       /\ bk.records[ClientOf[b]].applied # 0
                       => bk.records[ClientOf[b]].bound = b

BookedIsFilled(bk, rem) ==
  \A b \in RemoteIds : Sole(b, rem) =>
    \A c \in {b, ClientOf[b]} : bk.records[c].applied <= FilledSoFar(b, rem)

BookOK(bk, rem) ==
  /\ bk \in Books
  /\ UnknownAreBlank(bk) /\ NetIsTheSum(bk) /\ KnownAreOfOrders(bk) /\ AccountsHold(bk)
  /\ BoundToTheirOwn(bk, rem) /\ BesideNothing(bk, rem)
  /\ BookedWhenBound(bk, rem) /\ BookedIsFilled(bk, rem)

\* The reports of an order: what it filled only grows.
RemoteOK(rem) ==
  /\ rem = [b \in RemoteIds |-> rem[b]]
  /\ \A b \in RemoteIds :
       /\ rem[b] \in Seq([status : StatusWords, filled : Nat, price : Nat])
       /\ \A n \in DOMAIN rem[b] : /\ rem[b][n].status # "NONE"
                                   /\ rem[b][n].filled <= FilledSoFar(b, rem)

LocalInv == RemoteOK(remote) /\ BookOK(book, remote)

-----------------------------------------------------------------------------
(* Facts of the ids.                                                        *)

LEMMA LocalIdsDiffer ==
  /\ \A b \in RemoteIds : b \in Ids /\ ClientOf[b] \in Ids
  /\ \A a, b \in RemoteIds : /\ a # ClientOf[b]
                             /\ ClientOf[a] = ClientOf[b] => AccountOf[a] = AccountOf[b]
  /\ NoRemote \notin RemoteIds
  /\ \A b \in RemoteIds : SizeOf[b] \in Nat /\ SideOf[b] \in {"BUY", "SELL"}
<1>1. \A b \in RemoteIds : ClientOf[b] \in LocalIds /\ SizeOf[b] \in Nat /\ SideOf[b] \in {"BUY", "SELL"}
  BY LocalOrdersAssumption
<1>2. \A a, b \in RemoteIds : ClientOf[a] = ClientOf[b] => AccountOf[a] = AccountOf[b]
  BY LocalOrdersAssumption, Zenon
<1>3. LocalIds \cap RemoteIds = {} /\ NoRemote \notin RemoteIds
  BY LocalOrdersAssumption, Zenon
<1>4. QED
  BY <1>1, <1>2, <1>3 DEF Ids

\* A record the rows of an order are for is of no other order that is the only one of its
\* client.
LEMMA SoleIsTheOrder ==
  ASSUME NEW rem, NEW b \in RemoteIds, rem[b] # <<>>,
         NEW x \in {b, ClientOf[b]}
  PROVE  \A d \in RemoteIds : Sole(d, rem) /\ x \in {d, ClientOf[d]} => d = b
<1> TAKE d \in RemoteIds
<1> HAVE Sole(d, rem) /\ x \in {d, ClientOf[d]}
<1>1. b # ClientOf[d] /\ d # ClientOf[b]
  BY LocalIdsDiffer, Zenon
<1>2. d = b \/ ClientOf[b] = ClientOf[d]
  BY <1>1
<1>3. ClientOf[b] = ClientOf[d] /\ b # d => rem[b] = <<>>
  BY Zenon DEF Sole
<1>4. QED
  BY <1>2, <1>3, Zenon

LEMMA SignedType ==
  ASSUME NEW side, NEW n \in Int PROVE Signed(side, n) \in Int
  BY DEF Signed

LEMMA SignedZero == ASSUME NEW side PROVE Signed(side, 0) = 0
<1>1. -0 = 0
  <2>1. \A n \in Int : -n = 0 - n
    OBVIOUS
  <2>2. 0 \in Int /\ 0 - 0 = 0
    OBVIOUS
  <2>3. QED
    BY <2>1, <2>2, Zenon
<1>2. Signed(side, 0) = 0 \/ Signed(side, 0) = -0
  BY Zenon DEF Signed
<1>3. QED
  BY <1>1, <1>2, Zenon

LEMMA SignedDifference ==
  ASSUME NEW side, NEW n \in Int, NEW k \in Int
  PROVE  Signed(side, n - k) = Signed(side, n) - Signed(side, k)
<1>1. CASE side = "BUY"
  BY <1>1, Zenon DEF Signed
<1>2. CASE side # "BUY"
  <2>1. /\ Signed(side, n - k) = -(n - k) /\ Signed(side, n) = -n
        /\ Signed(side, k) = -k
    BY <1>2, Zenon DEF Signed
  <2>2. -(n - k) = (-n) - (-k)
    OBVIOUS
  <2>3. QED
    BY <2>1, <2>2, Zenon
<1>3. QED
  BY <1>1, <1>2

LEMMA PartsType ==
  ASSUME NEW bk \in Books
  PROVE  \A c \in Ids : /\ Parts(bk)[c] = Signed(bk.records[c].side, bk.records[c].applied)
                        /\ Parts(bk)[c] \in Int
<1>1. \A c \in Ids : bk.records[c].applied \in Int
  BY DEF Books, LocalRecords
<1>2. QED
  BY <1>1, SignedType, Zenon DEF Parts

-----------------------------------------------------------------------------
(* A fill.                                                                  *)

\* The row is for the order b and the record x is the one that may book it.
Target(bk, x, b, rem) ==
  /\ x \in {b, ClientOf[b]} /\ bk.records[x].status # "NONE"
  /\ Sole(b, rem) /\ x = ClientOf[b] => /\ bk.records[b].status = "NONE"
                                        /\ b \in Tagged \/ bk.records[x].bound = b

RowOK(row, rem) ==
  /\ row.order \in RemoteIds /\ row.status \in StatusWords /\ row.status # "NONE"
  /\ row.filled \in Nat /\ row.price \in Nat /\ row.filled <= FilledSoFar(row.order, rem)
  /\ rem[row.order] # <<>>

\* What a transition leaves of the book.
Moved(bk, new, x, row) ==
  /\ new \in Books
  /\ \A c \in Ids \ {x} : new.records[c] = bk.records[c]
  /\ new.records[x].side = bk.records[x].side
  /\ new.records[x].bound = bk.records[x].bound
  /\ new.records[x].account = bk.records[x].account
  /\ new.records[x].status # "NONE"
  /\ \/ new.records[x].applied = bk.records[x].applied /\ new.net = bk.net
     \/ /\ new.records[x].applied = row.filled
        /\ new.net = bk.net + Signed(bk.records[x].side, row.filled - bk.records[x].applied)

LEMMA TransitionMoves ==
  ASSUME NEW rem, NEW bk \in Books, NEW x \in Ids, bk.records[x].status # "NONE", NEW row, RowOK(row, rem)
  PROVE  Moved(bk, Transition(bk, x, row).book, x, row)
<1> DEFINE rec == bk.records[x]
           adv == Advanced(bk, x, row)
           delta == Delta(bk, x, row)
           bkd == Booked(adv, x, row, delta)
<1>1. /\ bk.records \in [Ids -> LocalRecords] /\ bk.machines \in [Ids -> StatusWords] /\ bk.net \in Int
      /\ rec \in LocalRecords
  BY DEF Books
<1>2. /\ row.status \in StatusWords /\ row.status # "NONE" /\ row.filled \in Nat /\ row.price \in Nat
  BY DEF RowOK
<1>3. MachineState(row.status) \in StatusWords
  <2>1. CASE row.status = "SUBMISSION_INTENT"
    BY <2>1 DEF MachineState, StatusWords
  <2>2. CASE row.status = "SUBMITTED"
    BY <2>2 DEF MachineState, StatusWords
  <2>3. CASE row.status # "SUBMISSION_INTENT" /\ row.status # "SUBMITTED"
    <3>1. MachineState(row.status) = row.status
      BY <2>3, Zenon DEF MachineState
    <3>2. QED
      BY <1>2, <3>1
  <2>4. QED
    BY <2>1, <2>2, <2>3
<1> DEFINE price == IF row.price # 0 THEN row.price ELSE rec.price
           recA == [rec EXCEPT !.status = row.status, !.filled = row.filled, !.price = price]
<1>4. rec.price \in Nat /\ price \in Nat /\ rec.applied \in Nat /\ rec.side \in {"BUY", "SELL"}
  BY <1>1, <1>2 DEF LocalRecords
<1>5. adv = [bk EXCEPT !.machines = [bk.machines EXCEPT ![x] = MachineState(row.status)],
                       !.records = [bk.records EXCEPT ![x] = recA]]
  BY <1>1, ZenonT(40) DEF Advanced, Books
<1>6. /\ recA \in LocalRecords /\ recA.status = row.status /\ recA.side = rec.side
      /\ recA.applied = rec.applied /\ recA.bound = rec.bound /\ recA.account = rec.account
      /\ recA.price = price
  BY <1>1, <1>2, <1>4 DEF LocalRecords
<1> HIDE DEF rec, price, recA, adv, delta, bkd
<1>7. /\ adv \in Books /\ adv.records = [bk.records EXCEPT ![x] = recA] /\ adv.net = bk.net
  <2>1. [bk.machines EXCEPT ![x] = MachineState(row.status)] \in [Ids -> StatusWords]
    BY <1>1, <1>3
  <2>2. [bk.records EXCEPT ![x] = recA] \in [Ids -> LocalRecords]
    BY <1>1, <1>6
  <2>3. QED
    BY <1>5, <2>1, <2>2 DEF Books
<1>8. adv.records[x] = recA /\ \A c \in Ids \ {x} : adv.records[c] = bk.records[c]
  BY <1>1, <1>7
<1>9. Moved(bk, bk, x, row)
  BY DEF Moved
<1>10. Moved(bk, adv, x, row)
  BY <1>2, <1>6, <1>7, <1>8, Zenon DEF Moved, rec
<1>11. delta \in Int /\ delta = row.filled - rec.applied
  BY <1>2, <1>4 DEF delta, Delta, rec
<1> DEFINE net == bk.net + Signed(rec.side, delta)
           worth == row.filled * price
           holder == IF net = 0 THEN NoAccount ELSE recA.account
           recB == [recA EXCEPT !.applied = row.filled, !.worth = worth]
<1>12. bkd = [adv EXCEPT !.records = [adv.records EXCEPT ![x] = recB], !.net = net,
                         !.holder = holder]
  <2>1. adv.net + Signed(adv.records[x].side, delta) = net
        /\ adv.records[x].account = recA.account /\ adv.records[x].price = price
    BY <1>6, <1>7, <1>8, Zenon
  <2>2. adv.records \in [Ids -> LocalRecords] /\ adv.records[x] = recA
    BY <1>7, <1>8 DEF Books
  <2> HIDE DEF net, worth, holder
  <2>3. [adv EXCEPT !.records[x].applied = row.filled, !.records[x].worth = worth,
                    !.net = net, !.holder = holder]
        = [adv EXCEPT !.records = [adv.records EXCEPT ![x] = recB], !.net = net,
                      !.holder = holder]
    BY <1>7, <2>2 DEF Books
  <2>4. bkd = [adv EXCEPT !.records[x].applied = row.filled, !.records[x].worth = worth,
                          !.net = net, !.holder = holder]
    BY <2>1, Zenon DEF bkd, Booked, net, worth, holder
  <2>5. QED
    BY <2>3, <2>4, Zenon
<1>13. net \in Int /\ worth \in Nat
  <2>1. Signed(rec.side, delta) \in Int
    BY <1>11, SignedType
  <2>2. QED
    BY <1>1, <1>2, <1>4, <2>1
<1>14. holder \in {AccountOf[b] : b \in RemoteIds} \cup {NoAccount}
  <2>1. recA.account \in {AccountOf[b] : b \in RemoteIds} \cup {NoAccount}
    BY <1>6, Zenon DEF LocalRecords
  <2>2. QED
    BY <2>1
<1> HIDE DEF net, worth, holder
<1>15. /\ recB \in LocalRecords /\ recB.applied = row.filled /\ recB.status = recA.status
       /\ recB.side = recA.side /\ recB.bound = recA.bound /\ recB.account = recA.account
  BY <1>2, <1>6, <1>13 DEF LocalRecords
<1> HIDE DEF recB
<1>16. /\ bkd \in Books /\ bkd.records = [adv.records EXCEPT ![x] = recB] /\ bkd.net = net
  <2>1. [adv.records EXCEPT ![x] = recB] \in [Ids -> LocalRecords]
    BY <1>7, <1>15 DEF Books
  <2>2. QED
    BY <1>7, <1>12, <1>13, <1>14, <2>1 DEF Books
<1>17. bkd.records[x] = recB /\ \A c \in Ids \ {x} : bkd.records[c] = bk.records[c]
  <2>1. adv.records \in [Ids -> LocalRecords]
    BY <1>7 DEF Books
  <2>2. QED
    BY <1>8, <1>16, <2>1
<1>18. Moved(bk, bkd, x, row)
  <2>1. bkd.net = bk.net + Signed(bk.records[x].side, row.filled - bk.records[x].applied)
    BY <1>11, <1>16, Zenon DEF net, rec
  <2>2. QED
    BY <1>2, <1>6, <1>15, <1>16, <1>17, <2>1, Zenon DEF Moved, rec
<1>19. Transition(bk, x, row).book \in {bk, adv, bkd}
  <2> DEFINE t == Transition(bk, x, row)
  <2>1. CASE Refuses(bk, x, row)
    <3>1. t = [book |-> bk, ok |-> FALSE]
      BY <2>1, Zenon DEF Transition
    <3> HIDE DEF t
    <3>2. QED
      BY <3>1 DEF t
  <2>2. CASE ~Refuses(bk, x, row) /\ delta <= 0
    <3>1. t = [book |-> adv, ok |-> TRUE]
      BY <2>2, Zenon DEF Transition, adv, delta
    <3> HIDE DEF t
    <3>2. QED
      BY <3>1 DEF t
  <2>3. CASE ~Refuses(bk, x, row) /\ ~(delta <= 0)
    <3>1. t = IF CannotBook(adv, x, row) THEN [book |-> adv, ok |-> FALSE]
              ELSE [book |-> bkd, ok |-> TRUE]
      BY <2>3, Zenon DEF Transition, adv, delta, bkd
    <3> HIDE DEF t
    <3>2. t = [book |-> adv, ok |-> FALSE] \/ t = [book |-> bkd, ok |-> TRUE]
      BY <3>1, Zenon
    <3>3. t.book \in {adv, bkd}
      BY <3>2
    <3>4. QED
      BY <3>3 DEF t
  <2>4. QED
    BY <2>1, <2>2, <2>3, Zenon
<1>20. QED
  BY <1>9, <1>10, <1>18, <1>19, Zenon

-----------------------------------------------------------------------------
(* One record of the order b changes, or is new.                            *)

\* What the order d, which the record is for, asks of it.
Fits(bk, new, x, d, rem) ==
  /\ new.records[x].applied <= FilledSoFar(d, rem)
  /\ x = d => /\ d \notin Tagged /\ bk.records[ClientOf[d]].applied = 0
              /\ bk.records[ClientOf[d]].bound # d
  /\ x = ClientOf[d] =>
       /\ \/ bk.records[d].status = "NONE"
          \/ new.records[x].applied = 0 /\ new.records[x].bound # d
       /\ \/ d \in Tagged \/ new.records[x].applied = 0 \/ new.records[x].bound = d

FitsAll(bk, new, x, rem) ==
  \A d \in RemoteIds : Sole(d, rem) /\ x \in {d, ClientOf[d]} => Fits(bk, new, x, d, rem)

Changed(bk, new, x, b, rem) ==
  /\ new \in Books
  /\ \A c \in Ids \ {x} : new.records[c] = bk.records[c]
  /\ new.records[x].status # "NONE" /\ new.records[x].account = AccountOf[b]
  /\ \/ new.records[x].bound \in {bk.records[x].bound, NoRemote}
     \/ new.records[x].bound = b /\ rem[b] # <<>>
  /\ new.net = bk.net - Parts(bk)[x] + Parts(new)[x]
  /\ FitsAll(bk, new, x, rem)

LEMMA ChangedKeeps ==
  ASSUME NEW rem, NEW bk, BookOK(bk, rem), NEW new, NEW b \in RemoteIds,
         NEW x \in {b, ClientOf[b]}, Changed(bk, new, x, b, rem)
  PROVE  BookOK(new, rem)
<1>1. /\ bk \in Books /\ UnknownAreBlank(bk) /\ NetIsTheSum(bk) /\ AccountsHold(bk)
      /\ KnownAreOfOrders(bk)
      /\ BoundToTheirOwn(bk, rem) /\ BesideNothing(bk, rem) /\ BookedWhenBound(bk, rem)
      /\ BookedIsFilled(bk, rem)
  BY Zenon DEF BookOK
<1>2. /\ new \in Books
      /\ \A c \in Ids \ {x} : new.records[c] = bk.records[c]
      /\ new.records[x].status # "NONE" /\ new.records[x].account = AccountOf[b]
      /\ \/ new.records[x].bound \in {bk.records[x].bound, NoRemote}
         \/ new.records[x].bound = b /\ rem[b] # <<>>
      /\ new.net = bk.net - Parts(bk)[x] + Parts(new)[x]
      /\ FitsAll(bk, new, x, rem)
  BY Zenon DEF Changed
<1>3. /\ \A d \in RemoteIds : d \in Ids /\ ClientOf[d] \in Ids
      /\ \A a, d \in RemoteIds : /\ a # ClientOf[d]
                                 /\ ClientOf[a] = ClientOf[d] => AccountOf[a] = AccountOf[d]
      /\ NoRemote \notin RemoteIds
  BY LocalIdsDiffer
<1>4. x \in Ids /\ \A d \in RemoteIds : x \in {d, ClientOf[d]} => AccountOf[d] = AccountOf[b]
  BY <1>3
<1>5. \A c \in Ids : c # x => new.records[c] = bk.records[c]
  BY <1>2
<1>6. UnknownAreBlank(new)
  <2>1. \A c \in Ids : new.records[c].status = "NONE" => c # x
    BY <1>2, Zenon
  <2>2. QED
    BY <1>1, <1>5, <2>1, Zenon DEF UnknownAreBlank
<1>7. AccountsHold(new)
  <2>1. ASSUME NEW d \in RemoteIds, NEW c \in {d, ClientOf[d]}, new.records[c].status # "NONE"
        PROVE  new.records[c].account = AccountOf[d]
    <3>1. CASE c = x
      BY <1>2, <1>4, <3>1
    <3>2. CASE c # x
      <4>1. c \in Ids
        BY <1>3
      <4>2. QED
        BY <1>1, <1>5, <2>1, <3>2, <4>1, Zenon DEF AccountsHold
    <3>3. QED
      BY <3>1, <3>2
  <2>2. QED
    BY <2>1, Zenon DEF AccountsHold
<1>8. BoundToTheirOwn(new, rem)
  <2>1. ASSUME NEW c \in Ids, NEW d \in RemoteIds, new.records[c].bound = d
        PROVE  c \in {d, ClientOf[d]} /\ rem[d] # <<>>
    <3>1. CASE bk.records[c].bound = d
      BY <1>1, <3>1, Zenon DEF BoundToTheirOwn
    <3>2. CASE bk.records[c].bound # d
      <4>1. c = x
        BY <1>5, <2>1, <3>2, Zenon
      <4>2. d = b /\ rem[b] # <<>>
        BY <1>2, <1>3, <2>1, <3>2, <4>1
      <4>3. QED
        BY <4>1, <4>2
    <3>3. QED
      BY <3>1, <3>2
  <2>2. QED
    BY <2>1, Zenon DEF BoundToTheirOwn
<1>9. BesideNothing(new, rem)
  <2>1. ASSUME NEW d \in RemoteIds, Sole(d, rem), new.records[d].status # "NONE"
        PROVE  /\ d \notin Tagged
               /\ new.records[ClientOf[d]].applied = 0 /\ new.records[ClientOf[d]].bound # d
    <3>1. CASE d = x
      <4>1. ClientOf[d] # x /\ ClientOf[d] \in Ids
        BY <1>3, <3>1
      <4>2. Fits(bk, new, x, d, rem)
        BY <1>2, <2>1, <3>1, Zenon DEF FitsAll
      <4>3. QED
        BY <1>5, <3>1, <4>1, <4>2, Zenon DEF Fits
    <3>2. CASE d # x /\ ClientOf[d] = x
      <4>1. new.records[d] = bk.records[d]
        BY <1>3, <1>5, <3>2
      <4>2. bk.records[d].status # "NONE" /\ d \notin Tagged
        BY <1>1, <2>1, <4>1, Zenon DEF BesideNothing
      <4>3. Fits(bk, new, x, d, rem)
        BY <1>2, <2>1, <3>2, Zenon DEF FitsAll
      <4>4. QED
        BY <3>2, <4>2, <4>3, Zenon DEF Fits
    <3>3. CASE d # x /\ ClientOf[d] # x
      <4>1. new.records[d] = bk.records[d] /\ new.records[ClientOf[d]] = bk.records[ClientOf[d]]
        BY <1>3, <1>5, <3>3
      <4>2. QED
        BY <1>1, <2>1, <4>1, Zenon DEF BesideNothing
    <3>4. QED
      BY <3>1, <3>2, <3>3
  <2>2. QED
    BY <2>1, Zenon DEF BesideNothing
<1>10. BookedWhenBound(new, rem)
  <2>1. ASSUME NEW d \in RemoteIds, Sole(d, rem), d \notin Tagged,
               new.records[ClientOf[d]].applied # 0
        PROVE  new.records[ClientOf[d]].bound = d
    <3>1. CASE ClientOf[d] = x
      <4>1. Fits(bk, new, x, d, rem)
        BY <1>2, <2>1, <3>1, Zenon DEF FitsAll
      <4>2. QED
        BY <2>1, <3>1, <4>1, Zenon DEF Fits
    <3>2. CASE ClientOf[d] # x
      <4>1. new.records[ClientOf[d]] = bk.records[ClientOf[d]]
        BY <1>3, <1>5, <3>2
      <4>2. QED
        BY <1>1, <2>1, <4>1, Zenon DEF BookedWhenBound
    <3>3. QED
      BY <3>1, <3>2
  <2>2. QED
    BY <2>1, Zenon DEF BookedWhenBound
<1>11. BookedIsFilled(new, rem)
  <2>1. ASSUME NEW d \in RemoteIds, Sole(d, rem), NEW c \in {d, ClientOf[d]}
        PROVE  new.records[c].applied <= FilledSoFar(d, rem)
    <3>1. CASE c = x
      BY <1>2, <2>1, <3>1, Zenon DEF FitsAll, Fits
    <3>2. CASE c # x
      <4>1. new.records[c] = bk.records[c]
        BY <1>3, <1>5, <3>2
      <4>2. QED
        BY <1>1, <2>1, <4>1, Zenon DEF BookedIsFilled
    <3>3. QED
      BY <3>1, <3>2
  <2>2. QED
    BY <2>1, Zenon DEF BookedIsFilled
<1>12. NetIsTheSum(new)
  <2> DEFINE K == Known(bk)
             L == Known(new)
             f == Parts(bk)
             g == Parts(new)
  <2>1. /\ \A c \in Ids : f[c] \in Int /\ g[c] \in Int
        /\ \A c \in Ids : /\ f[c] = Signed(bk.records[c].side, bk.records[c].applied)
                          /\ g[c] = Signed(new.records[c].side, new.records[c].applied)
    BY <1>1, <1>2, PartsType, Zenon
  <2>2. IsFiniteSet(K) /\ bk.net = SumFunctionOnSet(f, K) /\ K \subseteq Ids /\ L \subseteq Ids
    BY <1>1, Zenon DEF NetIsTheSum, Known
  <2>3. \A c \in Ids : c # x => g[c] = f[c]
    BY <1>5, <2>1, Zenon
  <2>4. L = K \cup {x}
    BY <1>2, <1>4, <1>5 DEF Known
  <2>5. new.net = bk.net - f[x] + g[x]
    BY <1>2
  <2>6. bk.net \in Int /\ f[x] \in Int /\ g[x] \in Int
    BY <1>1, <1>4, <2>1 DEF Books
  <2>7. x \notin K => f[x] = 0
    <3>1. SUFFICES ASSUME x \notin K PROVE f[x] = 0
      OBVIOUS
    <3>2. bk.records[x].status = "NONE"
      BY <1>4, <3>1 DEF Known
    <3>3. bk.records[x].applied = 0
      BY <1>1, <1>4, <3>2, Zenon DEF UnknownAreBlank
    <3>4. f[x] = Signed(bk.records[x].side, 0)
      BY <1>4, <2>1, <3>3, Zenon
    <3> HIDE DEF f
    <3>5. QED
      BY <3>4, SignedZero, Zenon
  <2> HIDE DEF K, L, f, g
  <2>8. IsFiniteSet(L)
    BY <2>2, <2>4, FS_AddElement
  <2>9. new.net = SumFunctionOnSet(g, L)
    <3>1. CASE x \in K
      <4>1. L = K
        BY <2>4, <3>1
      <4>2. /\ \A c \in K : f[c] \in Int /\ g[c] \in Int
            /\ \A c \in K \ {x} : g[c] = f[c]
        BY <2>1, <2>2, <2>3
      <4>3. SumFunctionOnSet(g, K) = SumFunctionOnSet(f, K) - f[x] + g[x]
        BY <2>2, <3>1, <4>2, SumChanges
      <4>4. QED
        BY <2>2, <2>5, <4>1, <4>3
    <3>2. CASE x \notin K
      <4>1. \A c \in K : f[c] \in Int /\ g[c] = f[c]
        BY <2>1, <2>2, <2>3, <3>2
      <4>2. SumFunctionOnSet(g, K) = SumFunctionOnSet(f, K)
        BY <2>2, <4>1, SumOfEqual
      <4>3. \A c \in K \cup {x} : g[c] \in Int
        BY <1>4, <2>1, <2>2
      <4>4. SumFunctionOnSet(g, L) = g[x] + SumFunctionOnSet(g, K)
        BY <2>2, <2>4, <3>2, <4>3, SumAdds
      <4>5. QED
        BY <2>2, <2>5, <2>6, <2>7, <3>2, <4>2, <4>4
    <3>3. QED
      BY <3>1, <3>2
  <2>10. QED
    BY <2>8, <2>9, Zenon DEF NetIsTheSum, L, g
<1>13. KnownAreOfOrders(new)
  BY <1>1, <1>5, Zenon DEF KnownAreOfOrders
<1>14. QED
  BY <1>2, <1>6, <1>7, <1>8, <1>9, <1>10, <1>11, <1>12, <1>13, Zenon DEF BookOK

\* What is bound to a record of an order that is the only one of its client is that order.
LEMMA BoundIsItsOrder ==
  ASSUME NEW rem, NEW bk, BookOK(bk, rem), NEW b \in RemoteIds,
         NEW x \in {b, ClientOf[b]}, Sole(b, rem)
  PROVE  bk.records[x].bound \in {NoRemote, b}
<1>1. x \in Ids
  BY LocalIdsDiffer
<1>2. bk.records[x].bound \in RemoteIds \cup {NoRemote}
  BY <1>1 DEF BookOK, Books, LocalRecords
<1>3. ASSUME NEW d \in RemoteIds, bk.records[x].bound = d PROVE d = b
  <2>1. x \in {d, ClientOf[d]} /\ rem[d] # <<>>
    BY <1>1, <1>3, Zenon DEF BookOK, BoundToTheirOwn
  <2>2. QED
    BY <2>1, SoleIsTheOrder
<1>4. QED
  BY <1>2, <1>3

LEMMA TransitionKeeps ==
  ASSUME NEW rem, NEW bk, BookOK(bk, rem), NEW row, RowOK(row, rem), NEW x,
         Target(bk, x, row.order, rem)
  PROVE  BookOK(Transition(bk, x, row).book, rem)
<1> DEFINE b == row.order
           new == Transition(bk, x, row).book
<1>1. /\ bk \in Books /\ AccountsHold(bk) /\ BoundToTheirOwn(bk, rem) /\ BesideNothing(bk, rem)
      /\ BookedIsFilled(bk, rem)
  BY Zenon DEF BookOK
<1>2. /\ b \in RemoteIds /\ row.filled \in Nat /\ row.filled <= FilledSoFar(b, rem)
      /\ rem[b] # <<>>
  BY DEF RowOK
<1>3. /\ x \in {b, ClientOf[b]} /\ bk.records[x].status # "NONE"
      /\ Sole(b, rem) /\ x = ClientOf[b] => /\ bk.records[b].status = "NONE"
                                            /\ b \in Tagged \/ bk.records[x].bound = b
  BY Zenon DEF Target
<1>4. x \in Ids
  BY <1>2, <1>3, LocalIdsDiffer
<1>5. Moved(bk, new, x, row)
  BY <1>1, <1>3, <1>4, TransitionMoves, Zenon
<1> HIDE DEF b, new
<1>6. /\ new \in Books
      /\ \A c \in Ids \ {x} : new.records[c] = bk.records[c]
      /\ new.records[x].side = bk.records[x].side
      /\ new.records[x].bound = bk.records[x].bound
      /\ new.records[x].account = bk.records[x].account
      /\ new.records[x].status # "NONE"
      /\ \/ new.records[x].applied = bk.records[x].applied /\ new.net = bk.net
         \/ /\ new.records[x].applied = row.filled
            /\ new.net = bk.net + Signed(bk.records[x].side, row.filled - bk.records[x].applied)
  BY <1>5, Zenon DEF Moved
<1>7. new.records[x].account = AccountOf[b]
  BY <1>1, <1>2, <1>3, <1>6, Zenon DEF AccountsHold
<1>9. Sole(b, rem) => new.records[x].applied <= FilledSoFar(b, rem)
  BY <1>1, <1>2, <1>3, <1>6, Zenon DEF BookedIsFilled
<1>10. new.net = bk.net - Parts(bk)[x] + Parts(new)[x]
  <2> DEFINE side == bk.records[x].side
             before == bk.records[x].applied
             old == Signed(side, before)
             now == Signed(side, new.records[x].applied)
  <2>1. /\ Parts(bk)[x] = old /\ Parts(new)[x] = now
        /\ old \in Int /\ now \in Int
    <3>1. /\ Parts(bk)[x] = Signed(bk.records[x].side, bk.records[x].applied)
          /\ Parts(bk)[x] \in Int
      BY <1>1, <1>4, PartsType, Zenon
    <3>2. /\ Parts(new)[x] = Signed(new.records[x].side, new.records[x].applied)
          /\ Parts(new)[x] \in Int
      BY <1>4, <1>6, PartsType, Zenon
    <3>3. QED
      BY <1>6, <3>1, <3>2, Zenon
  <2>2. bk.net \in Int /\ new.net \in Int /\ before \in Int
    BY <1>1, <1>4, <1>6 DEF Books, LocalRecords
  <2>3. CASE new.records[x].applied = before /\ new.net = bk.net
    <3>1. now = old
      BY <2>3, Zenon
    <3> HIDE DEF now, old
    <3>2. QED
      BY <2>1, <2>2, <2>3, <3>1
  <2>4. CASE /\ new.records[x].applied = row.filled
             /\ new.net = bk.net + Signed(side, row.filled - before)
    <3>1. Signed(side, row.filled - before) = Signed(side, row.filled) - old
      <4>1. row.filled \in Int
        BY <1>2
      <4>2. QED
        BY <2>2, <4>1, SignedDifference
    <3>2. now = Signed(side, row.filled)
      BY <2>4, Zenon
    <3> HIDE DEF now, old
    <3>3. QED
      BY <2>1, <2>2, <2>4, <3>1, <3>2
  <2>5. QED
    BY <1>6, <2>3, <2>4, Zenon
<1>11. Sole(b, rem) => Fits(bk, new, x, b, rem)
  <2>1. SUFFICES ASSUME Sole(b, rem) PROVE Fits(bk, new, x, b, rem)
    OBVIOUS
  <2>2. x = b => /\ b \notin Tagged /\ bk.records[ClientOf[b]].applied = 0
                 /\ bk.records[ClientOf[b]].bound # b
    BY <1>1, <1>2, <1>3, <2>1, Zenon DEF BesideNothing
  <2>3. x = ClientOf[b] => /\ bk.records[b].status = "NONE"
                           /\ b \in Tagged \/ new.records[x].bound = b
    BY <1>3, <1>6, <2>1, Zenon
  <2>4. QED
    BY <1>9, <2>1, <2>2, <2>3, Zenon DEF Fits
<1>12. FitsAll(bk, new, x, rem)
  BY <1>2, <1>3, <1>11, SoleIsTheOrder, Zenon DEF FitsAll
<1>13. Changed(bk, new, x, b, rem)
  <2>1. new.records[x].bound \in {bk.records[x].bound, NoRemote}
    BY <1>6
  <2>2. QED
    BY <1>6, <1>7, <1>10, <1>12, <2>1, Zenon DEF Changed
<1>14. BookOK(new, rem)
  BY <1>2, <1>3, <1>13, ChangedKeeps
<1>15. QED
  BY <1>14 DEF new

-----------------------------------------------------------------------------
(* Binding and creating.                                                    *)

Bind(bk, x, b) == [bk EXCEPT !.records[x].bound = IF @ = NoRemote THEN b ELSE @]

LEMMA BindKeeps ==
  ASSUME NEW rem, NEW bk, BookOK(bk, rem), NEW b \in RemoteIds,
         NEW x \in {b, ClientOf[b]}, bk.records[x].status # "NONE",
         x = ClientOf[b] => bk.records[b].status = "NONE", rem[b] # <<>>
  PROVE  BookOK(Bind(bk, x, b), rem) /\ Target(Bind(bk, x, b), x, b, rem)
<1> DEFINE new == Bind(bk, x, b)
           bd == IF bk.records[x].bound = NoRemote THEN b ELSE bk.records[x].bound
           rec == [bk.records[x] EXCEPT !.bound = bd]
<1>1. /\ bk \in Books /\ AccountsHold(bk) /\ BesideNothing(bk, rem) /\ BookedIsFilled(bk, rem)
      /\ BookedWhenBound(bk, rem)
  BY Zenon DEF BookOK
<1>2. /\ x \in Ids /\ bk.records \in [Ids -> LocalRecords] /\ bk.records[x] \in LocalRecords
      /\ \A d \in RemoteIds : d # ClientOf[b] /\ d \in Ids /\ ClientOf[d] \in Ids
  BY <1>1, LocalIdsDiffer DEF Books
<1>3. /\ Sole(b, rem) => bd = b
      /\ bd \in {bk.records[x].bound, b} /\ bd \in RemoteIds \cup {NoRemote}
  <2>1. Sole(b, rem) => bk.records[x].bound \in {NoRemote, b}
    BY BoundIsItsOrder
  <2>2. bk.records[x].bound \in RemoteIds \cup {NoRemote}
    BY <1>2 DEF LocalRecords
  <2>3. QED
    BY <2>1, <2>2
<1>4. new = [bk EXCEPT !.records = [bk.records EXCEPT ![x] = rec]]
  BY <1>1, <1>2 DEF Bind, Books
<1> HIDE DEF bd
<1>5. /\ rec \in LocalRecords /\ rec.bound = bd /\ rec.status = bk.records[x].status
      /\ rec.account = bk.records[x].account /\ rec.applied = bk.records[x].applied
      /\ rec.side = bk.records[x].side
  BY <1>2, <1>3 DEF LocalRecords
<1> HIDE DEF new, rec
<1>6. new \in Books /\ new.records = [bk.records EXCEPT ![x] = rec] /\ new.net = bk.net
  <2>1. [bk.records EXCEPT ![x] = rec] \in [Ids -> LocalRecords]
    BY <1>2, <1>5
  <2>2. QED
    BY <1>1, <1>4, <2>1 DEF Books
<1>7. new.records[x] = rec /\ \A c \in Ids \ {x} : new.records[c] = bk.records[c]
  BY <1>2, <1>6
<1>8. new.net = bk.net - Parts(bk)[x] + Parts(new)[x]
  <2>1. Parts(new)[x] = Parts(bk)[x]
    <3>1. Parts(bk)[x] = Signed(bk.records[x].side, bk.records[x].applied)
      BY <1>1, <1>2, PartsType, Zenon
    <3>2. Parts(new)[x] = Signed(new.records[x].side, new.records[x].applied)
      BY <1>2, <1>6, PartsType, Zenon
    <3>3. QED
      BY <1>5, <1>7, <3>1, <3>2, Zenon
  <2>2. Parts(bk)[x] \in Int /\ bk.net \in Int
    BY <1>1, <1>2, PartsType DEF Books
  <2>3. QED
    BY <1>6, <2>1, <2>2
<1>9. rec.account = AccountOf[b]
  BY <1>1, <1>5, Zenon DEF AccountsHold
<1>10. FitsAll(bk, new, x, rem)
  <2>1. SUFFICES ASSUME Sole(b, rem) PROVE Fits(bk, new, x, b, rem)
    BY SoleIsTheOrder, Zenon DEF FitsAll
  <2>2. rec.applied <= FilledSoFar(b, rem)
    BY <1>1, <1>5, <2>1, Zenon DEF BookedIsFilled
  <2>3. x = b => /\ b \notin Tagged /\ bk.records[ClientOf[b]].applied = 0
                 /\ bk.records[ClientOf[b]].bound # b
    BY <1>1, <2>1, Zenon DEF BesideNothing
  <2>4. QED
    BY <1>3, <1>5, <1>7, <2>1, <2>2, <2>3, Zenon DEF Fits
<1>11. Changed(bk, new, x, b, rem)
  <2>1. \/ new.records[x].bound \in {bk.records[x].bound, NoRemote}
        \/ new.records[x].bound = b /\ rem[b] # <<>>
    BY <1>3, <1>5, <1>7
  <2>2. QED
    BY <1>5, <1>6, <1>7, <1>8, <1>9, <1>10, <2>1, Zenon DEF Changed
<1>12. BookOK(new, rem)
  BY <1>11, ChangedKeeps
<1>13. Target(new, x, b, rem)
  <2>1. x = ClientOf[b] => new.records[b].status = "NONE"
    <3>1. SUFFICES ASSUME x = ClientOf[b] PROVE new.records[b].status = "NONE"
      OBVIOUS
    <3>2. b \in Ids \ {x}
      BY <1>2, <3>1
    <3>3. QED
      BY <1>7, <3>1, <3>2
  <2>2. QED
    BY <1>3, <1>5, <1>7, <2>1, Zenon DEF Target
<1>14. QED
  BY <1>12, <1>13 DEF new

\* A record made for the order b, bound to bd, in a status and state of its own.
WithRecord(bk, x, b, bd, status, state) ==
  [bk EXCEPT !.machines = [bk.machines EXCEPT ![x] = state],
             !.records = [bk.records EXCEPT ![x] =
                [NoLocal EXCEPT !.status = status, !.side = SideOf[b], !.size = SizeOf[b],
                                !.account = AccountOf[b], !.bound = bd]]]

\* No record of the order is there that the new one would be at odds with.
MayBeMade(bk, x, b, bd) ==
  /\ bk.records[x].status = "NONE"
  /\ x = b => b \notin Tagged /\ bk.records[ClientOf[b]].bound # b
  /\ x = ClientOf[b] => bk.records[b].status = "NONE" \/ bd # b

\* The new record is then the one the order's rows are for.
IsForTheOrder(bk, x, b, bd) == x = b \/ (bk.records[b].status = "NONE" /\ bd = b)

LEMMA MadeKeeps ==
  ASSUME NEW rem, NEW bk, BookOK(bk, rem), NEW b \in RemoteIds,
         NEW x \in {b, ClientOf[b]}, NEW bd \in {NoRemote, b}, MayBeMade(bk, x, b, bd),
         bd = b => rem[b] # <<>>,
         NEW status \in StatusWords, status # "NONE", NEW state \in StatusWords
  PROVE  /\ BookOK(WithRecord(bk, x, b, bd, status, state), rem)
         /\ IsForTheOrder(bk, x, b, bd) =>
              Target(WithRecord(bk, x, b, bd, status, state), x, b, rem)
<1> DEFINE new == WithRecord(bk, x, b, bd, status, state)
           rec == [NoLocal EXCEPT !.status = status, !.side = SideOf[b], !.size = SizeOf[b],
                                  !.account = AccountOf[b], !.bound = bd]
<1>1. /\ bk \in Books /\ UnknownAreBlank(bk) /\ BookedWhenBound(bk, rem)
      /\ BookedIsFilled(bk, rem)
      /\ bk.records[x].status = "NONE"
      /\ x = b => b \notin Tagged /\ bk.records[ClientOf[b]].bound # b
      /\ x = ClientOf[b] => bk.records[b].status = "NONE" \/ bd # b
  BY Zenon DEF BookOK, MayBeMade
<1>2. /\ x \in Ids /\ bk.records \in [Ids -> LocalRecords]
      /\ bk.machines \in [Ids -> StatusWords] /\ bk.net \in Int
      /\ \A d \in RemoteIds : d # ClientOf[b] /\ d \in Ids /\ ClientOf[d] \in Ids
      /\ SizeOf[b] \in Nat /\ SideOf[b] \in {"BUY", "SELL"}
  BY <1>1, LocalIdsDiffer DEF Books
<1>3. /\ rec \in LocalRecords /\ rec.status = status /\ rec.applied = 0 /\ rec.bound = bd
      /\ rec.account = AccountOf[b]
  BY <1>2 DEF LocalRecords, NoLocal
<1>4. new = [bk EXCEPT !.machines = [bk.machines EXCEPT ![x] = state],
                       !.records = [bk.records EXCEPT ![x] = rec]]
  BY Zenon DEF WithRecord
<1> HIDE DEF rec, new
<1>5. new \in Books /\ new.records = [bk.records EXCEPT ![x] = rec] /\ new.net = bk.net
  <2>1. /\ [bk.records EXCEPT ![x] = rec] \in [Ids -> LocalRecords]
        /\ [bk.machines EXCEPT ![x] = state] \in [Ids -> StatusWords]
    BY <1>2, <1>3
  <2>2. QED
    BY <1>1, <1>4, <2>1 DEF Books
<1>6. new.records[x] = rec /\ \A c \in Ids \ {x} : new.records[c] = bk.records[c]
  BY <1>2, <1>5
<1>7. bk.records[x].applied = 0
  BY <1>1, <1>2, Zenon DEF UnknownAreBlank
<1>8. new.net = bk.net - Parts(bk)[x] + Parts(new)[x]
  <2>1. Parts(bk)[x] = 0 /\ Parts(new)[x] = 0
    <3>1. Parts(bk)[x] = Signed(bk.records[x].side, bk.records[x].applied)
      BY <1>1, <1>2, PartsType, Zenon
    <3>2. Parts(new)[x] = Signed(new.records[x].side, new.records[x].applied)
      <4>1. new \in Books /\ x \in Ids
        BY <1>2, <1>5
      <4>2. QED
        BY <4>1, PartsType
    <3>3. QED
      BY <1>3, <1>6, <1>7, <3>1, <3>2, SignedZero, Zenon
  <2>2. QED
    BY <1>2, <1>5, <2>1
<1>9. FitsAll(bk, new, x, rem)
  <2>1. SUFFICES ASSUME NEW d \in RemoteIds, Sole(d, rem), x \in {d, ClientOf[d]}
                 PROVE  Fits(bk, new, x, d, rem)
    BY Zenon DEF FitsAll
  <2>2. new.records[x].applied <= FilledSoFar(d, rem)
    <3>1. bk.records[x].applied <= FilledSoFar(d, rem)
      BY <1>1, <2>1, Zenon DEF BookedIsFilled
    <3>2. QED
      BY <1>3, <1>6, <1>7, <3>1
  <2>3. x = d => d = b
    BY <1>2
  <2>4. x = d => /\ d \notin Tagged /\ bk.records[ClientOf[d]].applied = 0
                 /\ bk.records[ClientOf[d]].bound # d
    BY <1>1, <2>1, <2>3, Zenon DEF BookedWhenBound
  <2>5. bd = d => d = b
    BY LocalIdsDiffer
  <2>6. x = ClientOf[d] => bk.records[d].status = "NONE" \/ bd # d
    BY <1>1, <2>5, Zenon
  <2>7. QED
    BY <1>3, <1>6, <2>2, <2>4, <2>6, Zenon DEF Fits
<1>11. Changed(bk, new, x, b, rem)
  <2>1. \/ new.records[x].bound \in {bk.records[x].bound, NoRemote}
        \/ new.records[x].bound = b /\ rem[b] # <<>>
    BY <1>3, <1>6
  <2>2. QED
    BY <1>3, <1>5, <1>6, <1>8, <1>9, <2>1, Zenon DEF Changed
<1>12. BookOK(new, rem)
  BY <1>11, ChangedKeeps
<1>13. ASSUME x = b \/ (bk.records[b].status = "NONE" /\ bd = b) PROVE Target(new, x, b, rem)
  <2>1. x = ClientOf[b] => new.records[b].status = "NONE" /\ rec.bound = b
    <3>1. SUFFICES ASSUME x = ClientOf[b] PROVE new.records[b].status = "NONE" /\ rec.bound = b
      OBVIOUS
    <3>2. b \in Ids \ {x} /\ x # b
      BY <1>2, <3>1
    <3>3. QED
      BY <1>3, <1>6, <1>13, <3>2
  <2>2. QED
    BY <1>3, <1>6, <2>1, Zenon DEF Target
<1>14. QED
  BY <1>12, <1>13, Zenon DEF new, IsForTheOrder

-----------------------------------------------------------------------------
(* One row.                                                                 *)

LEMMA CandidatesAre ==
  ASSUME NEW rem, NEW bk, BookOK(bk, rem), NEW row,
         row.order \in RemoteIds
  PROVE  LET b == row.order IN
         /\ \A c \in Candidates(bk, row) :
              /\ c \in {b, ClientOf[b]} /\ bk.records[c].status # "NONE"
              /\ c = b \/ bk.records[c].bound = b \/ row.client
         /\ bk.records[b].status # "NONE" => b \in Candidates(bk, row)
         /\ /\ bk.records[ClientOf[b]].status # "NONE"
            /\ row.client \/ bk.records[ClientOf[b]].bound = b
            => ClientOf[b] \in Candidates(bk, row)
         /\ SameAccount(bk, row) = Candidates(bk, row)
         /\ Found(bk, row) = Candidates(bk, row)
         /\ Ambiguous(bk, row) <=> Cardinality(Candidates(bk, row)) > 1
<1> DEFINE b == row.order
           C == Candidates(bk, row)
<1>1. b \in Ids /\ ClientOf[b] \in Ids
  BY LocalIdsDiffer
<1>2. BoundToTheirOwn(bk, rem) /\ AccountsHold(bk)
  BY Zenon DEF BookOK
<1>3. \A c : c \in C <=> /\ c \in Ids /\ bk.records[c].status # "NONE"
                         /\ c = b \/ bk.records[c].bound = b \/ c \in Named(row)
  BY DEF Candidates, Known
<1>4. \A c : c \in Named(row) <=> row.client /\ c = ClientOf[b]
  <2>1. CASE row.client
    <3>1. Named(row) = {ClientOf[b]}
      BY <2>1, Zenon DEF Named
    <3>2. QED
      BY <2>1, <3>1
  <2>2. CASE ~row.client
    <3>1. Named(row) = {}
      BY <2>2, Zenon DEF Named
    <3>2. QED
      BY <2>2, <3>1
  <2>3. QED
    BY <2>1, <2>2
<1> HIDE DEF C, b
<1>5. \A c \in C : /\ c \in {b, ClientOf[b]} /\ bk.records[c].status # "NONE"
                   /\ c = b \/ bk.records[c].bound = b \/ row.client
  <2> TAKE c \in C
  <2>0. c \in Ids
    BY <1>3
  <2>1. bk.records[c].bound = b => c \in {b, ClientOf[b]}
    BY <1>2, <2>0, Zenon DEF BoundToTheirOwn, b
  <2>2. QED
    BY <1>3, <1>4, <2>1
<1>6. \A c \in C : bk.records[c].account = AccountOf[b]
  <2> TAKE c \in C
  <2>1. c \in {b, ClientOf[b]} /\ bk.records[c].status # "NONE"
    BY <1>5, Zenon
  <2>2. b \in RemoteIds
    BY Zenon DEF b
  <2>3. QED
    BY <1>2, <2>1, <2>2, Zenon DEF AccountsHold
<1>7. SameAccount(bk, row) = C
  <2>1. SameAccount(bk, row) = {c \in C : bk.records[c].account = AccountOf[b]}
    BY Zenon DEF SameAccount, C, b
  <2>2. QED
    BY <1>6, <2>1
<1>8. Found(bk, row) = C
  BY <1>7, Zenon DEF Found, C
<1>9. Ambiguous(bk, row) <=> Cardinality(C) > 1
  <2>1. Ambiguous(bk, row) <=> Cardinality(SameAccount(bk, row)) > 1
    BY Zenon DEF Ambiguous, SameAccount
  <2>2. QED
    BY <1>7, <2>1, Zenon
<1>10. /\ bk.records[b].status # "NONE" => b \in C
       /\ /\ bk.records[ClientOf[b]].status # "NONE"
          /\ row.client \/ bk.records[ClientOf[b]].bound = b
          => ClientOf[b] \in C
  BY <1>1, <1>3, <1>4, Zenon DEF b
<1>11. QED
  BY <1>5, <1>7, <1>8, <1>9, <1>10, Zenon DEF C, b

\* The record the row is for, when it is for one.
LEMMA ChosenIs ==
  ASSUME NEW rem, NEW bk, BookOK(bk, rem), NEW row,
         row.order \in RemoteIds, ~Ambiguous(bk, row), Candidates(bk, row) # {}
  PROVE  LET b == row.order
             c == CHOOSE x \in Found(bk, row) : TRUE IN
         /\ c \in {b, ClientOf[b]} /\ bk.records[c].status # "NONE"
         /\ c = ClientOf[b] => /\ bk.records[b].status = "NONE"
                               /\ bk.records[c].bound = b \/ row.client
<1> DEFINE b == row.order
           C == Candidates(bk, row)
           c == CHOOSE x \in Found(bk, row) : TRUE
<1>1. /\ \A x \in C : /\ x \in {b, ClientOf[b]} /\ bk.records[x].status # "NONE"
                      /\ x = b \/ bk.records[x].bound = b \/ row.client
      /\ bk.records[b].status # "NONE" => b \in C
      /\ Found(bk, row) = C
      /\ Ambiguous(bk, row) <=> Cardinality(C) > 1
  BY CandidatesAre, Zenon
<1>2. c \in C
  BY <1>1, Zenon
<1>3. b \in RemoteIds /\ b # ClientOf[b]
  BY LocalIdsDiffer
<1> HIDE DEF b, C, c
<1>4. c = ClientOf[b] => bk.records[b].status = "NONE"
  <2>1. SUFFICES ASSUME c = ClientOf[b], b \in C PROVE FALSE
    BY <1>1, Zenon
  <2>0. ~(Cardinality(C) > 1)
    BY <1>1, Zenon
  <2>2. C = {b} \cup {ClientOf[b]} /\ ClientOf[b] \notin {b}
    BY <1>1, <1>2, <1>3, <2>1
  <2>3. IsFiniteSet({b}) /\ Cardinality({b}) = 1
    BY FS_Singleton
  <2>4. Cardinality(C) = 1 + 1
    <3>1. Cardinality({b} \cup {ClientOf[b]}) = Cardinality({b}) + 1
      BY <2>2, <2>3, FS_AddElement, Zenon
    <3>2. QED
      BY <2>2, <2>3, <3>1, Zenon
  <2>5. QED
    BY <2>0, <2>4
<1>5. QED
  BY <1>1, <1>2, <1>3, <1>4, Zenon DEF b, C, c

LEMMA UpdatesKeeps ==
  ASSUME NEW rem, NEW bk, BookOK(bk, rem), NEW row, RowOK(row, rem),
         NEW c \in {row.order, ClientOf[row.order]}, bk.records[c].status # "NONE",
         c = ClientOf[row.order] => bk.records[row.order].status = "NONE"
  PROVE  BookOK(UpdatesRecord(bk, c, row).book, rem)
<1> DEFINE bound == Bind(bk, c, row.order)
           done == Transition(bound, c, row)
<1>1. row.order \in RemoteIds /\ rem[row.order] # <<>>
  BY DEF RowOK
<1>2. BookOK(bound, rem) /\ Target(bound, c, row.order, rem)
  BY <1>1, BindKeeps
<1> HIDE DEF bound
<1>3. BookOK(done.book, rem)
  BY <1>2, TransitionKeeps
<1>4. UpdatesRecord(bk, c, row) = IF InSync(bound.records[c], row) THEN Stays(bound, FALSE)
                                  ELSE Stays(done.book, ~done.ok)
  BY Zenon DEF UpdatesRecord, bound, Bind
<1> HIDE DEF done
<1>5. /\ Stays(bound, FALSE).book = bound
      /\ Stays(done.book, ~done.ok).book = done.book
  BY DEF Stays
<1>6. QED
  BY <1>2, <1>3, <1>4, <1>5, Zenon

LEMMA CreatesKeeps ==
  ASSUME NEW rem, NEW bk, BookOK(bk, rem), NEW row, RowOK(row, rem),
         Candidates(bk, row) = {}, row.client \in BOOLEAN,
         ~row.client => row.order \notin Tagged
  PROVE  BookOK(CreatesRecord(bk, row).book, rem)
<1> DEFINE b == row.order
           c == IF row.client THEN ClientOf[b] ELSE b
           rec == [NoLocal EXCEPT !.status = "CREATED", !.side = SideOf[b], !.size = SizeOf[b],
                                  !.account = AccountOf[b], !.bound = b]
           bound == [Created(bk, c, b) EXCEPT !.records[c].bound = b]
           done == Transition(bound, c, row)
<1>1. b \in RemoteIds /\ c \in {b, ClientOf[b]} /\ rem[b] # <<>>
  BY DEF RowOK
<1>2. c \in Ids /\ \A d \in RemoteIds : d # ClientOf[b] /\ d \in Ids /\ ClientOf[d] \in Ids
  BY <1>1, LocalIdsDiffer
<1>3. /\ bk.records[b].status = "NONE"
      /\ row.client \/ bk.records[ClientOf[b]].bound = b =>
           bk.records[ClientOf[b]].status = "NONE"
  BY <1>1, CandidatesAre, Zenon
<1>4. /\ bk \in Books /\ UnknownAreBlank(bk) /\ bk.records \in [Ids -> LocalRecords]
      /\ bk.machines \in [Ids -> StatusWords]
  BY DEF BookOK, Books
<1>5. bk.records[ClientOf[b]].bound # b
  <2>1. SUFFICES ASSUME bk.records[ClientOf[b]].bound = b PROVE FALSE
    OBVIOUS
  <2>2. bk.records[ClientOf[b]].bound = NoRemote
    BY <1>1, <1>2, <1>3, <1>4, <2>1, Zenon DEF UnknownAreBlank
  <2>3. QED
    BY <1>1, <2>1, <2>2, LocalIdsDiffer, Zenon
<1>6. bk.records[c].status = "NONE"
  BY <1>3
<1> HIDE DEF c
<1>7. bound = WithRecord(bk, c, b, b, "CREATED", "CREATED")
  <2> DEFINE rec0 == [NoLocal EXCEPT !.status = "CREATED", !.side = SideOf[b],
                                     !.size = SizeOf[b], !.account = AccountOf[b]]
             bk0 == Created(bk, c, b)
  <2>1. bk0 = [bk EXCEPT !.records = [bk.records EXCEPT ![c] = rec0],
                         !.machines = [bk.machines EXCEPT ![c] = "CREATED"]]
    BY <1>2, <1>4 DEF Created, Books
  <2>2. rec = [rec0 EXCEPT !.bound = b]
    BY DEF NoLocal
  <2> HIDE DEF rec0, rec
  <2>3. bk0.records[c] = rec0 /\ bk0.records = [bk.records EXCEPT ![c] = rec0]
    BY <1>2, <1>4, <2>1 DEF Books
  <2>4. [bk0.records EXCEPT ![c] = rec] = [bk.records EXCEPT ![c] = rec]
    BY <1>2, <1>4, <2>3
  <2>5. [bk0 EXCEPT !.records[c].bound = b]
          = [bk0 EXCEPT !.records = [bk0.records EXCEPT ![c] = [bk0.records[c] EXCEPT !.bound = b]]]
    BY Zenon
  <2>6. [bk0 EXCEPT !.records = [bk.records EXCEPT ![c] = rec]]
          = [bk EXCEPT !.machines = [bk.machines EXCEPT ![c] = "CREATED"],
                       !.records = [bk.records EXCEPT ![c] = rec]]
    BY <1>4, <2>1 DEF Books
  <2> HIDE DEF bk0
  <2>7. [bk0 EXCEPT !.records[c].bound = b]
          = [bk EXCEPT !.machines = [bk.machines EXCEPT ![c] = "CREATED"],
                       !.records = [bk.records EXCEPT ![c] = rec]]
    BY <2>2, <2>3, <2>4, <2>5, <2>6, Zenon
  <2>8. QED
    BY <2>7, Zenon DEF bk0, WithRecord, rec
<1> HIDE DEF bound
<1>8. "CREATED" \in StatusWords
  BY DEF StatusWords
<1>9. BookOK(bound, rem) /\ Target(bound, c, b, rem)
  <2>1. c = b => b \notin Tagged /\ bk.records[ClientOf[b]].bound # b
    BY <1>1, <1>2, <1>5, Zenon DEF c
  <2> HIDE DEF b
  <2>2. b \in {NoRemote, b} /\ "CREATED" # "NONE"
    OBVIOUS
  <2>3. MayBeMade(bk, c, b, b) /\ IsForTheOrder(bk, c, b, b)
    BY <1>3, <1>6, <2>1, Zenon DEF MayBeMade, IsForTheOrder
  <2>4. b \in RemoteIds /\ c \in {b, ClientOf[b]} /\ rem[b] # <<>>
    BY <1>1
  <2>5. /\ BookOK(WithRecord(bk, c, b, b, "CREATED", "CREATED"), rem)
        /\ Target(WithRecord(bk, c, b, b, "CREATED", "CREATED"), c, b, rem)
    BY <1>8, <2>2, <2>3, <2>4, MadeKeeps
  <2>6. QED
    BY <1>7, <2>5, Zenon
<1>10. BookOK(done.book, rem)
  BY <1>9, TransitionKeeps
<1>11. CreatesRecord(bk, row) = Stays(done.book, ~done.ok)
  BY Zenon DEF CreatesRecord, done, bound, c
<1> HIDE DEF done
<1>12. Stays(done.book, ~done.ok).book = done.book
  BY DEF Stays
<1>13. QED
  BY <1>10, <1>11, <1>12, Zenon

LEMMA ReconcileRowKeeps ==
  ASSUME NEW rem, NEW bk, BookOK(bk, rem), NEW row, RowOK(row, rem),
         row.client \in BOOLEAN, ~row.client => row.order \notin Tagged
  PROVE  BookOK(ReconcileRow(bk, row).book, rem)
<1> DEFINE c == CHOOSE x \in Found(bk, row) : TRUE
<1>1. row.order \in RemoteIds /\ Stays(bk, TRUE).book = bk
  BY DEF RowOK, Stays
<1>2. CASE Ambiguous(bk, row)
  <2>1. ReconcileRow(bk, row) = Stays(bk, TRUE)
    BY <1>2, Zenon DEF ReconcileRow
  <2>2. QED
    BY <1>1, <2>1, Zenon
<1>3. CASE ~Ambiguous(bk, row) /\ Candidates(bk, row) = {}
  <2>1. ReconcileRow(bk, row) = CreatesRecord(bk, row)
    BY <1>3, Zenon DEF ReconcileRow
  <2>2. BookOK(CreatesRecord(bk, row).book, rem)
    BY <1>3, CreatesKeeps
  <2>3. QED
    BY <2>1, <2>2, Zenon
<1>4. CASE ~Ambiguous(bk, row) /\ Candidates(bk, row) # {}
  <2>1. ReconcileRow(bk, row) = IF IdentityHolds(bk, c, row) THEN UpdatesRecord(bk, c, row)
                                ELSE Stays(bk, TRUE)
    BY <1>4, Zenon DEF ReconcileRow
  <2>2. /\ c \in {row.order, ClientOf[row.order]} /\ bk.records[c].status # "NONE"
        /\ c = ClientOf[row.order] => bk.records[row.order].status = "NONE"
    BY <1>1, <1>4, ChosenIs, Zenon
  <2> HIDE DEF c
  <2>3. BookOK(UpdatesRecord(bk, c, row).book, rem)
    BY <2>2, UpdatesKeeps
  <2>4. QED
    BY <1>1, <2>1, <2>3, Zenon
<1>5. QED
  BY <1>2, <1>3, <1>4

LEMMA PendingRowKeeps ==
  ASSUME NEW rem, NEW bk, BookOK(bk, rem), NEW row, RowOK(row, rem),
         row.client \in BOOLEAN, row.client => row.order \in Tagged, NEW pending
  PROVE  BookOK(ReconcilePendingRow(bk, row, pending).book, rem)
<1> DEFINE c == CHOOSE x \in Found(bk, row) : TRUE
           done == Transition(bk, c, row)
<1>1. /\ row.order \in RemoteIds
      /\ Stays(bk, TRUE).book = bk /\ Stays(bk, FALSE).book = bk
      /\ Stays(done.book, ~done.ok).book = done.book
  BY DEF RowOK, Stays
<1>2. CASE Ambiguous(bk, row)
  <2>1. ReconcilePendingRow(bk, row, pending) = Stays(bk, TRUE)
    BY <1>2, Zenon DEF ReconcilePendingRow
  <2>2. QED
    BY <1>1, <2>1, Zenon
<1>3. CASE ~Ambiguous(bk, row) /\ (Candidates(bk, row) = {} \/ c \notin pending)
  <2>1. ReconcilePendingRow(bk, row, pending) = Stays(bk, FALSE)
    BY <1>3, Zenon DEF ReconcilePendingRow
  <2>2. QED
    BY <1>1, <2>1, Zenon
<1>4. CASE ~Ambiguous(bk, row) /\ ~(Candidates(bk, row) = {} \/ c \notin pending)
  <2>1. ReconcilePendingRow(bk, row, pending)
          = IF IdentityHolds(bk, c, row) THEN Stays(done.book, ~done.ok) ELSE Stays(bk, TRUE)
    BY <1>4, Zenon DEF ReconcilePendingRow
  <2>2. /\ c \in {row.order, ClientOf[row.order]} /\ bk.records[c].status # "NONE"
        /\ c = ClientOf[row.order] => /\ bk.records[row.order].status = "NONE"
                                      /\ bk.records[c].bound = row.order \/ row.client
    <3>1. ~Ambiguous(bk, row) /\ Candidates(bk, row) # {}
      BY <1>4, Zenon
    <3>2. QED
      BY <1>1, <3>1, ChosenIs
  <2>3. Target(bk, c, row.order, rem)
    BY <2>2, Zenon DEF Target
  <2> HIDE DEF c
  <2>4. BookOK(done.book, rem)
    BY <2>3, TransitionKeeps
  <2> HIDE DEF done
  <2>5. QED
    BY <1>1, <2>1, <2>4, Zenon
<1>5. QED
  BY <1>2, <1>3, <1>4

-----------------------------------------------------------------------------
(* The rows of a snapshot.                                                  *)

LEMMA RowsAreOK ==
  ASSUME RemoteOK(remote), NEW row \in Rows
  PROVE  RowOK(row, remote) /\ row.client = (row.order \in Tagged) /\ row.client \in BOOLEAN
<1>0. PICK b \in RemoteIds :
        row \in {[order |-> b, client |-> b \in Tagged, status |-> remote[b][n].status,
                  filled |-> remote[b][n].filled,
                  price |-> IF priced THEN remote[b][n].price ELSE 0] :
                   n \in DOMAIN remote[b], priced \in BOOLEAN}
  BY DEF Rows
<1>1. PICK n \in DOMAIN remote[b], priced \in BOOLEAN :
        row = [order |-> b, client |-> b \in Tagged, status |-> remote[b][n].status,
               filled |-> remote[b][n].filled,
               price |-> IF priced THEN remote[b][n].price ELSE 0]
  BY <1>0
<1>2. /\ remote[b] \in Seq([status : StatusWords, filled : Nat, price : Nat])
      /\ remote[b][n].status # "NONE" /\ remote[b][n].filled <= FilledSoFar(b, remote)
  BY DEF RemoteOK
<1>7. remote[b] # <<>>
  OBVIOUS
<1>3. remote[b][n] \in [status : StatusWords, filled : Nat, price : Nat]
  <2> DEFINE S == [status : StatusWords, filled : Nat, price : Nat]
  <2>1. remote[b] \in Seq(S)
    BY <1>2
  <2> HIDE DEF S
  <2>2. remote[b][n] \in S
    BY <2>1
  <2>3. QED
    BY <2>2 DEF S
<1> DEFINE price == IF priced THEN remote[b][n].price ELSE 0
<1>4. price \in Nat
  BY <1>3
<1>5. /\ row.order = b /\ row.client = (b \in Tagged) /\ row.status = remote[b][n].status
      /\ row.filled = remote[b][n].filled /\ row.price = price
  <2> HIDE DEF price
  <2>1. row = [order |-> b, client |-> b \in Tagged, status |-> remote[b][n].status,
               filled |-> remote[b][n].filled, price |-> price]
    BY <1>1 DEF price
  <2>2. QED
    BY <2>1
<1>6. QED
  BY <1>2, <1>3, <1>4, <1>5, <1>7 DEF RowOK

LEMMA SnapshotsAre ==
  ASSUME NEW rows \in Snapshots PROVE rows \in Seq(Rows)
<1>1. PICK n \in 1..MaxRows : rows \in [1..n -> Rows]
  BY DEF Snapshots
<1>2. MaxRows \in Nat
  BY LocalOrdersAssumption
<1>3. n \in Nat
  BY <1>2
<1>4. QED
  BY <1>1, <1>3

-----------------------------------------------------------------------------
(* What every row of a snapshot keeps, the snapshot keeps.                  *)

LEMMA FoldWorked ==
  ASSUME NEW m, NEW start
  PROVE  FoldLeft(Worked, start, m) =
           (CHOOSE F : F = [T \in SUBSET DOMAIN m |->
              IF T = {} THEN start ELSE Worked(F[T \ {Max(T)}], m[Max(T)])])[DOMAIN m]
  BY Zenon DEF FoldLeft, MapThenFoldSet

LEMMA WorkedStays ==
  ASSUME NEW R, NEW m \in Seq(R), NEW Q, NEW start \in Q,
         \A x \in Q : \A i \in R : Worked(x, i) \in Q
  PROVE  FoldLeft(Worked, start, m) \in Q
<1> DEFINE n == Len(m)
           step == [x \in Q |-> [i \in R |-> Worked(x, i)]]
           F == CHOOSE G : G = [T \in SUBSET DOMAIN m |->
              IF T = {} THEN start ELSE Worked(G[T \ {Max(T)}], m[Max(T)])]
<1>1. n \in Nat /\ DOMAIN m = 1..n /\ \A k \in 1..n : m[k] \in R
  OBVIOUS
<1>2. \A x \in Q : \A i \in R : step[x][i] = Worked(x, i)
  BY Zenon
<1>3. FoldLeft(Worked, start, m) = F[1..n]
  BY <1>1, FoldWorked, Zenon
<1>4. F = CHOOSE G : G = [T \in SUBSET (1..n) |->
              IF T = {} THEN start ELSE Worked(G[T \ {Max(T)}], m[Max(T)])]
  BY <1>1, Zenon
<1> HIDE DEF n, step, F
<1>5. PICK G : /\ IsFold(G, step, start, m, n)
               /\ \A T \in SUBSET (1..n) : G[T] \in Q
  <2>1. \A x \in Q : \A i \in R : step[x][i] \in Q
    BY <1>2, Zenon
  <2>2. QED
    BY <1>1, <2>1, FoldIn, Zenon
<1>6. G = [T \in SUBSET (1..n) |->
             IF T = {} THEN start ELSE Worked(G[T \ {Max(T)}], m[Max(T)])]
  <2>1. ASSUME NEW T \in SUBSET (1..n), T # {}
        PROVE  step[G[T \ {Max(T)}]][m[Max(T)]] = Worked(G[T \ {Max(T)}], m[Max(T)])
    <3>1. Max(T) \in 1..n /\ T \ {Max(T)} \in SUBSET (1..n)
      BY <1>1, <2>1, MaxOfPositions
    <3>2. G[T \ {Max(T)}] \in Q /\ m[Max(T)] \in R
      BY <1>1, <1>5, <3>1
    <3>3. QED
      BY <1>2, <3>2, Zenon
  <2>2. G = [T \in SUBSET (1..n) |->
               IF T = {} THEN start ELSE step[G[T \ {Max(T)}]][m[Max(T)]]]
    BY <1>5, Zenon DEF IsFold
  <2>3. QED
    BY <2>1, <2>2, Zenon
<1>7. F = [T \in SUBSET (1..n) |->
             IF T = {} THEN start ELSE Worked(F[T \ {Max(T)}], m[Max(T)])]
  BY <1>4, <1>6, Zenon
<1>8. \A T \in SUBSET (1..n) :
        F[T] = IF T = {} THEN start ELSE Worked(F[T \ {Max(T)}], m[Max(T)])
  BY <1>7, Zenon
<1>9. F[{}] \in Q
  BY <1>8
<1>10. ASSUME NEW k \in 1..n, F[1..(k - 1)] \in Q PROVE F[1..k] \in Q
  <2>1. F[1..k] = Worked(F[1..(k - 1)], m[k])
    BY <1>1, <1>8, LastOfFirst, Zenon
  <2>2. QED
    BY <1>1, <1>10, <2>1
<1>11. F[1..n] \in Q
  BY <1>1, <1>9, <1>10, FoldStays
<1>12. QED
  BY <1>3, <1>11, Zenon

LEMMA FoldLookedUp ==
  ASSUME NEW m, NEW start
  PROVE  FoldLeft(LookedUp, start, m) =
           (CHOOSE F : F = [T \in SUBSET DOMAIN m |->
              IF T = {} THEN start ELSE LookedUp(F[T \ {Max(T)}], m[Max(T)])])[DOMAIN m]
  BY Zenon DEF FoldLeft, MapThenFoldSet

LEMMA LookedUpStays ==
  ASSUME NEW R, NEW m \in Seq(R), NEW Q, NEW start \in Q,
         \A x \in Q : \A i \in R : LookedUp(x, i) \in Q
  PROVE  FoldLeft(LookedUp, start, m) \in Q
<1> DEFINE n == Len(m)
           step == [x \in Q |-> [i \in R |-> LookedUp(x, i)]]
           F == CHOOSE G : G = [T \in SUBSET DOMAIN m |->
              IF T = {} THEN start ELSE LookedUp(G[T \ {Max(T)}], m[Max(T)])]
<1>1. n \in Nat /\ DOMAIN m = 1..n /\ \A k \in 1..n : m[k] \in R
  OBVIOUS
<1>2. \A x \in Q : \A i \in R : step[x][i] = LookedUp(x, i)
  BY Zenon
<1>3. FoldLeft(LookedUp, start, m) = F[1..n]
  BY <1>1, FoldLookedUp, Zenon
<1>4. F = CHOOSE G : G = [T \in SUBSET (1..n) |->
              IF T = {} THEN start ELSE LookedUp(G[T \ {Max(T)}], m[Max(T)])]
  BY <1>1, Zenon
<1> HIDE DEF n, step, F
<1>5. PICK G : /\ IsFold(G, step, start, m, n)
               /\ \A T \in SUBSET (1..n) : G[T] \in Q
  <2>1. \A x \in Q : \A i \in R : step[x][i] \in Q
    BY <1>2, Zenon
  <2>2. QED
    BY <1>1, <2>1, FoldIn, Zenon
<1>6. G = [T \in SUBSET (1..n) |->
             IF T = {} THEN start ELSE LookedUp(G[T \ {Max(T)}], m[Max(T)])]
  <2>1. ASSUME NEW T \in SUBSET (1..n), T # {}
        PROVE  step[G[T \ {Max(T)}]][m[Max(T)]] = LookedUp(G[T \ {Max(T)}], m[Max(T)])
    <3>1. Max(T) \in 1..n /\ T \ {Max(T)} \in SUBSET (1..n)
      BY <1>1, <2>1, MaxOfPositions
    <3>2. G[T \ {Max(T)}] \in Q /\ m[Max(T)] \in R
      BY <1>1, <1>5, <3>1
    <3>3. QED
      BY <1>2, <3>2, Zenon
  <2>2. G = [T \in SUBSET (1..n) |->
               IF T = {} THEN start ELSE step[G[T \ {Max(T)}]][m[Max(T)]]]
    BY <1>5, Zenon DEF IsFold
  <2>3. QED
    BY <2>1, <2>2, Zenon
<1>7. F = [T \in SUBSET (1..n) |->
             IF T = {} THEN start ELSE LookedUp(F[T \ {Max(T)}], m[Max(T)])]
  BY <1>4, <1>6, Zenon
<1>8. \A T \in SUBSET (1..n) :
        F[T] = IF T = {} THEN start ELSE LookedUp(F[T \ {Max(T)}], m[Max(T)])
  BY <1>7, Zenon
<1>9. F[{}] \in Q
  BY <1>8
<1>10. ASSUME NEW k \in 1..n, F[1..(k - 1)] \in Q PROVE F[1..k] \in Q
  <2>1. F[1..k] = LookedUp(F[1..(k - 1)], m[k])
    BY <1>1, <1>8, LastOfFirst, Zenon
  <2>2. QED
    BY <1>1, <1>10, <2>1
<1>11. F[1..n] \in Q
  BY <1>1, <1>9, <1>10, FoldStays
<1>12. QED
  BY <1>3, <1>11, Zenon

-----------------------------------------------------------------------------
(* The steps.                                                               *)

LEMMA ReconcileStays ==
  ASSUME NEW rows \in Seq(Rows), NEW Q, book \in Q, Reconcile(rows),
         \A bk \in Q : \A row \in Rows : Worked(bk, row) \in Q
  PROVE  book' \in Q
<1>1. FoldLeft(Worked, book, rows) \in Q
  BY WorkedStays, Zenon
<1>2. QED
  BY <1>1, Zenon DEF Reconcile

LEMMA RecoverStays ==
  ASSUME NEW rows \in Seq(Rows), NEW Q, book \in Q, Recover(rows),
         \A bk \in Q : \A row \in Rows : LookedUp(bk, row) \in Q
  PROVE  book' \in Q
<1>1. FoldLeft(LookedUp, book, rows) \in Q
  BY LookedUpStays, Zenon
<1>2. QED
  BY <1>1, Zenon DEF Recover

LEMMA RecoverAccountStays ==
  ASSUME NEW rows \in Seq(Rows), NEW Q, [book |-> book, alerts |-> {}] \in Q, NEW a,
         RecoverAccount(rows, a),
         \A acc \in Q : \A row \in Rows : PendingOf(a, acc, row) \in Q
  PROVE  \E after \in Q : book' = after.book
<1> DEFINE start == [book |-> book, alerts |-> {}]
           n == Len(rows)
           step == [x \in Q |-> [i \in Rows |-> PendingOf(a, x, i)]]
           F == CHOOSE G : G = [T \in SUBSET DOMAIN rows |->
              IF T = {} THEN start ELSE PendingOf(a, G[T \ {Max(T)}], rows[Max(T)])]
<1>1. n \in Nat /\ DOMAIN rows = 1..n /\ \A k \in 1..n : rows[k] \in Rows
  OBVIOUS
<1>2. \A x \in Q : \A i \in Rows : step[x][i] = PendingOf(a, x, i)
  BY Zenon
<1>3. book' = F[1..n].book
  <2>1. book' = FoldLeft(LAMBDA acc, row : PendingOf(a, acc, row), start, rows).book
    BY Zenon DEF RecoverAccount, start
  <2>2. FoldLeft(LAMBDA acc, row : PendingOf(a, acc, row), start, rows) = F[1..n]
    BY <1>1, Zenon DEF FoldLeft, MapThenFoldSet
  <2>3. QED
    BY <2>1, <2>2, Zenon
<1>4. F = CHOOSE G : G = [T \in SUBSET (1..n) |->
              IF T = {} THEN start ELSE PendingOf(a, G[T \ {Max(T)}], rows[Max(T)])]
  BY <1>1, Zenon
<1> HIDE DEF n, step, F, start
<1>0. start \in Q
  BY DEF start
<1>5. PICK G : /\ IsFold(G, step, start, rows, n)
               /\ \A T \in SUBSET (1..n) : G[T] \in Q
  <2>1. \A x \in Q : \A i \in Rows : step[x][i] \in Q
    BY <1>2, Zenon
  <2>2. QED
    BY <1>0, <1>1, <2>1, FoldIn, Zenon
<1>6. G = [T \in SUBSET (1..n) |->
             IF T = {} THEN start ELSE PendingOf(a, G[T \ {Max(T)}], rows[Max(T)])]
  <2>1. ASSUME NEW T \in SUBSET (1..n), T # {}
        PROVE  step[G[T \ {Max(T)}]][rows[Max(T)]] = PendingOf(a, G[T \ {Max(T)}], rows[Max(T)])
    <3>1. Max(T) \in 1..n /\ T \ {Max(T)} \in SUBSET (1..n)
      BY <1>1, <2>1, MaxOfPositions
    <3>2. G[T \ {Max(T)}] \in Q /\ rows[Max(T)] \in Rows
      BY <1>1, <1>5, <3>1
    <3>3. QED
      BY <1>2, <3>2, Zenon
  <2>2. G = [T \in SUBSET (1..n) |->
               IF T = {} THEN start ELSE step[G[T \ {Max(T)}]][rows[Max(T)]]]
    BY <1>5, Zenon DEF IsFold
  <2>3. QED
    BY <2>1, <2>2, Zenon
<1>7. F = [T \in SUBSET (1..n) |->
             IF T = {} THEN start ELSE PendingOf(a, F[T \ {Max(T)}], rows[Max(T)])]
  BY <1>4, <1>6, Zenon
<1>8. \A T \in SUBSET (1..n) :
        F[T] = IF T = {} THEN start ELSE PendingOf(a, F[T \ {Max(T)}], rows[Max(T)])
  BY <1>7, Zenon
<1>9. F[{}] \in Q
  BY <1>0, <1>8
<1>10. ASSUME NEW k \in 1..n, F[1..(k - 1)] \in Q PROVE F[1..k] \in Q
  <2>1. F[1..k] = PendingOf(a, F[1..(k - 1)], rows[k])
    BY <1>1, <1>8, LastOfFirst, Zenon
  <2>2. QED
    BY <1>1, <1>10, <2>1
<1>11. F[1..n] \in Q
  BY <1>1, <1>9, <1>10, FoldStays
<1>12. QED
  BY <1>3, <1>11, Zenon

Kept(rem) == {bk \in Books : BookOK(bk, rem)}

LEMMA ReconcileKeeps ==
  ASSUME LocalInv, NEW rows \in Snapshots, Reconcile(rows)
  PROVE  BookOK(book', remote)
<1>1. RemoteOK(remote) /\ BookOK(book, remote) /\ book \in Kept(remote)
  BY Zenon DEF LocalInv, Kept, BookOK
<1>2. rows \in Seq(Rows)
  BY SnapshotsAre
<1>3. ASSUME NEW bk \in Kept(remote), NEW row \in Rows
      PROVE  Worked(bk, row) \in Kept(remote)
  <2>1. /\ RowOK(row, remote) /\ row.client \in BOOLEAN
        /\ ~row.client => row.order \notin Tagged
    BY <1>1, RowsAreOK
  <2>2. BookOK(bk, remote)
    BY DEF Kept
  <2>3. BookOK(ReconcileRow(bk, row).book, remote)
    BY <2>1, <2>2, ReconcileRowKeeps
  <2>4. QED
    BY <2>3, Zenon DEF Kept, BookOK, Worked
<1>4. \A bk \in Kept(remote) : \A row \in Rows : Worked(bk, row) \in Kept(remote)
  BY <1>3, Zenon
<1>5. book' \in Kept(remote)
  BY <1>1, <1>2, <1>4, ReconcileStays
<1>6. QED
  BY <1>5 DEF Kept

\* The row of an order looked up by its own id names the client, whose record it is.
LEMMA RecoverKeeps ==
  ASSUME LocalInv, NEW rows \in Snapshots, Recover(rows)
  PROVE  BookOK(book', remote)
<1>1. RemoteOK(remote) /\ BookOK(book, remote) /\ book \in Kept(remote)
  BY Zenon DEF LocalInv, Kept, BookOK
<1>2. rows \in Seq(Rows)
  BY SnapshotsAre
<1>3. ASSUME NEW bk \in Kept(remote), NEW row \in Rows
      PROVE  LookedUp(bk, row) \in Kept(remote)
  <2> DEFINE named == [row EXCEPT !.client = TRUE]
  <2>1. RowOK(row, remote)
    BY <1>1, RowsAreOK
  <2>2. BookOK(bk, remote)
    BY DEF Kept
  <2>3. RowOK(named, remote) /\ named.client
    <3>1. /\ named.order = row.order /\ named.status = row.status
          /\ named.filled = row.filled /\ named.price = row.price /\ named.client
      BY DEF Rows
    <3> HIDE DEF named
    <3>2. QED
      BY <2>1, <3>1, Zenon DEF RowOK
  <2> HIDE DEF named
  <2>4. BookOK(ReconcileRow(bk, named).book, remote)
    BY <2>2, <2>3, ReconcileRowKeeps
  <2>5. LookedUp(bk, row) \in {ReconcileRow(bk, named).book, bk}
    BY Zenon DEF LookedUp, named
  <2>6. QED
    BY <2>2, <2>4, <2>5, Zenon DEF Kept, BookOK
<1>4. \A bk \in Kept(remote) : \A row \in Rows : LookedUp(bk, row) \in Kept(remote)
  BY <1>3, Zenon
<1>5. book' \in Kept(remote)
  BY <1>1, <1>2, <1>4, RecoverStays
<1>6. QED
  BY <1>5 DEF Kept

LEMMA RecoverAccountKeeps ==
  ASSUME LocalInv, NEW rows \in Snapshots, NEW a, RecoverAccount(rows, a)
  PROVE  BookOK(book', remote)
<1> DEFINE Q == [book : Kept(remote), alerts : SUBSET RemoteIds]
<1>1. RemoteOK(remote) /\ BookOK(book, remote) /\ book \in Kept(remote)
  BY Zenon DEF LocalInv, Kept, BookOK
<1>2. rows \in Seq(Rows)
  BY SnapshotsAre
<1>3. ASSUME NEW acc \in Q, NEW row \in Rows
      PROVE  PendingOf(a, acc, row) \in Q
  <2> DEFINE done == ReconcilePendingRow(acc.book, row, PendingIn(book))
             alerts == IF done.alerts THEN acc.alerts \cup {row.order} ELSE acc.alerts
  <2>1. /\ RowOK(row, remote) /\ row.client \in BOOLEAN
        /\ row.client => row.order \in Tagged
        /\ row.order \in RemoteIds
    BY <1>1, RowsAreOK DEF RowOK
  <2>2. BookOK(acc.book, remote) /\ acc.alerts \in SUBSET RemoteIds
    BY DEF Kept
  <2>3. BookOK(done.book, remote)
    <3> DEFINE bk == acc.book
               pending == PendingIn(book)
    <3>1. BookOK(bk, remote)
      BY <2>2
    <3> HIDE DEF bk, pending
    <3>2. \A q : BookOK(ReconcilePendingRow(bk, row, q).book, remote)
      BY <2>1, <3>1, PendingRowKeeps
    <3>3. QED
      BY <3>2, Zenon DEF bk, pending
  <2>4. done.book \in Kept(remote)
    BY <2>3, Zenon DEF Kept, BookOK
  <2>5. alerts \in SUBSET RemoteIds
    BY <2>1, <2>2
  <2>6. PendingOf(a, acc, row) = acc \/ PendingOf(a, acc, row) = [book |-> done.book, alerts |-> alerts]
    BY Zenon DEF PendingOf
  <2> HIDE DEF done, alerts
  <2>7. QED
    BY <2>4, <2>5, <2>6
<1>4. [book |-> book, alerts |-> {}] \in Q
  BY <1>1
<1>5. \A acc \in Q : \A row \in Rows : PendingOf(a, acc, row) \in Q
  BY <1>3, Zenon
<1> HIDE DEF Q
<1>6. PICK after \in Q : book' = after.book
  BY <1>2, <1>4, <1>5, RecoverAccountStays
<1>7. book' \in Kept(remote)
  BY <1>5, <1>6 DEF Q
<1>8. QED
  BY <1>7 DEF Kept

LEMMA CreateKeeps ==
  ASSUME LocalInv, NEW b \in RemoteIds, CreateLocal(b)
  PROVE  BookOK(book', remote)
<1> DEFINE c == ClientOf[b]
<1>1. /\ BookOK(book, remote) /\ book \in Books
      /\ book.records \in [Ids -> LocalRecords] /\ book.machines \in [Ids -> StatusWords]
  BY DEF LocalInv, BookOK, Books
<1>2. /\ c \in Ids /\ c # b /\ NoRemote # b
  BY LocalIdsDiffer
<1>3. PICK status \in {"SUBMISSION_INTENT", "PENDING_RECONCILIATION"} :
        book' = [Created(book, c, b) EXCEPT !.records[c].status = status,
                                            !.machines[c] = MachineState(status)]
  BY Zenon DEF CreateLocal
<1>4. book.records[c].status = "NONE"
  <2>1. book.records[c] = NoLocal
    BY Zenon DEF CreateLocal
  <2>2. QED
    BY <2>1 DEF NoLocal
<1>5. /\ status \in StatusWords /\ status # "NONE" /\ MachineState(status) \in StatusWords
  BY DEF StatusWords, MachineState
<1>6. book' = WithRecord(book, c, b, NoRemote, status, MachineState(status))
  <2> DEFINE state == MachineState(status)
             rec0 == [NoLocal EXCEPT !.status = "CREATED", !.side = SideOf[b],
                                     !.size = SizeOf[b], !.account = AccountOf[b]]
             rec == [NoLocal EXCEPT !.status = status, !.side = SideOf[b], !.size = SizeOf[b],
                                    !.account = AccountOf[b], !.bound = NoRemote]
             bk0 == Created(book, c, b)
  <2> HIDE DEF state, c
  <2>1. bk0 = [book EXCEPT !.records = [book.records EXCEPT ![c] = rec0],
                           !.machines = [book.machines EXCEPT ![c] = "CREATED"]]
    BY <1>1, <1>2 DEF Created, Books
  <2>2. [rec0 EXCEPT !.status = status] = rec
    <3> DEFINE made == [NoLocal EXCEPT !.status = status, !.side = SideOf[b],
                                       !.size = SizeOf[b], !.account = AccountOf[b]]
    <3>1. [rec0 EXCEPT !.status = status] = made
      OBVIOUS
    <3>2. NoLocal.bound = NoRemote /\ NoLocal = [f \in DOMAIN NoLocal |-> NoLocal[f]]
      BY DEF NoLocal
    <3>3. rec = made
      BY <3>2
    <3>4. QED
      BY <3>1, <3>3, Zenon
  <2> HIDE DEF rec0, rec
  <2>3. bk0.records[c] = rec0 /\ bk0.records = [book.records EXCEPT ![c] = rec0]
        /\ bk0.machines = [book.machines EXCEPT ![c] = "CREATED"]
    BY <1>1, <1>2, <2>1 DEF Books
  <2>4. /\ [bk0.records EXCEPT ![c] = rec] = [book.records EXCEPT ![c] = rec]
        /\ [bk0.machines EXCEPT ![c] = state] = [book.machines EXCEPT ![c] = state]
    BY <1>1, <1>2, <2>3
  <2>5. [bk0 EXCEPT !.records[c].status = status, !.machines[c] = state]
          = [bk0 EXCEPT !.records = [bk0.records EXCEPT ![c] = [bk0.records[c] EXCEPT !.status = status]],
                        !.machines = [bk0.machines EXCEPT ![c] = state]]
    BY <2>1, <1>1 DEF Books
  <2>6. [bk0 EXCEPT !.records = [book.records EXCEPT ![c] = rec],
                    !.machines = [book.machines EXCEPT ![c] = state]]
          = [book EXCEPT !.machines = [book.machines EXCEPT ![c] = state],
                         !.records = [book.records EXCEPT ![c] = rec]]
    BY <1>1, <2>1 DEF Books
  <2> HIDE DEF bk0
  <2>7. [bk0 EXCEPT !.records[c].status = status, !.machines[c] = state]
          = [book EXCEPT !.machines = [book.machines EXCEPT ![c] = state],
                         !.records = [book.records EXCEPT ![c] = rec]]
    BY <2>2, <2>3, <2>4, <2>5, <2>6, Zenon
  <2>8. QED
    BY <1>3, <2>7, Zenon DEF bk0, WithRecord, rec, state
<1>7. MayBeMade(book, c, b, NoRemote) /\ c \in {b, ClientOf[b]} /\ NoRemote \in {NoRemote, b}
  BY <1>2, <1>4 DEF MayBeMade
<1> HIDE DEF c
<1>8. BookOK(WithRecord(book, c, b, NoRemote, status, MachineState(status)), remote)
  <2>1. NoRemote = b => remote[b] # <<>>
    BY <1>2
  <2>2. QED
    BY <1>1, <1>5, <1>7, <2>1, MadeKeeps
<1>9. QED
  BY <1>6, <1>8, Zenon

LEMMA MarkKeeps ==
  ASSUME LocalInv, NEW x \in Ids, MarkPending(x)
  PROVE  BookOK(book', remote)
<1>1. /\ BookOK(book, remote) /\ book \in Books /\ KnownAreOfOrders(book) /\ AccountsHold(book)
      /\ BesideNothing(book, remote) /\ BookedWhenBound(book, remote) /\ BookedIsFilled(book, remote)
  BY Zenon DEF LocalInv, BookOK
<1>2. book.records[x].status # "NONE"
  BY DEF MarkPending
<1>3. PICK b \in RemoteIds : x \in {b, ClientOf[b]}
  BY <1>1, <1>2, Zenon DEF KnownAreOfOrders
<1> DEFINE rec == [book.records[x] EXCEPT !.status = "PENDING_RECONCILIATION"]
<1>4. /\ book.records \in [Ids -> LocalRecords] /\ book.machines \in [Ids -> StatusWords]
      /\ book.records[x] \in LocalRecords /\ book.net \in Int
  BY <1>1 DEF Books
<1>5. book' = [book EXCEPT !.records = [book.records EXCEPT ![x] = rec],
                           !.machines = [book.machines EXCEPT ![x] = "PENDING_RECONCILIATION"]]
  <2>1. book' = [book EXCEPT !.records[x].status = "PENDING_RECONCILIATION",
                             !.machines[x] = "PENDING_RECONCILIATION"]
    BY Zenon DEF MarkPending
  <2>2. QED
    BY <1>1, <1>4, <2>1 DEF Books
<1>6. "PENDING_RECONCILIATION" \in StatusWords
  BY DEF StatusWords
<1>7. /\ rec \in LocalRecords /\ rec.status # "NONE" /\ rec.side = book.records[x].side
      /\ rec.applied = book.records[x].applied /\ rec.bound = book.records[x].bound
      /\ rec.account = book.records[x].account
  BY <1>4, <1>6 DEF LocalRecords
<1> HIDE DEF rec
<1>8. /\ book' \in Books /\ book'.net = book.net
      /\ book'.records = [book.records EXCEPT ![x] = rec]
  <2>1. /\ [book.records EXCEPT ![x] = rec] \in [Ids -> LocalRecords]
        /\ [book.machines EXCEPT ![x] = "PENDING_RECONCILIATION"] \in [Ids -> StatusWords]
    BY <1>4, <1>6, <1>7
  <2>2. QED
    BY <1>1, <1>5, <2>1 DEF Books
<1> DEFINE new == book'
<1> HIDE DEF new
<1>9. /\ new \in Books /\ new.net = book.net /\ new.records[x] = rec
      /\ \A c \in Ids \ {x} : new.records[c] = book.records[c]
  BY <1>4, <1>8 DEF new
<1>10. new.net = book.net - Parts(book)[x] + Parts(new)[x]
  <2>1. /\ Parts(book)[x] = Signed(book.records[x].side, book.records[x].applied)
        /\ Parts(book)[x] \in Int
    BY <1>1, PartsType, Zenon
  <2>2. Parts(new)[x] = Signed(new.records[x].side, new.records[x].applied)
    BY <1>9, PartsType, Zenon
  <2>3. Parts(new)[x] = Parts(book)[x]
    BY <1>7, <1>9, <2>1, <2>2, Zenon
  <2>4. QED
    BY <1>4, <1>9, <2>1, <2>3
<1>11. rec.account = AccountOf[b]
  BY <1>1, <1>2, <1>3, <1>7, Zenon DEF AccountsHold
<1>12. FitsAll(book, new, x, remote)
  <2>1. SUFFICES ASSUME NEW d \in RemoteIds, Sole(d, remote), x \in {d, ClientOf[d]}
                 PROVE  Fits(book, new, x, d, remote)
    BY Zenon DEF FitsAll
  <2>2. rec.applied <= FilledSoFar(d, remote)
    BY <1>1, <1>7, <2>1, Zenon DEF BookedIsFilled
  <2>3. x = d => /\ d \notin Tagged /\ book.records[ClientOf[d]].applied = 0
                 /\ book.records[ClientOf[d]].bound # d
    BY <1>1, <1>2, <2>1, Zenon DEF BesideNothing
  <2>4. x = ClientOf[d] => /\ \/ book.records[d].status = "NONE"
                              \/ rec.applied = 0 /\ rec.bound # d
                           /\ \/ d \in Tagged \/ rec.applied = 0 \/ rec.bound = d
    BY <1>1, <1>7, <2>1, Zenon DEF BesideNothing, BookedWhenBound
  <2>5. QED
    BY <1>9, <2>2, <2>3, <2>4, Zenon DEF Fits
<1>15. Changed(book, new, x, b, remote)
  <2>1. new.records[x].bound \in {book.records[x].bound, NoRemote}
    BY <1>7, <1>9
  <2>2. QED
    BY <1>7, <1>9, <1>10, <1>11, <1>12, <2>1, Zenon DEF Changed
<1>16. BookOK(new, remote)
  BY <1>1, <1>3, <1>15, ChangedKeeps
<1>17. QED
  BY <1>16 DEF new

\* What an order filled only grows.
LEMMA ReportKeeps ==
  ASSUME NEW rem, RemoteOK(rem), NEW b \in RemoteIds,
         NEW report \in [status : StatusWords, filled : Nat, price : Nat],
         report.status # "NONE", FilledSoFar(b, rem) <= report.filled
  PROVE  LET new == [rem EXCEPT ![b] = Append(@, report)] IN
         /\ RemoteOK(new)
         /\ \A d \in RemoteIds : /\ FilledSoFar(d, rem) <= FilledSoFar(d, new)
                                 /\ new[d] = <<>> => rem[d] = <<>>
<1> DEFINE new == [rem EXCEPT ![b] = Append(@, report)]
           S == [status : StatusWords, filled : Nat, price : Nat]
           s == rem[b]
           t == Append(s, report)
<1>1. /\ rem = [d \in RemoteIds |-> rem[d]]
      /\ \A d \in RemoteIds :
           /\ rem[d] \in Seq(S)
           /\ \A n \in DOMAIN rem[d] : /\ rem[d][n].status # "NONE"
                                       /\ rem[d][n].filled <= FilledSoFar(d, rem)
  BY Zenon DEF RemoteOK
<1>2. /\ new = [d \in RemoteIds |-> new[d]] /\ new[b] = t
      /\ \A d \in RemoteIds : d # b => new[d] = rem[d]
  BY <1>1
<1>3. \A d \in RemoteIds : FilledSoFar(d, rem) \in Nat
  <2> TAKE d \in RemoteIds
  <2>1. rem[d] # <<>> => Last(rem[d]) \in S
    <3> HIDE DEF S
    <3>1. QED
      BY <1>1 DEF Last
  <2>2. QED
    BY <2>1 DEF FilledSoFar
<1>4. report.filled \in Nat /\ report \in S
  OBVIOUS
<1> HIDE DEF new, S
<1>5. /\ s \in Seq(S) /\ t \in Seq(S) /\ t # <<>> /\ Last(t) = report
      /\ \A n \in DOMAIN t : (n \in DOMAIN s /\ t[n] = s[n]) \/ t[n] = report
  BY <1>1, <1>4 DEF Last
<1> HIDE DEF t
<1>6. FilledSoFar(b, new) = report.filled
  BY <1>2, <1>5, Zenon DEF FilledSoFar
<1>7. \A d \in RemoteIds : d # b => FilledSoFar(d, new) = FilledSoFar(d, rem)
  BY <1>2, Zenon DEF FilledSoFar
<1>8. \A d \in RemoteIds : FilledSoFar(d, rem) <= FilledSoFar(d, new)
  BY <1>3, <1>6, <1>7
<1>9. ASSUME NEW d \in RemoteIds, NEW n \in DOMAIN new[d]
      PROVE  new[d][n].status # "NONE" /\ new[d][n].filled <= FilledSoFar(d, new)
  <2>1. CASE d # b
    BY <1>1, <1>2, <1>7, <2>1
  <2>2. CASE d = b
    <3>1. /\ new[d] = t /\ n \in DOMAIN t
          /\ (n \in DOMAIN s /\ t[n] = s[n]) \/ t[n] = report
      BY <1>2, <1>5, <2>2
    <3>2. CASE n \in DOMAIN s /\ t[n] = s[n]
      <4>1. /\ s[n].status # "NONE" /\ s[n].filled <= FilledSoFar(b, rem)
            /\ s[n] \in S
        BY <1>1, <1>5, <3>2
      <4>2. s[n].filled \in Nat
        BY <4>1 DEF S
      <4>3. QED
        BY <1>3, <1>4, <1>6, <2>2, <3>1, <3>2, <4>1, <4>2
    <3>3. CASE t[n] = report
      BY <1>4, <1>6, <2>2, <3>1, <3>3
    <3>4. QED
      BY <3>1, <3>2, <3>3
  <2>3. QED
    BY <2>1, <2>2
<1>10. \A d \in RemoteIds : new[d] \in Seq(S)
  BY <1>1, <1>2, <1>5
<1>11. RemoteOK(new)
  BY <1>2, <1>9, <1>10, Zenon DEF RemoteOK, S
<1>12. \A d \in RemoteIds : new[d] = <<>> => rem[d] = <<>>
  BY <1>2, <1>5, Zenon
<1>13. QED
  BY <1>8, <1>11, <1>12, Zenon DEF new

LEMMA RemoteKeeps ==
  ASSUME LocalInv, NEW b \in RemoteIds, RemoteStep(b)
  PROVE  LocalInv'
<1> DEFINE S == [status : StatusWords, filled : Nat, price : Nat]
           now == Last(remote[b])
<1>1. RemoteOK(remote) /\ BookOK(book, remote)
  BY Zenon DEF LocalInv
<1>2. remote[b] # <<>> => /\ now \in S /\ now.filled \in Nat /\ now.price \in Nat
                          /\ FilledSoFar(b, remote) = now.filled
  <2>1. remote[b] \in Seq(S)
    BY <1>1 DEF RemoteOK
  <2>2. remote[b] # <<>> => now \in S
    <3> HIDE DEF S
    <3>1. QED
      BY <2>1 DEF Last
  <2>3. QED
    BY <2>2 DEF FilledSoFar
<1>3. remote[b] = <<>> => FilledSoFar(b, remote) = 0
  BY DEF FilledSoFar
<1>4. \A price \in 1..MaxPrice : price \in Nat
  BY LocalOrdersAssumption
<1>5. {"SUBMITTED", "FILLED", "PARTIALLY_FILLED", "REJECTED", "CANCELLED"} \subseteq StatusWords \ {"NONE"}
  BY DEF StatusWords, Final
<1>6. book' = book
  BY DEF RemoteStep
<1> DEFINE Reports(report) == remote' = [remote EXCEPT ![b] = Append(@, report)]
<1>7. PICK report \in S : /\ report.status # "NONE" /\ FilledSoFar(b, remote) <= report.filled
                          /\ Reports(report)
  <2> HIDE DEF now
  <2>1. \/ /\ remote[b] = <<>>
           /\ Reports([status |-> "SUBMITTED", filled |-> 0, price |-> 0])
        \/ /\ remote[b] # <<>>
           /\ \E price \in 1..MaxPrice :
                Reports([status |-> IF now.filled + 1 = SizeOf[b] THEN "FILLED"
                                    ELSE "PARTIALLY_FILLED",
                         filled |-> now.filled + 1, price |-> price])
        \/ /\ remote[b] # <<>>
           /\ Reports([status |-> IF now.filled = 0 THEN "REJECTED" ELSE "CANCELLED",
                       filled |-> now.filled, price |-> now.price])
    BY Zenon DEF RemoteStep, now
  <2> HIDE DEF Reports
  <2>2. ASSUME remote[b] = <<>>,
               Reports([status |-> "SUBMITTED", filled |-> 0, price |-> 0])
        PROVE  \E report \in S : /\ report.status # "NONE"
                                 /\ FilledSoFar(b, remote) <= report.filled /\ Reports(report)
    <3> DEFINE r == [status |-> "SUBMITTED", filled |-> 0, price |-> 0]
    <3>1. r \in S /\ r.status # "NONE" /\ FilledSoFar(b, remote) <= r.filled
      BY <1>3, <1>5, <2>2
    <3> HIDE DEF S
    <3>2. QED
      BY <2>2, <3>1, Zenon
  <2>3. ASSUME remote[b] # <<>>, NEW price \in 1..MaxPrice,
               Reports([status |-> IF now.filled + 1 = SizeOf[b] THEN "FILLED"
                                   ELSE "PARTIALLY_FILLED",
                        filled |-> now.filled + 1, price |-> price])
        PROVE  \E report \in S : /\ report.status # "NONE"
                                 /\ FilledSoFar(b, remote) <= report.filled /\ Reports(report)
    <3> DEFINE status == IF now.filled + 1 = SizeOf[b] THEN "FILLED" ELSE "PARTIALLY_FILLED"
               r == [status |-> status, filled |-> now.filled + 1, price |-> price]
    <3>1. status \in StatusWords \ {"NONE"}
      BY <1>5
    <3>2. Reports(r)
      BY <2>3, Zenon
    <3> HIDE DEF status
    <3>3. r \in S /\ r.status # "NONE" /\ FilledSoFar(b, remote) <= r.filled
      BY <1>2, <1>4, <2>3, <3>1
    <3> HIDE DEF S, r
    <3>4. QED
      BY <3>2, <3>3, Zenon
  <2>4. ASSUME remote[b] # <<>>,
               Reports([status |-> IF now.filled = 0 THEN "REJECTED" ELSE "CANCELLED",
                        filled |-> now.filled, price |-> now.price])
        PROVE  \E report \in S : /\ report.status # "NONE"
                                 /\ FilledSoFar(b, remote) <= report.filled /\ Reports(report)
    <3> DEFINE status == IF now.filled = 0 THEN "REJECTED" ELSE "CANCELLED"
               r == [status |-> status, filled |-> now.filled, price |-> now.price]
    <3>1. status \in StatusWords \ {"NONE"}
      BY <1>5
    <3>2. Reports(r)
      BY <2>4, Zenon
    <3> HIDE DEF status
    <3>3. r \in S /\ r.status # "NONE" /\ FilledSoFar(b, remote) <= r.filled
      BY <1>2, <2>4, <3>1
    <3> HIDE DEF S, r
    <3>4. QED
      BY <3>2, <3>3, Zenon
  <2>5. QED
    BY <2>1, <2>2, <2>3, <2>4, Zenon
<1> DEFINE new == [remote EXCEPT ![b] = Append(@, report)]
<1>8. /\ RemoteOK(new)
      /\ \A d \in RemoteIds : /\ FilledSoFar(d, remote) <= FilledSoFar(d, new)
                              /\ new[d] = <<>> => remote[d] = <<>>
  <2>1. /\ report \in [status : StatusWords, filled : Nat, price : Nat]
        /\ report.status # "NONE" /\ FilledSoFar(b, remote) <= report.filled
    BY <1>7
  <2>2. QED
    BY <1>1, <2>1, ReportKeeps
<1>9. remote' = new
  BY <1>7
<1> HIDE DEF S, now, new
<1>10. \A d \in RemoteIds : FilledSoFar(d, remote) \in Int /\ FilledSoFar(d, new) \in Int
  <2>1. ASSUME NEW rem, RemoteOK(rem), NEW d \in RemoteIds PROVE FilledSoFar(d, rem) \in Int
    <3>1. rem[d] \in Seq(S)
      BY <2>1 DEF RemoteOK, S
    <3>2. rem[d] # <<>> => Last(rem[d]) \in S
      BY <3>1 DEF Last
    <3>3. QED
      BY <3>2 DEF FilledSoFar, S
  <2>2. QED
    BY <1>1, <1>8, <2>1
<1>14. \A d \in RemoteIds : Sole(d, new) => Sole(d, remote)
  BY <1>8, Zenon DEF Sole
<1>11. BookedIsFilled(book, new)
  <2>1. \A d \in RemoteIds : Sole(d, new) => \A c \in {d, ClientOf[d]} :
          book.records[c].applied \in Int /\ book.records[c].applied <= FilledSoFar(d, remote)
    <3>1. \A c \in Ids : book.records[c].applied \in Int
      BY <1>1 DEF BookOK, Books, LocalRecords
    <3>2. QED
      BY <1>1, <1>14, <3>1, LocalIdsDiffer DEF BookOK, BookedIsFilled
  <2>2. QED
    BY <1>8, <1>10, <2>1 DEF BookedIsFilled
<1>12. BookOK(book, new)
  <2>1. BoundToTheirOwn(book, new)
    BY <1>1, <1>8, Zenon DEF BookOK, BoundToTheirOwn
  <2>2. BesideNothing(book, new) /\ BookedWhenBound(book, new)
    BY <1>1, <1>14, Zenon DEF BookOK, BesideNothing, BookedWhenBound
  <2>3. QED
    BY <1>1, <1>11, <2>1, <2>2, Zenon DEF BookOK
<1>13. QED
  BY <1>6, <1>8, <1>9, <1>12 DEF LocalInv

LEMMA LocalInitOK ==
  ASSUME LocalInit PROVE LocalInv
<1>1. /\ book = [records |-> [c \in Ids |-> NoLocal], machines |-> [c \in Ids |-> "CREATED"],
                 net |-> 0, holder |-> NoAccount]
      /\ remote = [b \in RemoteIds |-> <<>>]
  BY Zenon DEF LocalInit
<1>2. /\ NoLocal \in LocalRecords /\ NoLocal.status = "NONE" /\ NoLocal.applied = 0
      /\ NoLocal.bound = NoRemote
  BY DEF NoLocal, LocalRecords, StatusWords
<1>3. "CREATED" \in StatusWords
  BY DEF StatusWords
<1>4. book \in Books /\ book.net = 0 /\ \A c \in Ids : book.records[c] = NoLocal
  BY <1>1, <1>2, <1>3 DEF Books
<1>5. \A b \in RemoteIds : FilledSoFar(b, remote) = 0 /\ remote[b] = <<>>
  BY <1>1 DEF FilledSoFar
<1>6. \A b \in RemoteIds : b \in Ids /\ ClientOf[b] \in Ids /\ b # NoRemote
  BY LocalIdsDiffer
<1>7. RemoteOK(remote)
  BY <1>1, <1>5 DEF RemoteOK
<1>8. UnknownAreBlank(book) /\ KnownAreOfOrders(book)
  BY <1>2, <1>4, Zenon DEF UnknownAreBlank, KnownAreOfOrders
<1>9. NetIsTheSum(book)
  <2>1. Known(book) = {}
    BY <1>2, <1>4 DEF Known
  <2>2. IsFiniteSet({})
    BY FS_EmptySet
  <2>3. QED
    BY <1>4, <2>1, <2>2, SumEmpty, Zenon DEF NetIsTheSum
<1>10. AccountsHold(book) /\ BoundToTheirOwn(book, remote) /\ BesideNothing(book, remote) /\ BookedWhenBound(book, remote)
  <2>1. \A c \in Ids : /\ book.records[c].status = "NONE" /\ book.records[c].applied = 0
                       /\ book.records[c].bound = NoRemote
    BY <1>2, <1>4, Zenon
  <2>2. AccountsHold(book)
    BY <1>6, <2>1 DEF AccountsHold
  <2>3. BoundToTheirOwn(book, remote) /\ BesideNothing(book, remote) /\ BookedWhenBound(book, remote)
    BY <1>6, <2>1, Zenon DEF BoundToTheirOwn, BesideNothing, BookedWhenBound
  <2>4. QED
    BY <2>2, <2>3
<1>11. BookedIsFilled(book, remote)
  <2>1. \A b \in RemoteIds : \A c \in {b, ClientOf[b]} : book.records[c].applied = 0
    BY <1>2, <1>4, <1>6
  <2>2. QED
    BY <1>5, <2>1 DEF BookedIsFilled
<1>12. QED
  BY <1>4, <1>7, <1>8, <1>9, <1>10, <1>11, Zenon DEF LocalInv, BookOK

LEMMA LocalInvShows ==
  ASSUME LocalInv PROVE LocalTypeOK /\ PositionIsTheBookedFills
<1>1. /\ book \in Books /\ UnknownAreBlank(book) /\ NetIsTheSum(book) /\ BesideNothing(book, remote)
      /\ BookedIsFilled(book, remote)
  BY Zenon DEF LocalInv, BookOK
<1>2. book.net = SumFunctionOnSet([c \in Ids |-> Signed(book.records[c].side,
                                                       book.records[c].applied)],
                                  Known(book))
  BY <1>1, Zenon DEF NetIsTheSum, Parts
<1>3. ASSUME NEW b \in RemoteIds, Sole(b, remote)
      PROVE  book.records[b].applied + book.records[ClientOf[b]].applied
               <= IF remote[b] = <<>> THEN 0 ELSE Last(remote[b]).filled
  <2>1. /\ b \in Ids /\ ClientOf[b] \in Ids
        /\ book.records[b].applied \in Nat /\ book.records[ClientOf[b]].applied \in Nat
    BY <1>1, LocalIdsDiffer DEF Books, LocalRecords
  <2>2. book.records[b].applied = 0 \/ book.records[ClientOf[b]].applied = 0
    BY <1>1, <1>3, <2>1, Zenon DEF UnknownAreBlank, BesideNothing
  <2>3. /\ book.records[b].applied <= FilledSoFar(b, remote)
        /\ book.records[ClientOf[b]].applied <= FilledSoFar(b, remote)
    BY <1>1, <1>3 DEF BookedIsFilled
  <2>4. book.records[b].applied + book.records[ClientOf[b]].applied <= FilledSoFar(b, remote)
    BY <2>1, <2>2, <2>3
  <2>5. QED
    BY <2>4 DEF FilledSoFar
<1>4. QED
  BY <1>1, <1>2, <1>3, Zenon DEF PositionIsTheBookedFills, LocalTypeOK

LEMMA LocalNextKeeps ==
  ASSUME LocalInv, [LocalNext]_localVars PROVE LocalInv'
<1>1. RemoteOK(remote)
  BY DEF LocalInv
<1>2. ASSUME BookOK(book', remote), remote' = remote PROVE LocalInv'
  BY <1>1, <1>2 DEF LocalInv
<1>3. ASSUME NEW b \in RemoteIds, CreateLocal(b) PROVE LocalInv'
  <2>1. remote' = remote
    BY <1>3 DEF CreateLocal
  <2>2. QED
    BY <1>2, <1>3, <2>1, CreateKeeps
<1>4. ASSUME NEW b \in RemoteIds, RemoteStep(b) PROVE LocalInv'
  BY <1>4, RemoteKeeps
<1>5. ASSUME NEW c \in Ids, MarkPending(c) PROVE LocalInv'
  <2>1. remote' = remote
    BY <1>5 DEF MarkPending
  <2>2. QED
    BY <1>2, <1>5, <2>1, MarkKeeps
<1>6. ASSUME NEW rows \in Snapshots, Reconcile(rows) PROVE LocalInv'
  <2>1. remote' = remote
    BY <1>6, Zenon DEF Reconcile
  <2>2. QED
    BY <1>2, <1>6, <2>1, ReconcileKeeps
<1>7. ASSUME NEW rows \in Snapshots, Recover(rows) PROVE LocalInv'
  <2>1. remote' = remote
    BY <1>7, Zenon DEF Recover
  <2>2. QED
    BY <1>2, <1>7, <2>1, RecoverKeeps
<1>8. ASSUME NEW rows \in Snapshots, NEW a \in {AccountOf[b] : b \in RemoteIds},
             RecoverAccount(rows, a)
      PROVE  LocalInv'
  <2>1. remote' = remote
    BY <1>8, Zenon DEF RecoverAccount
  <2>2. QED
    BY <1>2, <1>8, <2>1, RecoverAccountKeeps
<1>9. CASE UNCHANGED localVars
  <2>1. book' = book /\ remote' = remote
    BY <1>9 DEF localVars
  <2>2. BookOK(book', remote)
    BY <2>1 DEF LocalInv
  <2>3. QED
    BY <1>2, <2>1, <2>2
<1>10. CASE LocalNext
  BY <1>3, <1>4, <1>5, <1>6, <1>7, <1>8, <1>10, Zenon DEF LocalNext
<1>11. QED
  BY <1>9, <1>10

\* However the reconciler and the startup recovery meet the rows of the broker, old ones,
\* repeated ones, rows without a price and rows that do not name the client's order, the
\* position of the process is the sum of the fills booked to its records; and no order that
\* is the only one of its client id is booked for more than the broker filled of it
\* (_find_local, _apply_position_delta).
THEOREM LocalOrdersCorrect ==
  LocalSpec => [](LocalTypeOK /\ PositionIsTheBookedFills)
<1>1. LocalInit => LocalInv
  BY LocalInitOK
<1>2. LocalInv /\ [LocalNext]_localVars => LocalInv'
  BY LocalNextKeeps
<1>3. LocalInv => LocalTypeOK /\ PositionIsTheBookedFills
  BY LocalInvShows
<1>4. QED
  BY <1>1, <1>2, <1>3, PTL DEF LocalSpec
=============================================================================
