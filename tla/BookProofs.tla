------------------------------ MODULE BookProofs ------------------------------
(***************************************************************************)
(* Proofs about what counts once and what is added up: the grants and      *)
(* guards that let a thing happen once; the journal that fills are booked  *)
(* in; the requests that decisions become; the positions a risk check lets *)
(* into the paper book; the money of the paper books and of the paper      *)
(* backtest; and the risk that the orders of the pre-trade chain are open  *)
(* to. What a book or a score adds up is a sum over a finite set, of which *)
(* SumTheorems has what is needed.                                         *)
(***************************************************************************)
EXTENDS Grants, OnceOnly, FillJournal, Signals, PaperDesk, PaperBacktest, PreTrade,
        SumTheorems

-----------------------------------------------------------------------------
(* Grants.                                                                  *)

USE GrantAssumption

GrantRow == [state : {"none", "open", "used", "purged"}, expires : Int]

\* What a caller holds once it has asked.
Asking == [step : {"asks", "found", "missing", "consumed", "mismatch", "expired",
                   "refused", "won"},
           grant : GrantIds, binding : Bindings, clock : Int]

\* The grant of u is the one it asked for, and had not ended by u's clock.
Entitled(u) ==
  LET g == grantUser[u].grant
  IN  /\ grants[g].state # "none"
      /\ BindingOf[g] = grantUser[u].binding
      /\ ~(grants[g].expires < grantUser[u].clock)

GrantsInv ==
  /\ grantClock \in Int
  /\ grants \in [GrantIds -> GrantRow]
  /\ \A g \in Nonces : grants[g].state # "purged"
  /\ \A u \in GrantUsers : grantUser[u] = NotUsing \/ grantUser[u] \in Asking
  /\ DOMAIN grantUser = GrantUsers
  /\ grantUser = [u \in GrantUsers |-> grantUser[u]]
  /\ \A u \in GrantUsers : grantUser[u].step = "found" => Entitled(u)
  /\ GrantsAreWonOnce

\* A row moves on without changing what it is for or when it ends.
RowsMoveOn ==
  /\ grants' \in [GrantIds -> GrantRow]
  /\ \A g \in Nonces : grants'[g].state # "purged"
  /\ \A g \in GrantIds :
       /\ grants[g].state # "none" =>
            grants'[g].state # "none" /\ grants'[g].expires = grants[g].expires
       /\ grants[g].state \in {"used", "purged"} => grants'[g].state \in {"used", "purged"}

\* A step of one caller, or of none, that keeps the winners.
LEMMA GrantStep ==
  ASSUME GrantsInv, RowsMoveOn, grantClock' \in Int, NEW u \in GrantUsers, NEW r,
         r = NotUsing \/ r \in Asking, grantUser' = [grantUser EXCEPT ![u] = r],
         r.step = "found" => Entitled(u)',
         r.step = "won" =>
           \/ r = grantUser[u]
           \/ /\ Entitled(u)' /\ grants'[r.grant].state = "used"
              /\ grants[r.grant].state = "open"
  PROVE  GrantsInv'
<1>1. /\ DOMAIN grantUser = GrantUsers /\ DOMAIN grantUser' = GrantUsers
      /\ \A v \in GrantUsers : grantUser'[v] = IF v = u THEN r ELSE grantUser[v]
  BY DEF GrantsInv
<1>2. /\ \A v \in GrantUsers : grantUser'[v] = NotUsing \/ grantUser'[v] \in Asking
      /\ grantUser' = [v \in GrantUsers |-> grantUser'[v]]
  BY <1>1 DEF GrantsInv
<1>3. \A v \in GrantUsers : grantUser[v].step \in {"found", "won"} => grantUser[v] \in Asking
  BY DEF GrantsInv, NotUsing
<1>4. ASSUME NEW v \in GrantUsers, grantUser'[v].step = "found" PROVE Entitled(v)'
  <2>1. CASE v = u
    BY <1>1, <1>4, <2>1
  <2>2. CASE v # u
    <3>1. grantUser'[v] = grantUser[v] /\ Entitled(v) /\ grantUser[v].grant \in GrantIds
      BY <1>1, <1>3, <1>4, <2>2 DEF GrantsInv, Asking
    <3>2. QED
      BY <3>1 DEF Entitled, RowsMoveOn
  <2>3. QED
    BY <2>1, <2>2
<1>5. ASSUME NEW v \in GrantUsers, grantUser'[v].step = "won", grantUser'[v] = grantUser[v]
      PROVE  /\ Entitled(v)' /\ grants'[grantUser'[v].grant].state \in {"used", "purged"}
             /\ grants[grantUser[v].grant].state \in {"used", "purged"}
  <2>1. grantUser[v].grant \in GrantIds
    BY <1>3, <1>5 DEF Asking
  <2>2. QED
    BY <1>5, <2>1 DEF GrantsInv, GrantsAreWonOnce, Entitled, RowsMoveOn
<1>6. GrantsAreWonOnce'
  <2>1. ASSUME NEW v \in GrantUsers, grantUser'[v].step = "won"
        PROVE  Entitled(v)' /\ grants'[grantUser'[v].grant].state \in {"used", "purged"}
    BY <1>1, <1>5, <2>1
  <2>2. ASSUME NEW v \in GrantUsers, NEW w \in GrantUsers \ {v}, grantUser'[v].step = "won",
               grantUser'[w].step = "won", grantUser'[w].grant = grantUser'[v].grant
        PROVE  FALSE
    <3>1. CASE grantUser'[v] = grantUser[v] /\ grantUser'[w] = grantUser[w]
      BY <2>2, <3>1 DEF GrantsInv, GrantsAreWonOnce
    <3>2. CASE grantUser'[v] # grantUser[v]
      BY <1>1, <1>5, <2>2, <3>2
    <3>3. CASE grantUser'[w] # grantUser[w]
      BY <1>1, <1>5, <2>2, <3>3
    <3>4. QED
      BY <3>1, <3>2, <3>3
  <2>3. QED
    BY <2>1, <2>2 DEF GrantsAreWonOnce, Entitled
<1>7. QED
  BY <1>1, <1>2, <1>4, <1>6 DEF GrantsInv, RowsMoveOn

\* The same when no caller moves.
LEMMA RowsStep ==
  ASSUME GrantsInv, RowsMoveOn, grantClock' \in Int, UNCHANGED grantUser
  PROVE  GrantsInv'
<1>1. ASSUME NEW u \in GrantUsers, grantUser[u].step \in {"found", "won"}
      PROVE  grantUser[u].grant \in GrantIds
  BY <1>1 DEF GrantsInv, NotUsing, Asking
<1>2. ASSUME NEW u \in GrantUsers, grantUser[u].step = "found" PROVE Entitled(u)'
  BY <1>1, <1>2 DEF GrantsInv, Entitled, RowsMoveOn
<1>3. GrantsAreWonOnce'
  BY <1>1 DEF GrantsInv, GrantsAreWonOnce, RowsMoveOn
<1>4. QED
  BY <1>2, <1>3 DEF GrantsInv, RowsMoveOn

LEMMA GrantUserFacts ==
  ASSUME GrantsInv, NEW u \in GrantUsers, grantUser[u].step \in {"asks", "found"}
  PROVE  /\ grantUser[u] \in Asking
         /\ grantUser[u].grant \in GrantIds
         /\ grants[grantUser[u].grant] \in GrantRow
  BY DEF GrantsInv, NotUsing, Asking

\* An answer that is no permission.
LEMMA Refusal ==
  ASSUME GrantsInv, NEW u \in GrantUsers, grantUser[u].step \in {"asks", "found"},
         NEW answer \in {"missing", "consumed", "mismatch", "expired", "refused"},
         Answered(u, answer), UNCHANGED <<grantClock, grants>>
  PROVE  GrantsInv'
<1> DEFINE r == [grantUser[u] EXCEPT !.step = answer]
<1>1. r \in Asking /\ r.step = answer
  BY GrantUserFacts DEF Asking
<1>2. grantUser' = [grantUser EXCEPT ![u] = r]
  BY DEF Answered
<1>3. RowsMoveOn /\ grantClock' \in Int
  BY DEF GrantsInv, RowsMoveOn
<1> HIDE DEF r
<1>4. QED
  BY <1>1, <1>2, <1>3, GrantStep

LEMMA Winning ==
  ASSUME GrantsInv, NEW u \in GrantUsers, grantUser[u].step \in {"asks", "found"},
         grants[grantUser[u].grant].state = "open", Entitled(u),
         Answered(u, "won"), Used(grantUser[u].grant), UNCHANGED grantClock
  PROVE  GrantsInv'
<1> DEFINE r == [grantUser[u] EXCEPT !.step = "won"]
           g == grantUser[u].grant
<1>1. /\ grantUser[u] \in Asking /\ g \in GrantIds /\ grants[g] \in GrantRow
      /\ r \in Asking /\ r.step = "won" /\ r.grant = g
      /\ r.binding = grantUser[u].binding /\ r.clock = grantUser[u].clock
  BY GrantUserFacts DEF Asking
<1>2. grantUser' = [grantUser EXCEPT ![u] = r] /\ grantUser'[u] = r
  BY DEF Answered, GrantsInv
<1> HIDE DEF r
<1>3. /\ grants' \in [GrantIds -> GrantRow]
      /\ grants'[g].state = "used" /\ grants'[g].expires = grants[g].expires
      /\ \A h \in GrantIds \ {g} : grants'[h] = grants[h]
  BY <1>1 DEF Used, GrantsInv, GrantRow
<1>4. RowsMoveOn /\ grantClock' \in Int
  BY <1>1, <1>3 DEF GrantsInv, RowsMoveOn, GrantIds
<1>5. Entitled(u)'
  BY <1>1, <1>2, <1>3 DEF Entitled
<1>6. QED
  BY <1>1, <1>2, <1>3, <1>4, <1>5, GrantStep

LEMMA GrantsInitially == GrantsInit => GrantsInv
  BY DEF GrantsInit, GrantsInv, NoGrant, NotUsing, GrantIds, GrantRow, GrantsAreWonOnce

LEMMA GrantsPreserved == GrantsInv /\ [GrantsNext]_grantVars => GrantsInv'
<1> SUFFICES ASSUME GrantsInv, [GrantsNext]_grantVars PROVE GrantsInv'
  OBVIOUS
<1>1. CASE GrantTick
  BY <1>1, RowsStep DEF GrantTick, GrantsInv, RowsMoveOn
<1>2. CASE PurgeExpired
  <2>1. RowsMoveOn
    <3> DEFINE ended == {g \in OauthStates : grants[g].state \in {"open", "used"}
                                             /\ grants[g].expires <= grantClock}
    <3>1. grants' = [g \in GrantIds |->
                       IF g \in ended THEN [grants[g] EXCEPT !.state = "purged"] ELSE grants[g]]
      BY <1>2 DEF PurgeExpired
    <3>2. \A g \in Nonces : g \in GrantIds /\ g \notin ended
      BY DEF GrantIds
    <3> HIDE DEF ended
    <3>3. \A g \in GrantIds :
            /\ grants[g] \in GrantRow
            /\ grants'[g] \in GrantRow /\ grants'[g].expires = grants[g].expires
            /\ grants'[g].state \in {grants[g].state, "purged"}
      BY <3>1 DEF GrantsInv, GrantRow
    <3>4. QED
      BY <3>1, <3>2, <3>3 DEF RowsMoveOn, GrantsInv
  <2>2. QED
    BY <1>2, <2>1, RowsStep DEF PurgeExpired, GrantsInv
<1>3. ASSUME NEW g \in GrantIds, IssueGrant(g) PROVE GrantsInv'
  <2>1. grants[g].state = "none" /\ [state |-> "open", expires |-> grantClock + Ttl] \in GrantRow
    BY <1>3 DEF IssueGrant, NoGrant, GrantsInv, GrantRow
  <2>2. RowsMoveOn
    BY <1>3, <2>1 DEF IssueGrant, GrantsInv, RowsMoveOn
  <2>3. QED
    BY <1>3, <2>2, RowsStep DEF IssueGrant, GrantsInv
<1>4. ASSUME NEW u \in GrantUsers, NEW g \in GrantIds, NEW b \in Bindings, TakeUp(u, g, b)
      PROVE  GrantsInv'
  <2> DEFINE r == [step |-> "asks", grant |-> g, binding |-> b, clock |-> grantClock]
  <2>1. r \in Asking /\ r.step = "asks" /\ grantUser' = [grantUser EXCEPT ![u] = r]
    BY <1>4 DEF TakeUp, Asking, GrantsInv
  <2>2. RowsMoveOn /\ grantClock' \in Int
    BY <1>4 DEF TakeUp, GrantsInv, RowsMoveOn
  <2> HIDE DEF r
  <2>3. QED
    BY <2>1, <2>2, GrantStep
<1>5. ASSUME NEW u \in GrantUsers, Consume(u) PROVE GrantsInv'
  <2> DEFINE it == grantUser[u]
             answer == ConsumeAnswer(it.grant, it.binding, it.clock)
  <2>1. /\ it.step = "asks" /\ it.grant \in Nonces /\ Answered(u, answer)
        /\ UNCHANGED grantClock
        /\ IF answer = "won" THEN Used(it.grant) ELSE UNCHANGED grants
    BY <1>5 DEF Consume
  <2>2. it \in Asking /\ grants[it.grant] \in GrantRow
    BY <2>1, GrantUserFacts
  <2>3. CASE answer = "won"
    <3>1. grants[it.grant].state = "open" /\ Entitled(u)
      BY <2>1, <2>2, <2>3 DEF ConsumeAnswer, Ended, Entitled, GrantRow, GrantsInv
    <3>2. QED
      BY <2>1, <2>3, <3>1, Winning
  <2>4. CASE answer # "won"
    <3>1. answer \in {"missing", "consumed", "mismatch", "expired", "refused"}
      BY <2>4 DEF ConsumeAnswer
    <3> HIDE DEF answer
    <3>2. QED
      BY <2>1, <2>4, <3>1, Refusal
  <2>5. QED
    BY <2>3, <2>4
<1>6. ASSUME NEW u \in GrantUsers, FindState(u) PROVE GrantsInv'
  <2> DEFINE it == grantUser[u]
             r == [it EXCEPT !.step = "found"]
  <2>1. it \in Asking /\ grants[it.grant] \in GrantRow /\ it.grant \in OauthStates
    BY <1>6, GrantUserFacts DEF FindState
  <2>2. CASE Usable(it.grant, it.binding, it.clock)
    <3>1. Entitled(u)
      BY <2>1, <2>2 DEF Usable, Ended, Entitled, GrantRow, Asking
    <3>2. grantUser' = [grantUser EXCEPT ![u] = r] /\ grantUser'[u] = r
      BY <1>6, <2>2 DEF FindState, Answered, GrantsInv
    <3>3. /\ r \in Asking /\ r.step = "found" /\ r.grant = it.grant
          /\ r.binding = it.binding /\ r.clock = it.clock
      BY <2>1 DEF Asking
    <3> HIDE DEF r
    <3>4. RowsMoveOn /\ grantClock' \in Int /\ grants' = grants
      BY <1>6 DEF FindState, GrantsInv, RowsMoveOn
    <3>5. Entitled(u)'
      BY <3>1, <3>2, <3>3, <3>4 DEF Entitled
    <3>6. QED
      BY <3>2, <3>3, <3>4, <3>5, GrantStep
  <2>3. CASE ~Usable(it.grant, it.binding, it.clock)
    BY <1>6, <2>3, Refusal DEF FindState
  <2>4. QED
    BY <2>2, <2>3
<1>7. ASSUME NEW u \in GrantUsers, UseState(u) PROVE GrantsInv'
  <2>1. Entitled(u) /\ grantUser[u].step = "found"
    BY <1>7 DEF UseState, GrantsInv
  <2>2. CASE Claims(grantUser[u].grant, grantUser[u].clock)
    BY <1>7, <2>1, <2>2, Winning DEF UseState, Claims
  <2>3. CASE ~Claims(grantUser[u].grant, grantUser[u].clock)
    BY <1>7, <2>1, <2>3, Refusal DEF UseState
  <2>4. QED
    BY <2>2, <2>3
<1>8. ASSUME NEW u \in GrantUsers, ConsumeState(u) PROVE GrantsInv'
  <2> DEFINE it == grantUser[u]
  <2>1. it.step = "asks" /\ it \in Asking /\ grants[it.grant] \in GrantRow /\ it.grant \in OauthStates
    BY <1>8, GrantUserFacts DEF ConsumeState
  <2>2. CASE Usable(it.grant, it.binding, it.clock)
    <3>1. Entitled(u) /\ grants[it.grant].state = "open"
      BY <2>1, <2>2 DEF Usable, Ended, Entitled, GrantRow, Asking
    <3>2. QED
      BY <1>8, <2>1, <2>2, <3>1, Winning DEF ConsumeState
  <2>3. CASE ~Usable(it.grant, it.binding, it.clock)
    BY <1>8, <2>1, <2>3, Refusal DEF ConsumeState
  <2>4. QED
    BY <2>2, <2>3
<1>9. CASE UNCHANGED grantVars
  BY <1>9, RowsStep DEF grantVars, GrantsInv, RowsMoveOn
<1>10. QED
  BY <1>1, <1>2, <1>3, <1>4, <1>5, <1>6, <1>7, <1>8, <1>9 DEF GrantsNext

\* A grant is won by one caller at most, which asked for what the grant was issued for and
\* had read the clock before it ended, however many callers wait for the transaction or
\* hold the same OAuth state (execution_authorization_store.py, api/upstox_oauth.py).
THEOREM GrantsCorrect == GrantsSpec => []GrantsAreWonOnce
<1>1. GrantsInv => GrantsAreWonOnce
  BY DEF GrantsInv
<1>2. QED
  BY <1>1, GrantsInitially, GrantsPreserved, PTL DEF GrantsSpec

HIDE GrantAssumption

-----------------------------------------------------------------------------
(* OnceOnly.                                                                *)

USE OnceAssumption

OnceTask == [step : {"none", "claim", "submit", "send", "bind"}, key : OnceKeys \cup {NoValue},
             payload : OncePayloads \cup OnceBrokerIds \cup {NoValue}]

OnceTypes ==
  /\ claims \in [OnceKeys -> OncePayloads \cup {NoValue}]
  /\ expired \in [OnceKeys -> Nat] /\ runs \in [OnceKeys -> Nat]
  /\ records \in [OnceKeys -> [state : {"NEW", "SUBMITTED", "UNKNOWN"}, attempts : Nat]]
  /\ bound \in [OnceKeys -> OnceBrokerIds \cup {NoValue}]
  /\ boundFor \subseteq OnceKeys \X OnceBrokerIds
  /\ onceTask \in [OnceCallers -> OnceTask]
  /\ \A c \in OnceCallers :
       /\ onceTask[c].step # "none" => onceTask[c].key \in OnceKeys
       /\ onceTask[c].step = "claim" => onceTask[c].payload \in OncePayloads
       /\ onceTask[c].step = "bind" => onceTask[c].payload \in OnceBrokerIds

\* A claim that nobody holds may be taken once more.
Untaken(k) == IF claims[k] = NoValue THEN 1 ELSE 0

PaperOnce ==
  \A k \in OnceKeys :
    /\ runs[k] + Cardinality(CallersAt("submit", k)) + Untaken(k) <= 1 + expired[k]
    /\ expired[k] = 0 => \A c \in CallersAt("submit", k) : onceTask[c].payload = claims[k]

RetriesOnce ==
  \A k \in OnceKeys :
    /\ \A c, d \in CallersAt("send", k) : c = d
    /\ runs[k] = records[k].attempts /\ runs[k] <= MaxOnceAttempts
    /\ records[k].state # "SUBMITTED" => CallersAt("send", k) = {}
    /\ k \in accepted => CallersAt("send", k) = {} /\ records[k].state = "SUBMITTED"

BoundOnce ==
  /\ \A t \in boundFor : bound[t[1]] = t[2]
  /\ \A j, k \in OnceKeys : bound[j] = bound[k] /\ bound[j] # NoValue => j = k

OnceInv ==
  /\ OnceTypes
  /\ onceGate = "paper" => PaperOnce
  /\ onceGate = "retries" => RetriesOnce
  /\ BoundOnce

LEMMA CallersFinite == \A step, k : IsFiniteSet(CallersAt(step, k))
<1>1. \A step, k : CallersAt(step, k) \subseteq OnceCallers
  BY DEF CallersAt
<1>2. QED
  BY <1>1, FS_Subset

\* Who is at a step, after one caller has moved.
LEMMA CallersMove ==
  ASSUME OnceTypes, NEW c \in OnceCallers, NEW r \in OnceTask,
         onceTask' = [onceTask EXCEPT ![c] = r]
  PROVE  \A step, k :
           CallersAt(step, k)' =
             IF r.step = step /\ r.key = k THEN CallersAt(step, k) \cup {c}
             ELSE CallersAt(step, k) \ {c}
<1> SUFFICES ASSUME NEW step, NEW k
             PROVE  CallersAt(step, k)' =
                      IF r.step = step /\ r.key = k THEN CallersAt(step, k) \cup {c}
                      ELSE CallersAt(step, k) \ {c}
  OBVIOUS
<1>1. \A d \in OnceCallers : onceTask'[d] = IF d = c THEN r ELSE onceTask[d]
  BY DEF OnceTypes
<1>2. QED
  BY <1>1 DEF CallersAt

LEMMA NoTaskIsTask == NoOnceTask \in OnceTask /\ NoOnceTask.step = "none" /\ NoOnceTask.key = NoValue
  BY DEF NoOnceTask, OnceTask

\* A caller that stops leaves where it was.
LEMMA CallerReturns ==
  ASSUME OnceTypes, NEW c \in OnceCallers, OnceReturns(c)
  PROVE  /\ onceTask' \in [OnceCallers -> OnceTask]
         /\ \A d \in OnceCallers : onceTask'[d] = IF d = c THEN NoOnceTask ELSE onceTask[d]
         /\ \A step \in {"claim", "submit", "send"}, k \in OnceKeys :
              CallersAt(step, k)' = CallersAt(step, k) \ {c}
         /\ \A d \in OnceCallers :
              /\ onceTask'[d].step # "none" => onceTask'[d].key \in OnceKeys
              /\ onceTask'[d].step = "claim" => onceTask'[d].payload \in OncePayloads
              /\ onceTask'[d].step = "bind" => onceTask'[d].payload \in OnceBrokerIds
<1>1. onceTask' = [onceTask EXCEPT ![c] = NoOnceTask]
  BY DEF OnceReturns
<1>2. /\ onceTask' \in [OnceCallers -> OnceTask]
      /\ \A d \in OnceCallers : onceTask'[d] = IF d = c THEN NoOnceTask ELSE onceTask[d]
  BY <1>1, NoTaskIsTask DEF OnceTypes
<1>3. ASSUME NEW step \in {"claim", "submit", "send"}, NEW k \in OnceKeys
      PROVE  CallersAt(step, k)' = CallersAt(step, k) \ {c}
  <2>1. NoOnceTask.step # step
    BY NoTaskIsTask
  <2>2. QED
    BY <1>2, <2>1 DEF CallersAt
<1>4. QED
  BY <1>2, <1>3, NoTaskIsTask DEF OnceTypes

\* A caller that begins.
LEMMA CallerBegins ==
  ASSUME OnceTypes, NEW c \in OnceCallers, NEW step \in {"claim", "send", "bind"},
         NEW k \in OnceKeys, NEW p \in OncePayloads \cup OnceBrokerIds \cup {NoValue},
         step = "claim" => p \in OncePayloads, step = "bind" => p \in OnceBrokerIds,
         Calls(c, step, k, p)
  PROVE  /\ onceTask' \in [OnceCallers -> OnceTask]
         /\ \A s \in {"claim", "submit", "send"}, j \in OnceKeys :
              CallersAt(s, j)' = IF s = step /\ j = k THEN CallersAt(s, j) \cup {c}
                                 ELSE CallersAt(s, j)
         /\ \A d \in OnceCallers : d # c => onceTask'[d] = onceTask[d]
         /\ \A d \in OnceCallers :
              /\ onceTask'[d].step # "none" => onceTask'[d].key \in OnceKeys
              /\ onceTask'[d].step = "claim" => onceTask'[d].payload \in OncePayloads
              /\ onceTask'[d].step = "bind" => onceTask'[d].payload \in OnceBrokerIds
<1> DEFINE r == [step |-> step, key |-> k, payload |-> p]
<1>1. /\ r \in OnceTask /\ r.step = step /\ r.key = k /\ r.payload = p
      /\ onceTask' = [onceTask EXCEPT ![c] = r]
  BY DEF Calls, OnceTask
<1>2. \A s \in {"claim", "submit", "send"}, j \in OnceKeys : c \notin CallersAt(s, j)
  BY NoTaskIsTask DEF Calls, CallersAt
<1> HIDE DEF r
<1>3. /\ onceTask' \in [OnceCallers -> OnceTask]
      /\ \A d \in OnceCallers : onceTask'[d] = IF d = c THEN r ELSE onceTask[d]
  BY <1>1 DEF OnceTypes
<1>4. ASSUME NEW s \in {"claim", "submit", "send"}, NEW j \in OnceKeys
      PROVE  CallersAt(s, j)' = IF s = step /\ j = k THEN CallersAt(s, j) \cup {c}
                                ELSE CallersAt(s, j)
  <2>1. CallersAt(s, j)' = IF r.step = s /\ r.key = j THEN CallersAt(s, j) \cup {c}
                           ELSE CallersAt(s, j) \ {c}
    <3>1. \A step_, key_ :
            CallersAt(step_, key_)' =
              IF r.step = step_ /\ r.key = key_ THEN CallersAt(step_, key_) \cup {c}
              ELSE CallersAt(step_, key_) \ {c}
      BY <1>1, CallersMove
    <3>2. QED
      BY <3>1
  <2>2. QED
    BY <1>1, <1>2, <2>1
<1>5. QED
  BY <1>1, <1>3, <1>4 DEF OnceTypes

LEMMA OnceInitially == OnceInit => OnceInv
<1> SUFFICES ASSUME OnceInit PROVE OnceInv
  OBVIOUS
<1>1. OnceTypes
  BY NoTaskIsTask DEF OnceInit, OnceTypes, NewRecord
<1>2. \A step \in {"claim", "submit", "send"}, k \in OnceKeys : CallersAt(step, k) = {}
  BY NoTaskIsTask DEF OnceInit, CallersAt
<1>3. PaperOnce
  BY <1>2, FS_EmptySet DEF OnceInit, PaperOnce, Untaken
<1>4. RetriesOnce
  BY <1>2 DEF OnceInit, RetriesOnce, NewRecord
<1>5. QED
  BY <1>1, <1>3, <1>4 DEF OnceInit, OnceInv, BoundOnce

\* Parts of the invariant that a step leaves alone.
LEMMA StillPaper ==
  ASSUME PaperOnce, UNCHANGED <<claims, expired, runs, onceTask>> PROVE PaperOnce'
  BY DEF PaperOnce, CallersAt, Untaken

LEMMA StillRetries ==
  ASSUME RetriesOnce, UNCHANGED <<records, accepted, runs, onceTask>> PROVE RetriesOnce'
  BY DEF RetriesOnce, CallersAt

LEMMA StillBound == ASSUME BoundOnce, UNCHANGED <<bound, boundFor>> PROVE BoundOnce'
  BY DEF BoundOnce

LEMMA LinkPreserves == ASSUME OnceInv, LinkStep PROVE OnceInv'
<1>1. UNCHANGED <<onceGate, claimVars, recordVars, onceTask, runs, onceCalls>>
  BY DEF LinkStep
<1>2. OnceTypes'
  BY <1>1 DEF OnceInv, OnceTypes, claimVars, recordVars
<1>3. QED
  BY <1>1, <1>2, StillPaper, StillRetries, StillBound DEF OnceInv, claimVars, recordVars

LEMMA PaperAsksPreserves ==
  ASSUME OnceInv, NEW c \in OnceCallers, NEW k \in OnceKeys, NEW p \in OncePayloads,
         PaperAsks(c, k, p)
  PROVE  OnceInv'
<1>1. /\ onceGate = "paper" /\ Calls(c, "claim", k, p)
      /\ UNCHANGED <<onceGate, claims, expired, records, accepted, bound, boundFor,
                     brokerLink, runs>>
  BY DEF PaperAsks, claimVars, recordVars, linkVars
<1>2. /\ onceTask' \in [OnceCallers -> OnceTask]
      /\ \A j \in OnceKeys : CallersAt("submit", j)' = CallersAt("submit", j)
      /\ \A d \in OnceCallers : d # c => onceTask'[d] = onceTask[d]
      /\ \A d \in OnceCallers :
           /\ onceTask'[d].step # "none" => onceTask'[d].key \in OnceKeys
           /\ onceTask'[d].step = "claim" => onceTask'[d].payload \in OncePayloads
           /\ onceTask'[d].step = "bind" => onceTask'[d].payload \in OnceBrokerIds
  BY <1>1, CallerBegins DEF OnceInv
<1>3. OnceTypes'
  BY <1>1, <1>2 DEF OnceInv, OnceTypes
<1>4. \A j \in OnceKeys : c \notin CallersAt("submit", j)
  BY <1>1, NoTaskIsTask DEF Calls, CallersAt
<1>5. \A d \in OnceCallers, j \in OnceKeys :
        d \in CallersAt("submit", j) => onceTask'[d] = onceTask[d]
  BY <1>2, <1>4
<1>6. PaperOnce'
  BY <1>1, <1>2, <1>5 DEF OnceInv, PaperOnce, Untaken, CallersAt
<1>7. QED
  BY <1>1, <1>3, <1>6, StillBound DEF OnceInv

LEMMA PaperClaimsPreserves ==
  ASSUME OnceInv, NEW c \in OnceCallers, PaperClaims(c) PROVE OnceInv'
<1> DEFINE t == onceTask[c]
           r == [t EXCEPT !.step = "submit"]
<1>1. /\ onceGate = "paper" /\ t.step = "claim" /\ t.key \in OnceKeys /\ t \in OnceTask
      /\ t.payload \in OncePayloads /\ t.payload # NoValue
      /\ UNCHANGED <<onceGate, expired, records, accepted, bound, boundFor,
                     brokerLink, runs>>
      /\ OnceTypes /\ PaperOnce
  BY DEF PaperClaims, recordVars, linkVars, OnceInv, OnceTypes
<1>2. CASE Takes(t.key, t.payload) /\ claims' = [claims EXCEPT ![t.key] = t.payload]
           /\ GoesOn(c, "submit")
  <2>1. /\ r \in OnceTask /\ r.step = "submit" /\ r.key = t.key /\ r.payload = t.payload
        /\ onceTask' = [onceTask EXCEPT ![c] = r]
    BY <1>1, <1>2 DEF OnceTask, GoesOn
  <2> HIDE DEF r
  <2>2. /\ \A d \in OnceCallers : onceTask'[d] = IF d = c THEN r ELSE onceTask[d]
        /\ onceTask' \in [OnceCallers -> OnceTask]
        /\ \A j \in OnceKeys : claims'[j] = IF j = t.key THEN t.payload ELSE claims[j]
        /\ claims' \in [OnceKeys -> OncePayloads \cup {NoValue}]
    BY <1>1, <1>2, <2>1 DEF OnceTypes
  <2>3. OnceTypes'
    BY <1>1, <2>1, <2>2 DEF OnceTypes
  <2>4. \A j \in OnceKeys : c \notin CallersAt("submit", j)
    BY <1>1 DEF CallersAt
  <2>5. ASSUME NEW j \in OnceKeys
        PROVE  CallersAt("submit", j)' = IF j = t.key THEN CallersAt("submit", j) \cup {c}
                                         ELSE CallersAt("submit", j)
    <3>1. CallersAt("submit", j)' =
            IF r.step = "submit" /\ r.key = j THEN CallersAt("submit", j) \cup {c}
            ELSE CallersAt("submit", j) \ {c}
      <4>1. \A step_, key_ :
              CallersAt(step_, key_)' =
                IF r.step = step_ /\ r.key = key_ THEN CallersAt(step_, key_) \cup {c}
                ELSE CallersAt(step_, key_) \ {c}
        BY <1>1, <2>1, CallersMove
      <4>2. QED
        BY <4>1
    <3>2. QED
      BY <2>1, <2>4, <3>1
  <2>6. ASSUME NEW j \in OnceKeys
        PROVE  /\ runs'[j] + Cardinality(CallersAt("submit", j)') + Untaken(j)' <= 1 + expired'[j]
               /\ expired'[j] = 0 =>
                    \A d \in CallersAt("submit", j)' : onceTask'[d].payload = claims'[j]
    <3>1. /\ runs[j] + Cardinality(CallersAt("submit", j)) + Untaken(j) <= 1 + expired[j]
          /\ expired[j] = 0 =>
               \A d \in CallersAt("submit", j) : onceTask[d].payload = claims[j]
          /\ IsFiniteSet(CallersAt("submit", j))
          /\ Cardinality(CallersAt("submit", j)) \in Nat
          /\ runs[j] \in Nat /\ expired[j] \in Nat
      BY <1>1, CallersFinite, FS_CardinalityType DEF PaperOnce, OnceTypes
    <3>2. CASE j = t.key
      <4>1. Untaken(j) = 1 /\ Untaken(j)' = 0
        BY <1>1, <1>2, <2>2, <3>2 DEF Untaken, Takes
      <4>2. Cardinality(CallersAt("submit", j)') = Cardinality(CallersAt("submit", j)) + 1
        BY <2>4, <2>5, <3>1, <3>2, FS_AddElement
      <4>3. expired[j] = 0 => CallersAt("submit", j) = {}
        BY <3>1, <4>1, FS_EmptySet
      <4>4. expired[j] = 0 => CallersAt("submit", j)' = {c}
        BY <2>5, <3>2, <4>3
      <4>5. onceTask'[c].payload = claims'[j]
        BY <2>1, <2>2, <3>2
      <4>6. runs' = runs /\ expired' = expired
        BY <1>1
      <4>7. runs'[j] + Cardinality(CallersAt("submit", j)') + Untaken(j)' <= 1 + expired'[j]
        BY <3>1, <4>1, <4>2, <4>6
      <4>8. QED
        BY <4>4, <4>5, <4>6, <4>7
    <3>3. CASE j # t.key
      <4>1. Untaken(j)' = Untaken(j) /\ claims'[j] = claims[j]
        BY <2>2, <3>3 DEF Untaken
      <4>2. CallersAt("submit", j)' = CallersAt("submit", j)
        BY <2>5, <3>3
      <4>3. \A d \in CallersAt("submit", j) : onceTask'[d] = onceTask[d]
        BY <2>2, <2>4 DEF CallersAt
      <4>4. QED
        BY <1>1, <3>1, <4>1, <4>2, <4>3
    <3>4. QED
      BY <3>2, <3>3
  <2>7. PaperOnce'
    BY <2>6 DEF PaperOnce
  <2>8. QED
    BY <1>1, <2>3, <2>7, StillBound DEF OnceInv
<1>3. CASE OnceReturns(c) /\ UNCHANGED claims
  <2>1. OnceTypes'
    BY <1>1, <1>3, CallerReturns DEF OnceTypes
  <2>2. \A j \in OnceKeys : CallersAt("submit", j)' = CallersAt("submit", j)
    <3>1. \A j \in OnceKeys : c \notin CallersAt("submit", j)
      BY <1>1 DEF CallersAt
    <3>2. \A j \in OnceKeys : CallersAt("submit", j)' = CallersAt("submit", j) \ {c}
      BY <1>1, <1>3, CallerReturns
    <3>3. QED
      BY <3>1, <3>2
  <2>3. \A j \in OnceKeys : \A d \in CallersAt("submit", j) : onceTask'[d] = onceTask[d]
    BY <1>1, <1>3, CallerReturns DEF CallersAt
  <2>4. PaperOnce'
    BY <1>1, <1>3, <2>2, <2>3 DEF PaperOnce, Untaken
  <2>5. QED
    BY <1>1, <2>1, <2>4, StillBound DEF OnceInv
<1>4. QED
  BY <1>2, <1>3 DEF PaperClaims

\* A caller that submitted, or died.
LEMMA PaperLeaves ==
  ASSUME OnceInv, NEW c \in OnceCallers, onceGate = "paper", OnceReturns(c),
         UNCHANGED <<onceGate, claims, expired, records, accepted, bound, boundFor,
                     brokerLink>>,
         \/ UNCHANGED runs
         \/ /\ onceTask[c].step = "submit"
            /\ runs' = [runs EXCEPT ![onceTask[c].key] = @ + 1]
  PROVE  OnceInv'
<1> DEFINE j0 == onceTask[c].key
<1>1. OnceTypes /\ PaperOnce
  BY DEF OnceInv
<1>2. OnceTypes'
  BY <1>1, CallerReturns DEF OnceTypes
<1>3. ASSUME NEW j \in OnceKeys
      PROVE  /\ runs'[j] + Cardinality(CallersAt("submit", j)') + Untaken(j)' <= 1 + expired'[j]
             /\ expired'[j] = 0 =>
                  \A d \in CallersAt("submit", j)' : onceTask'[d].payload = claims'[j]
  <2>1. /\ runs[j] + Cardinality(CallersAt("submit", j)) + Untaken(j) <= 1 + expired[j]
        /\ expired[j] = 0 =>
             \A d \in CallersAt("submit", j) : onceTask[d].payload = claims[j]
        /\ IsFiniteSet(CallersAt("submit", j))
        /\ Cardinality(CallersAt("submit", j)) \in Nat
        /\ runs[j] \in Nat /\ expired[j] \in Nat /\ Untaken(j) \in {0, 1}
    BY <1>1, CallersFinite, FS_CardinalityType DEF PaperOnce, OnceTypes, Untaken
  <2>2. CallersAt("submit", j)' = CallersAt("submit", j) \ {c}
    BY <1>1, CallerReturns
  <2>3. Untaken(j)' = Untaken(j)
    BY DEF Untaken
  <2>4. /\ IsFiniteSet(CallersAt("submit", j)')
        /\ Cardinality(CallersAt("submit", j)') =
             IF c \in CallersAt("submit", j) THEN Cardinality(CallersAt("submit", j)) - 1
             ELSE Cardinality(CallersAt("submit", j))
    BY <2>1, <2>2, FS_RemoveElement
  <2>5. runs'[j] = runs[j] \/ (c \in CallersAt("submit", j) /\ runs'[j] = runs[j] + 1)
    BY <1>1 DEF OnceTypes, CallersAt
  <2>6. runs'[j] + Cardinality(CallersAt("submit", j)') + Untaken(j)' <= 1 + expired'[j]
    BY <2>1, <2>3, <2>4, <2>5
  <2>7. \A d \in CallersAt("submit", j)' : onceTask'[d] = onceTask[d]
    BY <1>1, <2>2, CallerReturns DEF CallersAt
  <2>8. QED
    BY <2>1, <2>2, <2>6, <2>7
<1>4. PaperOnce'
  BY <1>3 DEF PaperOnce
<1>5. QED
  BY <1>2, <1>4, StillBound DEF OnceInv

LEMMA ClaimExpiresPreserves ==
  ASSUME OnceInv, NEW k \in OnceKeys, ClaimExpires(k) PROVE OnceInv'
<1>1. /\ claims[k] # NoValue /\ claims' = [claims EXCEPT ![k] = NoValue]
      /\ expired' = [expired EXCEPT ![k] = @ + 1]
      /\ UNCHANGED <<onceGate, records, accepted, bound, boundFor, brokerLink,
                     onceTask, runs>>
  BY DEF ClaimExpires, recordVars, linkVars
<1>2. /\ OnceTypes
      /\ \A j \in OnceKeys : /\ claims'[j] = IF j = k THEN NoValue ELSE claims[j]
                             /\ expired'[j] = IF j = k THEN expired[k] + 1 ELSE expired[j]
  BY <1>1 DEF OnceInv, OnceTypes
<1>3. OnceTypes'
  BY <1>1, <1>2 DEF OnceTypes
<1>4. ASSUME PaperOnce PROVE PaperOnce'
  <2>1. ASSUME NEW j \in OnceKeys
        PROVE  /\ runs'[j] + Cardinality(CallersAt("submit", j)') + Untaken(j)' <= 1 + expired'[j]
               /\ expired'[j] = 0 =>
                    \A d \in CallersAt("submit", j)' : onceTask'[d].payload = claims'[j]
    <3>1. CallersAt("submit", j)' = CallersAt("submit", j)
      BY <1>1 DEF CallersAt
    <3>2. /\ runs[j] + Cardinality(CallersAt("submit", j)) + Untaken(j) <= 1 + expired[j]
          /\ expired[j] = 0 =>
               \A d \in CallersAt("submit", j) : onceTask[d].payload = claims[j]
          /\ Cardinality(CallersAt("submit", j)) \in Nat
          /\ runs[j] \in Nat /\ expired[j] \in Nat
      BY <1>2, <1>4, CallersFinite, FS_CardinalityType DEF PaperOnce, OnceTypes
    <3>3. Untaken(j) \in {0, 1} /\ Untaken(j)' = IF j = k THEN Untaken(j) + 1 ELSE Untaken(j)
      BY <1>1, <1>2 DEF Untaken
    <3>4. runs'[j] = runs[j] /\ onceTask' = onceTask
      BY <1>1
    <3>5. CASE j = k
      <4>1. expired'[j] = expired[j] + 1 /\ Untaken(j)' = Untaken(j) + 1
        BY <1>2, <3>3, <3>5
      <4>2. QED
        BY <3>1, <3>2, <3>3, <3>4, <4>1
    <3>6. CASE j # k
      <4>1. expired'[j] = expired[j] /\ Untaken(j)' = Untaken(j) /\ claims'[j] = claims[j]
        BY <1>2, <3>3, <3>6
      <4>2. QED
        BY <3>1, <3>2, <3>3, <3>4, <4>1
    <3>7. QED
      BY <3>5, <3>6
  <2>2. QED
    BY <2>1 DEF PaperOnce
<1>5. QED
  BY <1>1, <1>3, <1>4, StillRetries, StillBound DEF OnceInv

LEMMA SendsPreserves ==
  ASSUME OnceInv, NEW c \in OnceCallers, NEW k \in OnceKeys, Sends(c, k) PROVE OnceInv'
<1>1. /\ onceGate = "retries" /\ records[k].state # "SUBMITTED"
      /\ records[k].attempts < MaxOnceAttempts
      /\ Calls(c, "send", k, NoValue)
      /\ records' = [records EXCEPT ![k] = [state |-> "SUBMITTED",
                                            attempts |-> records[k].attempts + 1]]
      /\ runs' = [runs EXCEPT ![k] = @ + 1]
      /\ UNCHANGED <<onceGate, claims, expired, accepted, bound, boundFor, brokerLink>>
      /\ OnceTypes /\ RetriesOnce
  BY DEF Sends, Record, claimVars, linkVars, OnceInv
<1>2. /\ onceTask' \in [OnceCallers -> OnceTask]
      /\ \A j \in OnceKeys :
           CallersAt("send", j)' = IF j = k THEN CallersAt("send", j) \cup {c}
                                   ELSE CallersAt("send", j)
      /\ \A d \in OnceCallers :
           /\ onceTask'[d].step # "none" => onceTask'[d].key \in OnceKeys
           /\ onceTask'[d].step = "claim" => onceTask'[d].payload \in OncePayloads
           /\ onceTask'[d].step = "bind" => onceTask'[d].payload \in OnceBrokerIds
  BY <1>1, CallerBegins
<1>3. /\ \A j \in OnceKeys :
           /\ runs'[j] = IF j = k THEN runs[k] + 1 ELSE runs[j]
           /\ records'[j] = IF j = k THEN [state |-> "SUBMITTED",
                                           attempts |-> records[k].attempts + 1]
                            ELSE records[j]
      /\ records[k].attempts \in Nat
  BY <1>1 DEF OnceTypes
<1>4. OnceTypes'
  BY <1>1, <1>2, <1>3 DEF OnceTypes
<1>5. ASSUME NEW j \in OnceKeys
      PROVE  /\ \A d, e \in CallersAt("send", j)' : d = e
             /\ runs'[j] = records'[j].attempts /\ runs'[j] <= MaxOnceAttempts
             /\ records'[j].state # "SUBMITTED" => CallersAt("send", j)' = {}
             /\ j \in accepted' => CallersAt("send", j)' = {} /\ records'[j].state = "SUBMITTED"
  <2>1. CASE j = k
    <3>1. CallersAt("send", k) = {} /\ k \notin accepted /\ runs[k] = records[k].attempts
      BY <1>1 DEF RetriesOnce
    <3>2. runs'[k] = records'[k].attempts /\ runs'[k] <= MaxOnceAttempts
      BY <1>1, <1>3, <3>1
    <3>3. QED
      BY <1>1, <1>2, <1>3, <2>1, <3>1, <3>2
  <2>2. CASE j # k
    BY <1>1, <1>2, <1>3, <2>2 DEF RetriesOnce
  <2>3. QED
    BY <2>1, <2>2
<1>6. RetriesOnce'
  BY <1>5 DEF RetriesOnce
<1>7. QED
  BY <1>1, <1>4, <1>6, StillBound DEF OnceInv

LEMMA SendEndsPreserves ==
  ASSUME OnceInv, NEW c \in OnceCallers, NEW raises \in BOOLEAN, SendEnds(c, raises)
  PROVE  OnceInv'
<1> DEFINE s == IF raises THEN "UNKNOWN" ELSE "SUBMITTED"
<1>0. PICK k \in OnceKeys : onceTask[c].key = k
  BY DEF SendEnds, OnceInv, OnceTypes
<1>1. /\ onceGate = "retries" /\ onceTask[c].step = "send"
      /\ records' = [records EXCEPT ![k] = [state |-> s, attempts |-> records[k].attempts]]
      /\ accepted' = IF raises THEN accepted ELSE accepted \cup {k}
      /\ OnceReturns(c)
      /\ UNCHANGED <<onceGate, claims, expired, bound, boundFor, brokerLink, runs>>
      /\ OnceTypes /\ RetriesOnce
  BY <1>0 DEF SendEnds, Record, claimVars, linkVars, OnceInv
<1>2. /\ \A j \in OnceKeys :
           records'[j] = IF j = k THEN [state |-> s, attempts |-> records[k].attempts]
                         ELSE records[j]
      /\ records[k].attempts \in Nat
  BY <1>1 DEF OnceTypes
<1>3. OnceTypes'
  BY <1>1, <1>2, CallerReturns DEF OnceTypes
<1>4. \A j \in OnceKeys : CallersAt("send", j)' = CallersAt("send", j) \ {c}
  BY <1>1, CallerReturns
<1>5. c \in CallersAt("send", k)
  BY <1>0, <1>1 DEF CallersAt
<1>6. k \notin accepted
  BY <1>1, <1>5 DEF RetriesOnce
<1>7. ASSUME NEW j \in OnceKeys
      PROVE  /\ \A d, e \in CallersAt("send", j)' : d = e
             /\ runs'[j] = records'[j].attempts /\ runs'[j] <= MaxOnceAttempts
             /\ records'[j].state # "SUBMITTED" => CallersAt("send", j)' = {}
             /\ j \in accepted' => CallersAt("send", j)' = {} /\ records'[j].state = "SUBMITTED"
  <2>1. CASE j = k
    <3>1. CallersAt("send", k)' = {}
      <4>1. \A d \in CallersAt("send", k) : d = c
        BY <1>1, <1>5 DEF RetriesOnce
      <4>2. CallersAt("send", k)' = CallersAt("send", k) \ {c}
        BY <1>1, <1>4
      <4>3. QED
        BY <4>1, <4>2
    <3>2. runs'[k] = records'[k].attempts /\ runs'[k] <= MaxOnceAttempts
      BY <1>1, <1>2 DEF RetriesOnce
    <3>3. k \in accepted' => records'[k].state = "SUBMITTED"
      BY <1>1, <1>2, <1>6
    <3>4. QED
      <4>1. /\ CallersAt("send", j)' = {}
            /\ runs'[j] = records'[j].attempts /\ runs'[j] <= MaxOnceAttempts
            /\ j \in accepted' => records'[j].state = "SUBMITTED"
        BY <2>1, <3>1, <3>2, <3>3
      <4>2. QED
        BY <4>1
  <2>2. CASE j # k
    <3>1. records'[j] = records[j] /\ runs'[j] = runs[j]
      BY <1>1, <1>2, <2>2
    <3>2. j \in accepted' => j \in accepted
      BY <1>1, <2>2
    <3>3. CallersAt("send", j)' \subseteq CallersAt("send", j)
      BY <1>4
    <3>4. QED
      BY <1>1, <3>1, <3>2, <3>3 DEF RetriesOnce
  <2>3. QED
    BY <2>1, <2>2
<1>8. RetriesOnce'
  BY <1>7 DEF RetriesOnce
<1>9. QED
  BY <1>1, <1>3, <1>8, StillBound DEF OnceInv

LEMMA BindReadsPreserves ==
  ASSUME OnceInv, NEW c \in OnceCallers, NEW k \in OnceKeys, NEW b \in OnceBrokerIds,
         BindReads(c, k, b)
  PROVE  OnceInv'
<1>1. /\ onceGate = "identities" /\ Calls(c, "bind", k, b)
      /\ UNCHANGED <<onceGate, claims, expired, records, accepted, bound, boundFor, runs>>
      /\ OnceTypes
  BY DEF BindReads, claimVars, recordVars, OnceInv
<1>2. /\ onceTask' \in [OnceCallers -> OnceTask]
      /\ \A d \in OnceCallers :
           /\ onceTask'[d].step # "none" => onceTask'[d].key \in OnceKeys
           /\ onceTask'[d].step = "claim" => onceTask'[d].payload \in OncePayloads
           /\ onceTask'[d].step = "bind" => onceTask'[d].payload \in OnceBrokerIds
  BY <1>1, CallerBegins
<1>3. OnceTypes'
  BY <1>1, <1>2 DEF OnceTypes
<1>4. QED
  BY <1>1, <1>3, StillBound DEF OnceInv

\* What is inserted is of an order that is not bound and of a broker's order that none is.
LEMMA BindInsertsPreserves ==
  ASSUME OnceInv, NEW c \in OnceCallers, BindInserts(c) PROVE OnceInv'
<1> DEFINE k == onceTask[c].key
           b == onceTask[c].payload
           inserts == bound[k] = NoValue /\ \A other \in OnceKeys : bound[other] # b
<1>1. /\ onceGate = "identities" /\ OnceReturns(c) /\ k \in OnceKeys /\ b \in OnceBrokerIds
      /\ bound' = IF inserts THEN [bound EXCEPT ![k] = b] ELSE bound
      /\ boundFor' = IF inserts THEN boundFor \cup {<<k, b>>} ELSE boundFor
      /\ UNCHANGED <<onceGate, claims, expired, records, accepted, runs>>
      /\ OnceTypes /\ BoundOnce
  BY DEF BindInserts, claimVars, OnceInv, OnceTypes
<1> HIDE DEF k, b
<1>2. CASE ~inserts
  <2>1. UNCHANGED <<bound, boundFor>>
    BY <1>1, <1>2
  <2>2. OnceTypes'
    BY <1>1, <2>1, CallerReturns DEF OnceTypes
  <2>3. QED
    BY <1>1, <2>1, <2>2, StillBound DEF OnceInv
<1>3. CASE inserts
  <2>1. /\ \A j \in OnceKeys : bound'[j] = IF j = k THEN b ELSE bound[j]
        /\ boundFor' = boundFor \cup {<<k, b>>}
        /\ bound' \in [OnceKeys -> OnceBrokerIds \cup {NoValue}]
        /\ boundFor' \subseteq OnceKeys \X OnceBrokerIds
    BY <1>1, <1>3 DEF OnceTypes
  <2>2. OnceTypes'
    BY <1>1, <2>1, CallerReturns DEF OnceTypes
  <2>3. ASSUME NEW t \in boundFor' PROVE bound'[t[1]] = t[2]
    <3>1. CASE t \in boundFor
      <4>1. t[1] \in OnceKeys /\ t[2] \in OnceBrokerIds /\ bound[t[1]] = t[2]
        BY <1>1, <3>1 DEF OnceTypes, BoundOnce
      <4>2. t[1] # k
        BY <1>3, <4>1
      <4>3. QED
        BY <2>1, <4>1, <4>2
    <3>2. CASE t = <<k, b>>
      BY <1>1, <2>1, <3>2
    <3>3. QED
      BY <2>1, <3>1, <3>2
  <2>4. ASSUME NEW i \in OnceKeys, NEW j \in OnceKeys, bound'[i] = bound'[j], bound'[i] # NoValue
        PROVE  i = j
    BY <1>1, <1>3, <2>1, <2>4 DEF BoundOnce
  <2>5. QED
    BY <1>1, <2>2, <2>3, <2>4 DEF OnceInv, BoundOnce
<1>4. QED
  BY <1>2, <1>3

LEMMA OncePreserved == OnceInv /\ [OnceNext]_onceVars => OnceInv'
<1> SUFFICES ASSUME OnceInv, [OnceNext]_onceVars PROVE OnceInv'
  OBVIOUS
<1>1. CASE LinkStep
  BY <1>1, LinkPreserves
<1>2. ASSUME NEW c \in OnceCallers, NEW k \in OnceKeys, NEW p \in OncePayloads, PaperAsks(c, k, p)
      PROVE  OnceInv'
  BY <1>2, PaperAsksPreserves
<1>3. ASSUME NEW c \in OnceCallers, PaperClaims(c) PROVE OnceInv'
  BY <1>3, PaperClaimsPreserves
<1>4. ASSUME NEW c \in OnceCallers, PaperSubmits(c) PROVE OnceInv'
  BY <1>4, PaperLeaves DEF PaperSubmits, claimVars, recordVars, linkVars
<1>5. ASSUME NEW c \in OnceCallers, CallerCrashes(c) PROVE OnceInv'
  BY <1>5, PaperLeaves DEF CallerCrashes, claimVars, recordVars, linkVars
<1>6. ASSUME NEW k \in OnceKeys, ClaimExpires(k) PROVE OnceInv'
  BY <1>6, ClaimExpiresPreserves
<1>7. ASSUME NEW c \in OnceCallers, NEW k \in OnceKeys, Sends(c, k) PROVE OnceInv'
  BY <1>7, SendsPreserves
<1>8. ASSUME NEW c \in OnceCallers, NEW raises \in BOOLEAN, SendEnds(c, raises) PROVE OnceInv'
  BY <1>8, SendEndsPreserves
<1>9. ASSUME NEW c \in OnceCallers, NEW k \in OnceKeys, NEW b \in OnceBrokerIds,
             BindReads(c, k, b)
      PROVE  OnceInv'
  BY <1>9, BindReadsPreserves
<1>10. ASSUME NEW c \in OnceCallers, BindInserts(c) PROVE OnceInv'
  BY <1>10, BindInsertsPreserves
<1>11. CASE UNCHANGED onceVars
  <2>1. UNCHANGED <<onceGate, claims, expired, records, accepted, bound, boundFor,
                    brokerLink, onceTask, runs>>
    BY <1>11 DEF onceVars, claimVars, recordVars, linkVars
  <2>2. OnceTypes'
    BY <2>1 DEF OnceInv, OnceTypes
  <2>3. QED
    BY <2>1, <2>2, StillPaper, StillRetries, StillBound DEF OnceInv
<1>12. QED
  BY <1>1, <1>2, <1>3, <1>4, <1>5, <1>6, <1>7, <1>8, <1>9, <1>10, <1>11 DEF OnceNext

LEMMA OnceInvImplies == OnceInv => OnceMeansOnce
<1> SUFFICES ASSUME OnceInv PROVE OnceMeansOnce
  OBVIOUS
<1>1. ASSUME onceGate = "paper", NEW k \in OnceKeys
      PROVE  runs[k] + Cardinality(CallersAt("submit", k)) <= 1 + expired[k]
  <2>1. /\ runs[k] + Cardinality(CallersAt("submit", k)) + Untaken(k) <= 1 + expired[k]
        /\ Cardinality(CallersAt("submit", k)) \in Nat
        /\ runs[k] \in Nat /\ expired[k] \in Nat /\ Untaken(k) \in {0, 1}
    BY <1>1, CallersFinite, FS_CardinalityType DEF OnceInv, PaperOnce, OnceTypes, Untaken
  <2>2. QED
    BY <2>1
<1>2. ASSUME onceGate = "retries", NEW k \in OnceKeys
      PROVE  Cardinality(CallersAt("send", k)) <= 1
  <2>1. CASE CallersAt("send", k) = {}
    BY <2>1, FS_EmptySet
  <2>2. CASE CallersAt("send", k) # {}
    <3>1. PICK c : c \in CallersAt("send", k)
      BY <2>2
    <3>2. \A d \in CallersAt("send", k) : d = c
      BY <1>2, <3>1 DEF OnceInv, RetriesOnce
    <3>3. CallersAt("send", k) = {c}
      BY <3>1, <3>2
    <3>4. QED
      BY <3>3, FS_Singleton
  <2>3. QED
    BY <2>1, <2>2
<1>3. QED
  BY <1>1, <1>2 DEF OnceInv, PaperOnce, RetriesOnce, BoundOnce, OnceMeansOnce

\* Whatever number of callers, keys and claims that run out: a request is executed once for
\* every life of its claim and as it was claimed, an order has one sending under way and
\* none after one that returned, and of processes that bind at once no binding that was
\* made is lost and no two orders get one order of the broker (execution/__init__.py,
\* idempotent_execution.py, order_identity_registry.py).
THEOREM OnceCorrect == OnceSpec => []OnceMeansOnce
<1>1. QED
  BY OnceInitially, OncePreserved, OnceInvImplies, PTL DEF OnceSpec

HIDE OnceAssumption

-----------------------------------------------------------------------------
(* FillJournal.                                                             *)

USE JournalAssumption

LedgerStatuses == {"none", "CREATED", "RISK_APPROVED", "REJECTED", "SUBMITTED", "CANCELLED",
                   "PARTIALLY_FILLED", "FILLED", "CLOSED"}

JournalTypes ==
  /\ way \in {"journal", "processor"}
  /\ ledger \in [Tickets -> [status : LedgerStatuses, filled : Nat]]
  /\ stateStore \in [open : SUBSET Tickets, filled : [Tickets -> Nat], position : Int]
  /\ booked \subseteq FillEvents /\ IsFiniteSet(booked)
  /\ caller \in [Callers -> FillEvents \cup {NoEvent}]

\* An event is claimed before it is booked, by one thread at a time.
ClaimedFirst ==
  /\ way = "journal" =>
       /\ \A e \in booked : e.id \in journal
       /\ \A c \in Callers : caller[c] # NoEvent =>
            /\ caller[c].id \in journal
            /\ \A e \in booked : e.id # caller[c].id
            /\ \A d \in Callers : d # c /\ caller[d] # NoEvent => caller[d].id # caller[c].id
  /\ way = "processor" =>
       /\ \A e \in booked : e.id \in seen
       /\ \A c \in Callers : caller[c] = NoEvent
  /\ \A e, f \in booked : e.id = f.id => e = f

Fills == [o \in Tickets |-> ledger[o].filled]

\* What is filled is what is booked; nothing is filled before an order is submitted.
FillsAgree ==
  /\ \A o \in Tickets :
       /\ ledger[o].filled = SumFunctionOnSet(Quantities, BookedFor(o))
       /\ ledger[o].status \in {"none", "CREATED", "RISK_APPROVED"} => ledger[o].filled = 0
       /\ ledger[o].status \in {"SUBMITTED", "PARTIALLY_FILLED"}
            => o \in stateStore.open /\ stateStore.filled[o] = ledger[o].filled
  /\ stateStore.position = SumFunctionOnSet(Fills, Tickets)

JournalInv == JournalTypes /\ ClaimedFirst /\ FillsAgree

LEMMA SumOfNone == ASSUME NEW S, IsFiniteSet(S) PROVE SumFunctionOnSet([o \in S |-> 0], S) = 0
<1> DEFINE f == [o \in S |-> 0]
           D == {U \in SUBSET S : SumFunctionOnSet(f, U) = 0}
<1>1. {} \in D
  BY SumEmpty
<1>2. ASSUME NEW U \in SUBSET S, NEW y \in S \ U, U \in D PROVE U \cup {y} \in D
  <2>1. IsFiniteSet(U) /\ \A x \in U \cup {y} : f[x] = 0
    BY FS_Subset
  <2> HIDE DEF f
  <2>2. SumFunctionOnSet(f, U \cup {y}) = f[y] + SumFunctionOnSet(f, U)
    BY <2>1, SumAdds
  <2>3. QED
    BY <1>2, <2>1, <2>2
<1> HIDE DEF D, f
<1>3. S \in D
  BY <1>1, <1>2, FiniteSetInduction
<1>4. QED
  BY <1>3 DEF D, f

\* A ledger without fills agrees with a state store in which nothing is open.
LEMMA NothingBooked ==
  ASSUME ledger = [o \in Tickets |-> NoTicket], stateStore = NothingOpen, booked = {}
  PROVE  FillsAgree
<1>1. \A o \in Tickets : ledger[o].filled = 0 /\ ledger[o].status = "none"
  BY DEF NoTicket
<1>2. \A o \in Tickets : BookedFor(o) = {}
  BY DEF BookedFor
<1>3. Fills = [o \in Tickets |-> 0]
  BY <1>1 DEF Fills
<1>4. stateStore.position = SumFunctionOnSet(Fills, Tickets)
  BY <1>3, SumOfNone DEF NothingOpen
<1>5. SumFunctionOnSet(Quantities, {}) = 0
  BY SumEmpty
<1>6. QED
  BY <1>1, <1>2, <1>4, <1>5 DEF FillsAgree

LEMMA JournalInitially == JournalInit => JournalInv
<1> SUFFICES ASSUME JournalInit PROVE JournalInv
  OBVIOUS
<1>1. JournalTypes
  BY FS_EmptySet DEF JournalInit, JournalTypes, NoTicket, NothingOpen, LedgerStatuses
<1>2. ClaimedFirst
  BY DEF JournalInit, ClaimedFirst
<1>3. FillsAgree
  BY NothingBooked DEF JournalInit
<1>4. QED
  BY <1>1, <1>2, <1>3 DEF JournalInv

\* A transition of an order that is in the graph.
LEMMA TransitionAgrees ==
  ASSUME JournalTypes, FillsAgree, NEW o \in Tickets, NEW status, LedgerTransition(o, status),
         UNCHANGED booked
  PROVE  /\ ledger' \in [Tickets -> [status : LedgerStatuses, filled : Nat]]
         /\ stateStore' \in [open : SUBSET Tickets, filled : [Tickets -> Nat], position : Int]
         /\ FillsAgree'
<1>1. /\ status \in LedgerAllows(ledger[o].status)
      /\ ledger' = [ledger EXCEPT ![o].status = status]
  BY DEF LedgerTransition
<1>2. /\ status \in LedgerStatuses \ {"none", "CREATED"}
      /\ status = "RISK_APPROVED" => ledger[o].status = "CREATED"
      /\ status = "SUBMITTED" => ledger[o].status = "RISK_APPROVED"
      /\ status = "PARTIALLY_FILLED" => ledger[o].status \in {"SUBMITTED", "PARTIALLY_FILLED"}
  BY <1>1 DEF LedgerAllows, LedgerStatuses
<1>3. \A p \in Tickets : /\ ledger'[p].filled = ledger[p].filled
                         /\ ledger'[p].status = IF p = o THEN status ELSE ledger[p].status
  BY <1>1 DEF JournalTypes
<1>4. ledger' \in [Tickets -> [status : LedgerStatuses, filled : Nat]]
  BY <1>1, <1>2 DEF JournalTypes
<1>5. /\ stateStore' \in [open : SUBSET Tickets, filled : [Tickets -> Nat], position : Int]
      /\ stateStore'.position = stateStore.position
      /\ \A p \in Tickets \ {o} : /\ p \in stateStore.open => p \in stateStore'.open
                                  /\ stateStore'.filled[p] = stateStore.filled[p]
      /\ status = "SUBMITTED" => o \in stateStore'.open /\ stateStore'.filled[o] = 0
      /\ status = "PARTIALLY_FILLED" => stateStore' = stateStore
  <2>0. stateStore \in [open : SUBSET Tickets, filled : [Tickets -> Nat], position : Int]
    BY DEF JournalTypes
  <2>1. CASE status = "SUBMITTED"
    <3>1. stateStore' = [stateStore EXCEPT !.open = @ \cup {o}, !.filled[o] = 0]
      BY <2>1 DEF LedgerTransition
    <3>2. /\ stateStore'.open = stateStore.open \cup {o}
          /\ stateStore'.filled = [stateStore.filled EXCEPT ![o] = 0]
          /\ stateStore'.position = stateStore.position
          /\ stateStore' \in [open : SUBSET Tickets, filled : [Tickets -> Nat], position : Int]
      BY <2>0, <3>1
    <3>3. QED
      BY <2>0, <2>1, <3>2
  <2>2. CASE status \in {"CANCELLED", "REJECTED"}
    <3>1. stateStore' = [stateStore EXCEPT !.open = @ \ {o}]
      BY <2>2 DEF LedgerTransition
    <3>2. QED
      BY <2>0, <2>2, <3>1
  <2>3. CASE status \notin {"SUBMITTED", "CANCELLED", "REJECTED"}
    <3>1. stateStore' = stateStore
      BY <2>3 DEF LedgerTransition
    <3>2. QED
      BY <2>0, <2>3, <3>1
  <2>4. QED
    BY <2>1, <2>2, <2>3
<1>6. Fills' = Fills
  BY <1>3 DEF Fills
<1>7. \A p \in Tickets : BookedFor(p)' = BookedFor(p)
  BY DEF BookedFor
<1>8. ASSUME NEW p \in Tickets
      PROVE  /\ ledger'[p].filled = SumFunctionOnSet(Quantities, BookedFor(p)')
             /\ ledger'[p].status \in {"none", "CREATED", "RISK_APPROVED"} => ledger'[p].filled = 0
             /\ ledger'[p].status \in {"SUBMITTED", "PARTIALLY_FILLED"}
                  => p \in stateStore'.open /\ stateStore'.filled[p] = ledger'[p].filled
  <2>1. ledger'[p].filled = SumFunctionOnSet(Quantities, BookedFor(p)')
    BY <1>3, <1>7 DEF FillsAgree
  <2>2. CASE p = o
    BY <1>2, <1>3, <1>5, <2>1, <2>2 DEF FillsAgree
  <2>3. CASE p # o
    BY <1>3, <1>5, <2>1, <2>3 DEF FillsAgree
  <2>4. QED
    BY <2>2, <2>3
<1>9. FillsAgree'
  BY <1>5, <1>6, <1>8 DEF FillsAgree
<1>10. QED
  BY <1>4, <1>5, <1>9

\* A fill of an event that is not booked yet.
LEMMA FillAgrees ==
  ASSUME JournalTypes, FillsAgree, NEW e \in FillEvents, e \notin booked,
         LedgerFill(e.order, e.quantity), booked' = booked \cup {e}
  PROVE  /\ ledger' \in [Tickets -> [status : LedgerStatuses, filled : Nat]]
         /\ stateStore' \in [open : SUBSET Tickets, filled : [Tickets -> Nat], position : Int]
         /\ FillsAgree'
<1>0. PICK o \in Tickets, q \in Nat : o = e.order /\ q = e.quantity
  OBVIOUS
<1> DEFINE full == ledger[o].filled + q
           ends == full = TicketSize[o]
<1>1. /\ Fillable(o, q)
      /\ ledger' = [ledger EXCEPT ![o] = [filled |-> full,
                      status |-> IF ends THEN "FILLED" ELSE "PARTIALLY_FILLED"]]
      /\ stateStore' = [open |-> IF ends THEN stateStore.open \ {o} ELSE stateStore.open,
                        filled |-> [stateStore.filled EXCEPT ![o] = full],
                        position |-> stateStore.position + q]
  BY <1>0 DEF LedgerFill
<1>2. ledger[o] \in [status : LedgerStatuses, filled : Nat] /\ full \in Nat
  BY DEF JournalTypes
<1>3. [filled |-> full, status |-> IF ends THEN "FILLED" ELSE "PARTIALLY_FILLED"]
        \in [status : LedgerStatuses, filled : Nat]
  BY <1>2 DEF LedgerStatuses
<1>4. ledger' \in [Tickets -> [status : LedgerStatuses, filled : Nat]]
  BY <1>1, <1>3 DEF JournalTypes
<1>5. stateStore' \in [open : SUBSET Tickets, filled : [Tickets -> Nat], position : Int]
  <2>1. stateStore \in [open : SUBSET Tickets, filled : [Tickets -> Nat], position : Int]
    BY DEF JournalTypes
  <2>2. [stateStore.filled EXCEPT ![o] = full] \in [Tickets -> Nat]
    BY <1>2, <2>1
  <2>3. QED
    BY <1>1, <2>1, <2>2
<1>6. /\ ledger'[o].filled = full
      /\ ledger'[o].status = IF ends THEN "FILLED" ELSE "PARTIALLY_FILLED"
      /\ \A p \in Tickets \ {o} : ledger'[p] = ledger[p]
  BY <1>1 DEF JournalTypes
<1>7. /\ stateStore'.position = stateStore.position + q
      /\ stateStore'.filled[o] = full
      /\ \A p \in Tickets \ {o} : /\ stateStore'.filled[p] = stateStore.filled[p]
                                  /\ p \in stateStore.open => p \in stateStore'.open
      /\ ~ends => stateStore'.open = stateStore.open
  BY <1>1 DEF JournalTypes
<1>8. o \in stateStore.open /\ stateStore.filled[o] = ledger[o].filled
  BY <1>1 DEF FillsAgree, Fillable
<1> HIDE DEF full, ends
<1>9. BookedFor(o)' = BookedFor(o) \cup {e} /\ \A p \in Tickets \ {o} : BookedFor(p)' = BookedFor(p)
  BY <1>0 DEF BookedFor
<1>10. /\ IsFiniteSet(BookedFor(o)) /\ e \notin BookedFor(o)
       /\ \A f \in BookedFor(o) \cup {e} : Quantities[f] \in Int
       /\ Quantities[e] = q
  <2>1. BookedFor(o) \subseteq booked
    BY DEF BookedFor
  <2>2. QED
    BY <1>0, <2>1, FS_Subset DEF JournalTypes, Quantities
<1>11. SumFunctionOnSet(Quantities, BookedFor(o)') =
         q + SumFunctionOnSet(Quantities, BookedFor(o))
  BY <1>9, <1>10, SumAdds
<1>12. ledger[o].filled = SumFunctionOnSet(Quantities, BookedFor(o))
  BY DEF FillsAgree
<1>13. ledger'[o].filled = SumFunctionOnSet(Quantities, BookedFor(o)')
  BY <1>2, <1>6, <1>11, <1>12 DEF full
<1>14. stateStore'.position = SumFunctionOnSet(Fills', Tickets)
  <2>1. /\ \A p \in Tickets : Fills[p] \in Int /\ Fills'[p] \in Int
        /\ \A p \in Tickets \ {o} : Fills'[p] = Fills[p]
        /\ Fills'[o] = Fills[o] + q /\ Fills[o] = ledger[o].filled
    BY <1>4, <1>6 DEF Fills, JournalTypes, full
  <2>2. SumFunctionOnSet(Fills', Tickets) = SumFunctionOnSet(Fills, Tickets) - Fills[o] + Fills'[o]
    BY <2>1, SumChanges
  <2>3. SumFunctionOnSet(Fills, Tickets) \in Int
    BY <2>1, SumType
  <2>4. QED
    BY <1>7, <2>1, <2>2, <2>3 DEF FillsAgree
<1>15. ASSUME NEW p \in Tickets
       PROVE  /\ ledger'[p].filled = SumFunctionOnSet(Quantities, BookedFor(p)')
              /\ ledger'[p].status \in {"none", "CREATED", "RISK_APPROVED"} => ledger'[p].filled = 0
              /\ ledger'[p].status \in {"SUBMITTED", "PARTIALLY_FILLED"}
                   => p \in stateStore'.open /\ stateStore'.filled[p] = ledger'[p].filled
  <2>1. CASE p = o
    BY <1>6, <1>7, <1>8, <1>13, <2>1
  <2>2. CASE p # o
    BY <1>6, <1>7, <1>9, <2>2 DEF FillsAgree
  <2>3. QED
    BY <2>1, <2>2
<1>16. FillsAgree'
  BY <1>14, <1>15 DEF FillsAgree
<1>17. QED
  BY <1>4, <1>5, <1>16

\* What an event may do to the books.
LEMMA EventAgrees ==
  ASSUME JournalTypes, FillsAgree, NEW e \in FillEvents, e \notin booked, LedgerCall(e)
  PROVE  /\ ledger' \in [Tickets -> [status : LedgerStatuses, filled : Nat]]
         /\ stateStore' \in [open : SUBSET Tickets, filled : [Tickets -> Nat], position : Int]
         /\ FillsAgree'
         /\ booked' = booked \/ booked' = booked \cup {e}
<1>1. CASE UNCHANGED <<ledger, stateStore, booked>>
  <2>1. FillsAgree'
    <3>1. Fills' = Fills /\ \A o \in Tickets : BookedFor(o)' = BookedFor(o)
      BY <1>1 DEF Fills, BookedFor
    <3>2. QED
      BY <1>1, <3>1 DEF FillsAgree
  <2>2. QED
    BY <1>1, <2>1 DEF JournalTypes
<1>2. CASE LedgerFill(e.order, e.quantity) /\ booked' = booked \cup {e}
  BY <1>2, FillAgrees
<1>3. CASE LedgerTransition(e.order, e.kind) /\ UNCHANGED booked
  <2>1. e.order \in Tickets
    OBVIOUS
  <2>2. QED
    BY <1>3, <2>1, TransitionAgrees
<1>4. QED
  BY <1>1, <1>2, <1>3 DEF LedgerCall, AppliesTo

LEMMA RoutesAgree ==
  ASSUME JournalInv, NEW o \in Tickets,
         CreateTicket(o) \/ \E status \in LedgerAllows(ledger[o].status) : RouteTransition(o, status)
  PROVE  JournalInv'
<1>1. CASE CreateTicket(o)
  <2>1. /\ ledger[o].status = "none" /\ ledger' = [ledger EXCEPT ![o].status = "CREATED"]
        /\ UNCHANGED <<way, stateStore, journal, seen, caller, booked>>
    BY <1>1 DEF CreateTicket
  <2>2. \A p \in Tickets : /\ ledger'[p].filled = ledger[p].filled
                           /\ ledger'[p].status = IF p = o THEN "CREATED" ELSE ledger[p].status
    BY <2>1 DEF JournalInv, JournalTypes
  <2>3. JournalTypes'
    BY <2>1 DEF JournalInv, JournalTypes, LedgerStatuses
  <2>4. ClaimedFirst'
    BY <2>1 DEF JournalInv, ClaimedFirst
  <2>5. Fills' = Fills /\ \A p \in Tickets : BookedFor(p)' = BookedFor(p)
    BY <2>1, <2>2 DEF Fills, BookedFor
  <2>6. FillsAgree'
    BY <2>1, <2>2, <2>5 DEF JournalInv, FillsAgree
  <2>7. QED
    BY <2>3, <2>4, <2>6 DEF JournalInv
<1>2. ASSUME NEW status, RouteTransition(o, status) PROVE JournalInv'
  <2>1. LedgerTransition(o, status) /\ UNCHANGED <<way, journal, seen, caller, booked>>
    BY <1>2 DEF RouteTransition
  <2>2. ClaimedFirst'
    BY <2>1 DEF JournalInv, ClaimedFirst
  <2>3. QED
    BY <2>1, <2>2, TransitionAgrees DEF JournalInv, JournalTypes
<1>3. QED
  BY <1>1, <1>2

LEMMA JournalsAgrees ==
  ASSUME JournalInv, NEW e \in FillEvents, NEW c \in Callers, Journals(c, e)
  PROVE  JournalInv'
<1>1. /\ way = "journal" /\ caller[c] = NoEvent /\ e.id \notin journal
      /\ journal' = journal \cup {e.id} /\ caller' = [caller EXCEPT ![c] = e]
      /\ UNCHANGED <<way, ledger, stateStore, seen, booked>>
  BY DEF Journals, Claimed
<1>2. JournalTypes'
  BY <1>1 DEF JournalInv, JournalTypes
<1>3. \A d \in Callers : caller'[d] = IF d = c THEN e ELSE caller[d]
  BY <1>1 DEF JournalInv, JournalTypes
<1>4. ClaimedFirst'
  BY <1>1, <1>3 DEF JournalInv, ClaimedFirst
<1>5. Fills' = Fills /\ \A o \in Tickets : BookedFor(o)' = BookedFor(o)
  BY <1>1 DEF Fills, BookedFor
<1>6. FillsAgree'
  BY <1>1, <1>5 DEF JournalInv, FillsAgree
<1>7. QED
  BY <1>2, <1>4, <1>6 DEF JournalInv

LEMMA AppliesAgrees ==
  ASSUME JournalInv, NEW c \in Callers, JournalApplies(c)
  PROVE  JournalInv'
<1>0. PICK e \in FillEvents : caller[c] = e
  BY DEF JournalApplies, JournalInv, JournalTypes
<1>1. /\ caller[c] # NoEvent /\ LedgerCall(e)
      /\ caller' = [caller EXCEPT ![c] = NoEvent]
      /\ UNCHANGED <<way, journal, seen>>
  BY <1>0 DEF JournalApplies
<1>2. /\ way = "journal" /\ e.id \in journal /\ \A f \in booked : f.id # e.id
      /\ e \notin booked
  BY <1>0, <1>1 DEF JournalInv, JournalTypes, ClaimedFirst
<1>3. /\ ledger' \in [Tickets -> [status : LedgerStatuses, filled : Nat]]
      /\ stateStore' \in [open : SUBSET Tickets, filled : [Tickets -> Nat], position : Int]
      /\ FillsAgree'
      /\ booked' = booked \/ booked' = booked \cup {e}
  BY <1>1, <1>2, EventAgrees DEF JournalInv
<1>4. IsFiniteSet(booked') /\ booked' \subseteq FillEvents
  <2>1. IsFiniteSet(booked) /\ booked \subseteq FillEvents
    BY DEF JournalInv, JournalTypes
  <2>2. IsFiniteSet(booked \cup {e})
    BY <2>1, FS_AddElement
  <2>3. QED
    BY <1>3, <2>1, <2>2
<1>5. JournalTypes'
  BY <1>1, <1>3, <1>4 DEF JournalInv, JournalTypes
<1>6. \A d \in Callers : caller'[d] = IF d = c THEN NoEvent ELSE caller[d]
  BY <1>1 DEF JournalInv, JournalTypes
<1>7. ClaimedFirst'
  BY <1>0, <1>1, <1>2, <1>3, <1>6 DEF JournalInv, ClaimedFirst
<1>8. QED
  BY <1>3, <1>5, <1>7 DEF JournalInv

LEMMA ProcessesAgrees == ASSUME JournalInv, NEW e \in FillEvents, Processes(e) PROVE JournalInv'
<1>1. /\ way = "processor" /\ e.id \notin seen /\ LedgerCall(e)
      /\ seen' = seen \cup {e.id} /\ UNCHANGED <<way, journal, caller>>
  BY DEF Processes, LedgerCall
<1>2. e \notin booked /\ \A f \in booked : f.id # e.id
  BY <1>1 DEF JournalInv, ClaimedFirst
<1>3. /\ ledger' \in [Tickets -> [status : LedgerStatuses, filled : Nat]]
      /\ stateStore' \in [open : SUBSET Tickets, filled : [Tickets -> Nat], position : Int]
      /\ FillsAgree'
      /\ booked' = booked \/ booked' = booked \cup {e}
  BY <1>1, <1>2, EventAgrees DEF JournalInv
<1>4. IsFiniteSet(booked') /\ booked' \subseteq FillEvents
  <2>1. IsFiniteSet(booked) /\ booked \subseteq FillEvents
    BY DEF JournalInv, JournalTypes
  <2>2. IsFiniteSet(booked \cup {e})
    BY <2>1, FS_AddElement
  <2>3. QED
    BY <1>3, <2>1, <2>2
<1>5. JournalTypes'
  BY <1>1, <1>3, <1>4 DEF JournalInv, JournalTypes
<1>6. ClaimedFirst'
  BY <1>1, <1>2, <1>3 DEF JournalInv, ClaimedFirst
<1>7. QED
  BY <1>3, <1>5, <1>6 DEF JournalInv

LEMMA DiesAgrees == ASSUME JournalInv, JournalProcessDies PROVE JournalInv'
<1>1. /\ ledger' = [o \in Tickets |-> NoTicket] /\ stateStore' = NothingOpen
      /\ seen' = {} /\ booked' = {} /\ caller' = [c \in Callers |-> NoEvent]
      /\ UNCHANGED <<way, journal>>
  BY DEF JournalProcessDies
<1>2. JournalTypes'
  BY <1>1, FS_EmptySet DEF JournalInv, JournalTypes, NoTicket, NothingOpen, LedgerStatuses
<1>3. ClaimedFirst'
  BY <1>1 DEF ClaimedFirst
<1>4. \A o \in Tickets : ledger'[o].filled = 0 /\ ledger'[o].status = "none"
  BY <1>1 DEF NoTicket
<1>5. \A o \in Tickets : BookedFor(o)' = {}
  BY <1>1 DEF BookedFor
<1>6. Fills' = [o \in Tickets |-> 0]
  BY <1>4 DEF Fills
<1>7. stateStore'.position = SumFunctionOnSet(Fills', Tickets)
  BY <1>1, <1>6, SumOfNone DEF NothingOpen
<1>8. SumFunctionOnSet(Quantities, {}) = 0
  BY SumEmpty
<1>9. FillsAgree'
  BY <1>4, <1>5, <1>7, <1>8 DEF FillsAgree
<1>10. QED
  BY <1>2, <1>3, <1>9 DEF JournalInv

LEMMA JournalPreserved == JournalInv /\ [JournalNext]_journalVars => JournalInv'
<1> SUFFICES ASSUME JournalInv, [JournalNext]_journalVars PROVE JournalInv'
  OBVIOUS
<1>1. ASSUME NEW o \in Tickets,
             CreateTicket(o) \/ \E status \in LedgerAllows(ledger[o].status) : RouteTransition(o, status)
      PROVE  JournalInv'
  BY <1>1, RoutesAgree
<1>2. ASSUME NEW e \in FillEvents, Processes(e) PROVE JournalInv'
  BY <1>2, ProcessesAgrees
<1>3. ASSUME NEW e \in FillEvents, NEW c \in Callers, Journals(c, e) PROVE JournalInv'
  BY <1>3, JournalsAgrees
<1>4. ASSUME NEW c \in Callers, JournalApplies(c) PROVE JournalInv'
  BY <1>4, AppliesAgrees
<1>5. CASE JournalProcessDies
  BY <1>5, DiesAgrees
<1>6. CASE UNCHANGED journalVars
  <2>1. UNCHANGED <<way, ledger, stateStore, journal, seen, caller, booked>>
    BY <1>6 DEF journalVars
  <2>2. Fills' = Fills /\ \A o \in Tickets : BookedFor(o)' = BookedFor(o)
    BY <2>1 DEF Fills, BookedFor
  <2>3. JournalTypes' /\ ClaimedFirst'
    BY <2>1 DEF JournalInv, JournalTypes, ClaimedFirst
  <2>4. FillsAgree'
    BY <2>1, <2>2 DEF JournalInv, FillsAgree
  <2>5. QED
    BY <2>3, <2>4 DEF JournalInv
<1>7. QED
  BY <1>1, <1>2, <1>3, <1>4, <1>5, <1>6 DEF JournalNext

\* However events arrive, twice, late, from several threads, or after the process died
\* between the journal and the ledger: each is booked once at most and by its claim, an
\* order's fill is the sum of what was booked for it and the position the sum of the fills
\* (journaled_execution_adapter.py, execution_event_processor.py, execution_lifecycle.py).
THEOREM FillsCorrect == JournalSpec => []FillsAreBookedOnce
<1>1. ASSUME JournalInv PROVE FillsAreBookedOnce
  <2>1. \A e \in booked :
          /\ e.id \in IF way = "journal" THEN journal ELSE seen
          /\ \A f \in booked \ {e} : f.id # e.id
    BY <1>1 DEF JournalInv, JournalTypes, ClaimedFirst
  <2>2. QED
    BY <1>1, <2>1 DEF JournalInv, FillsAgree, Fills, FillsAreBookedOnce
<1>2. QED
  BY <1>1, JournalInitially, JournalPreserved, PTL DEF JournalSpec

HIDE JournalAssumption

-----------------------------------------------------------------------------
(* Order requests of decisions.                                             *)

USE SignalsAssumption

\* The weights of the evidence for a side, and the function that sums them.
SideWeights(side, r) == [k \in DOMAIN AiWeights |-> IF r[k] = side THEN AiWeights[k] ELSE 0]

SideSum(side, r, H) ==
  H = [s \in SUBSET DOMAIN AiWeights |->
         IF s = {} THEN 0
         ELSE LET k == CHOOSE x \in s : TRUE
              IN  (IF r[k] = side THEN AiWeights[k] ELSE 0) + H[s \ {k}]]

LEMMA WeightsAreFinite ==
  /\ DOMAIN AiWeights = {"ema", "rsi", "macd", "trend", "bos", "choch", "zone"}
  /\ IsFiniteSet(DOMAIN AiWeights)
  /\ \A k \in DOMAIN AiWeights : AiWeights[k] \in Int
<1>1. DOMAIN AiWeights = {"ema", "rsi", "macd", "trend", "bos", "choch", "zone"}
  BY DEF AiWeights
<1>2. IsFiniteSet({"ema", "rsi", "macd", "trend", "bos", "choch", "zone"})
  <2>1. IsFiniteSet({"ema"})
    BY FS_Singleton
  <2>2. \A T, k : IsFiniteSet(T) => IsFiniteSet(T \cup {k})
    BY FS_AddElement
  <2>3. IsFiniteSet({"ema"} \cup {"rsi"})
    BY <2>1, <2>2
  <2>4. IsFiniteSet((({"ema"} \cup {"rsi"}) \cup {"macd"}) \cup {"trend"})
    BY <2>2, <2>3
  <2>5. IsFiniteSet((((((({"ema"} \cup {"rsi"}) \cup {"macd"}) \cup {"trend"})
                        \cup {"bos"}) \cup {"choch"}) \cup {"zone"}))
    BY <2>2, <2>4
  <2>6. QED
    BY <2>5, Zenon
<1>3. \A k \in DOMAIN AiWeights : AiWeights[k] \in Int
  BY DEF AiWeights
<1>4. QED
  BY <1>1, <1>2, <1>3

\* The evidence for a side is a sum, ...
LEMMA EvidenceIs ==
  ASSUME NEW side, NEW r, NEW c
  PROVE  EvidenceFor(side, r, c)
           = SumFunctionOnSet(SideWeights(side, r), DOMAIN AiWeights)
               + (IF c = side THEN ConfluenceQuarters ELSE 0)
<1> DEFINE S == DOMAIN AiWeights
           f == SideWeights(side, r)
<1>1. \A k \in S : f[k] \in Int
  BY WeightsAreFinite DEF SideWeights
<1>2. PICK G : IsSum(G, f, S)
  BY <1>1, WeightsAreFinite, SumExists, Zenon
<1>3. \A s \in SUBSET S : s # {} => (CHOOSE x \in s : TRUE) \in s
  OBVIOUS
<1>4. ASSUME NEW H PROVE SideSum(side, r, H) <=> Computes(H, f, S)
  <2>1. ASSUME NEW s \in SUBSET S, s # {}
        PROVE  LET k == CHOOSE x \in s : TRUE
               IN  f[k] = IF r[k] = side THEN AiWeights[k] ELSE 0
    BY <1>3, <2>1 DEF SideWeights
  <2>2. [s \in SUBSET S |-> IF s = {} THEN 0
           ELSE LET k == CHOOSE x \in s : TRUE
                IN  (IF r[k] = side THEN AiWeights[k] ELSE 0) + H[s \ {k}]]
          = [s \in SUBSET S |-> IF s = {} THEN 0
               ELSE f[CHOOSE x \in s : TRUE] + H[s \ {CHOOSE x \in s : TRUE}]]
    <3> HIDE DEF f, S
    <3>1. QED
      BY <2>1
  <2>3. QED
    BY <2>2 DEF SideSum, Computes
<1>5. SideSum(side, r, G)
  <2>1. Computes(G, f, S)
    <3> HIDE DEF f, S
    <3>1. QED
      BY <1>2, <1>3 DEF IsSum, Computes
  <2>2. QED
    BY <1>4, <2>1
<1>6. SideSum(side, r, CHOOSE H : SideSum(side, r, H))
  BY <1>5
<1>7. (CHOOSE H : SideSum(side, r, H))[S] = SumFunctionOnSet(f, S)
  <2>1. Computes(CHOOSE H : SideSum(side, r, H), f, S)
    BY <1>4, <1>6
  <2>2. (CHOOSE H : SideSum(side, r, H))[S] = G[S]
    <3> HIDE DEF f, S
    <3>1. QED
      BY <1>2, <2>1, SumUnique, WeightsAreFinite DEF S
  <2>3. SumFunctionOnSet(f, S) = G[S]
    <3> HIDE DEF f
    <3>1. QED
      BY <1>2, SumIs, WeightsAreFinite
  <2>4. QED
    BY <2>2, <2>3
<1>8. EvidenceFor(side, r, c)
        = (CHOOSE H : SideSum(side, r, H))[S] + (IF c = side THEN ConfluenceQuarters ELSE 0)
  BY Zenon DEF EvidenceFor, MapThenSumSet, MapThenFoldSet, SideSum
<1>9. QED
  BY <1>7, <1>8

\* ... and a number.
LEMMA EvidenceType ==
  ASSUME NEW side, NEW r, NEW c
  PROVE  EvidenceFor(side, r, c) \in Int
<1>1. \A k \in DOMAIN AiWeights : SideWeights(side, r)[k] \in Int
  BY WeightsAreFinite DEF SideWeights
<1>2. SumFunctionOnSet(SideWeights(side, r), DOMAIN AiWeights) \in Int
  BY <1>1, WeightsAreFinite, SumType
<1>3. QED
  BY <1>2, EvidenceIs, SignalsAssumption

\* A decision of the AI engine follows the greater evidence, of a good context, and no
\* prediction that must agree.
LEMMA AiDecisionsHaveEvidence ==
  ASSUME NEW r, NEW f, NEW c, NEW d, d = AiDecides(r, f, c), d.action \in {"BUY", "SELL"}
  PROVE  /\ r.data = 1
         /\ f.must => f.label \in {"none", d.action}
         /\ LET side == IF d.action = "BUY" THEN 1 ELSE -1
            IN  EvidenceFor(side, r, c) > EvidenceFor(-side, r, c)
<1> DEFINE plain == AiSides(r, c)
<1>1. Hold.action = "HOLD"
  BY DEF Hold, Decided
<1>2. r.data = 1 /\ f.label # "NEUTRAL" /\ plain # Hold
  BY <1>1 DEF AiDecides
<1>3. f = NoForecast => d = plain
  BY <1>2 DEF AiDecides
<1>4. f # NoForecast => d = AiWithForecast(plain, f)
  BY <1>2 DEF AiDecides
<1>5. /\ EvidenceFor(1, r, c) \in Int /\ EvidenceFor(-1, r, c) \in Int
  BY EvidenceType
<1>6. /\ plain.action = Side(EvidenceFor(1, r, c) - EvidenceFor(-1, r, c))
      /\ EvidenceFor(1, r, c) # EvidenceFor(-1, r, c)
  <2> DEFINE bullish == EvidenceFor(1, r, c)
             bearish == EvidenceFor(-1, r, c)
             most == Max({bullish, bearish})
  <2>1. /\ bullish + bearish > 0 /\ 20 * Magnitude(bullish - bearish) >= 3 * (bullish + bearish)
        /\ plain = Decided(Side(bullish - bearish), most, bullish + bearish)
    BY <1>2 DEF AiSides
  <2>2. plain.action = Side(bullish - bearish)
    BY <2>1 DEF Decided
  <2>3. bullish # bearish
    <3>1. SUFFICES ASSUME bullish = bearish PROVE FALSE
      OBVIOUS
    <3>2. bullish - bearish = 0
      BY <1>5, <3>1
    <3>3. Magnitude(0) = 0
      BY DEF Magnitude, Max
    <3>4. QED
      BY <1>5, <2>1, <3>2, <3>3
  <2>4. QED
    BY <2>2, <2>3
<1>7. d.action = plain.action /\ (f.must => f.label \in {"none", d.action})
  <2>1. CASE f = NoForecast
    BY <1>3, <2>1 DEF NoForecast
  <2>2. CASE f # NoForecast
    <3>1. d # Hold
      BY <1>1
    <3>2. ~(f.label # plain.action /\ f.must)
          /\ \E n : d = [plain EXCEPT !.confidence = n]
      BY <1>4, <2>2, <3>1 DEF AiWithForecast
    <3>3. d.action = plain.action
      BY <3>2, <1>2 DEF AiSides, Decided
    <3>4. QED
      BY <3>2, <3>3
  <2>3. QED
    BY <2>1, <2>2
<1>8. LET side == IF d.action = "BUY" THEN 1 ELSE -1
      IN  EvidenceFor(side, r, c) > EvidenceFor(-side, r, c)
  <2>1. CASE EvidenceFor(1, r, c) > EvidenceFor(-1, r, c)
    BY <1>5, <1>6, <1>7, <2>1 DEF Side
  <2>2. CASE EvidenceFor(1, r, c) < EvidenceFor(-1, r, c)
    BY <1>5, <1>6, <1>7, <2>2 DEF Side
  <2>3. QED
    BY <1>5, <1>6, <2>1, <2>2
<1>9. QED
  BY <1>2, <1>7, <1>8

\* A quotient times its divisor is no more than the dividend.
LEMMA QuotientFits ==
  ASSUME NEW n \in Nat, NEW m \in Nat \ {0}
  PROVE  n \div m \in Nat /\ (n \div m) * m <= n
OBVIOUS

\* The lots of a plan lose no more than the money at its stop.
LEMMA LotsFit ==
  ASSUME NEW l, NEW m \in Nat \ {0}, Magnitude(l.entry - l.stop) = m
  PROVE  /\ Lots(l) \in 0..MaxLots
         /\ Lots(l) * LotSize * m <= RiskMoney
<1> DEFINE q == RiskMoney \div (m * LotSize)
<1>1. m * LotSize \in Nat \ {0}
  OBVIOUS
<1>2. q \in Nat /\ q * (m * LotSize) <= RiskMoney
  BY <1>1, QuotientFits
<1>3. Lots(l) = Min({MaxLots, q})
  BY DEF Lots
<1> HIDE DEF q
<1>4. Lots(l) \in 0..MaxLots /\ Lots(l) <= q
  <2>1. \E x \in {MaxLots, q} : \A y \in {MaxLots, q} : x <= y
    BY <1>2
  <2>2. Min({MaxLots, q}) \in {MaxLots, q} /\ \A y \in {MaxLots, q} : Min({MaxLots, q}) <= y
    BY <2>1, Zenon DEF Min
  <2>3. QED
    BY <1>2, <1>3, <2>2
<1>5. Lots(l) * (m * LotSize) <= q * (m * LotSize)
  <2>1. \A a, b, n \in Nat : a <= b => a * n <= b * n
    OBVIOUS
  <2>2. QED
    BY <1>1, <1>2, <1>4, <2>1
<1>6. Lots(l) * LotSize * m = Lots(l) * (m * LotSize)
  BY <1>4
<1>7. QED
  BY <1>1, <1>2, <1>4, <1>5, <1>6

\* An order request of the AI engine has its levels on the right sides, and its size is of
\* whole lots within the money.
LEMMA IntentsKeepTheRules ==
  ASSUME NEW r, NEW d, r.close \in Int, r.range \in Nat \ {0}, d.action \in {"BUY", "SELL"},
         NEW i, i = IntentOf(d, r), i # NoOrderRequest
  PROVE  /\ i.side = d.action
         /\ LET n == IF i.side = "BUY" THEN 1 ELSE -1 IN
            /\ n * (i.entry - i.stop) > 0 /\ n * (i.target - i.entry) > 0
            /\ i.quantity * Magnitude(i.entry - i.stop) <= RiskMoney
            /\ i.quantity % LotSize = 0 /\ i.quantity \in 1..MaxLots * LotSize
<1> DEFINE l == Levels(d.action, r)
           lots == Lots(l)
<1>1. /\ lots > 0
      /\ i = [side |-> d.action, entry |-> l.entry, stop |-> l.stop, target |-> l.target,
              quantity |-> lots * LotSize]
  BY DEF IntentOf
<1>2. /\ l.entry = r.close
      /\ d.action = "BUY" => l.stop = r.close - 3 * r.range /\ l.target = r.close + 6 * r.range
      /\ d.action = "SELL" => l.stop = r.close + 3 * r.range /\ l.target = r.close - 6 * r.range
  BY DEF Levels
<1>3. 3 * r.range \in Nat \ {0} /\ Magnitude(l.entry - l.stop) = 3 * r.range
  <2>1. \A n \in Nat : Magnitude(n) = n /\ Magnitude(-n) = n
    BY DEF Magnitude, Max
  <2>2. l.entry - l.stop \in {3 * r.range, -(3 * r.range)}
    <3>1. CASE d.action = "BUY"
      BY <1>2, <3>1
    <3>2. CASE d.action = "SELL"
      BY <1>2, <3>2
    <3>3. QED
      BY <3>1, <3>2
  <2>3. QED
    BY <2>1, <2>2
<1>4. lots \in 0..MaxLots /\ lots * LotSize * (3 * r.range) <= RiskMoney
  BY <1>3, LotsFit
<1> HIDE DEF l, lots
<1>5. (lots * LotSize) % LotSize = 0 /\ lots * LotSize \in 1..MaxLots * LotSize
  <2>1. \A n \in Nat, m \in Nat \ {0} : (n * m) % m = 0
    OBVIOUS
  <2>2. \A n, k \in Nat, m \in Nat \ {0} : n > 0 /\ n <= k => n * m \in 1..k * m
    OBVIOUS
  <2>3. lots \in Nat /\ lots > 0 /\ lots <= MaxLots /\ MaxLots \in Nat /\ LotSize \in Nat \ {0}
    BY <1>1, <1>4
  <2>4. (lots * LotSize) % LotSize = 0
    BY <2>1, <2>3, Zenon
  <2>5. lots * LotSize \in 1..MaxLots * LotSize
    BY <2>2, <2>3, Zenon
  <2>6. QED
    BY <2>4, <2>5
<1>6. i.quantity * Magnitude(i.entry - i.stop) <= RiskMoney
  BY <1>1, <1>3, <1>4
<1>7. LET n == IF i.side = "BUY" THEN 1 ELSE -1 IN
      n * (i.entry - i.stop) > 0 /\ n * (i.target - i.entry) > 0
  <2>1. CASE d.action = "BUY"
    BY <1>1, <1>2, <2>1
  <2>2. CASE d.action = "SELL"
    BY <1>1, <1>2, <2>2
  <2>3. QED
    BY <2>1, <2>2
<1>8. QED
  BY <1>1, <1>5, <1>6, <1>7

\* Nothing is requested before a decision.
RequestsInv ==
  /\ engine \in Engines
  /\ RequestsKeepTheRules

LEMMA RequestsStart == SignalsInit => RequestsInv
  BY DEF SignalsInit, RequestsInv, RequestsKeepTheRules

LEMMA RequestsPreserved ==
  ASSUME RequestsInv, NEW r \in EngineReadings[engine], NEW f, NEW s, Ask(r, f, s)
  PROVE  RequestsInv'
<1>1. /\ engine' = engine /\ reading' = r /\ forecast' = f
      /\ decision' = Decides(engine, r, f, s)
      /\ engine \in Engines
  BY DEF Ask, RequestsInv
<1>2. CASE engine \in {"ai", "gated"}
  <2> DEFINE c == IF engine = "ai" THEN Confluence(r.ict, r.technical) ELSE 0
  <2>1. SUFFICES ASSUME request' # NoOrderRequest PROVE RequestsKeepTheRules'
    BY <1>1 DEF RequestsInv, RequestsKeepTheRules
  <2>2. request' = IntentOf(decision', r)
    BY <1>2 DEF Ask
  <2>3. decision'.action \in {"BUY", "SELL"}
    BY <2>1, <2>2 DEF IntentOf
  <2>4. decision' = AiDecides(r, f, c)
    <3>1. CASE engine = "ai"
      BY <1>1, <3>1 DEF Decides
    <3>2. CASE engine = "gated"
      <4>1. decision' = GatedDecides(r, f)
        BY <1>1, <3>2 DEF Decides
      <4>2. decision' # Hold
        BY <2>3 DEF Hold, Decided
      <4>3. QED
        BY <3>2, <4>1, <4>2 DEF GatedDecides
    <3>3. QED
      BY <1>2, <3>1, <3>2
  <2>5. /\ r.data = 1
        /\ f.must => f.label \in {"none", decision'.action}
        /\ LET side == IF decision'.action = "BUY" THEN 1 ELSE -1
           IN  EvidenceFor(side, r, c) > EvidenceFor(-side, r, c)
    BY <2>3, <2>4, AiDecisionsHaveEvidence
  <2>6. r.close \in Int /\ r.range \in Nat \ {0}
    <3>1. r \in ReadingsFor(engine) /\ (r.data = 1 => r.range \in Nat \ {0})
      BY <1>1, <1>2
    <3>2. r.close \in Int
      BY <1>2, <3>1 DEF ReadingsFor
    <3>3. QED
      BY <2>5, <3>1, <3>2
  <2>7. /\ request'.side = decision'.action
        /\ LET n == IF request'.side = "BUY" THEN 1 ELSE -1 IN
           /\ n * (request'.entry - request'.stop) > 0
           /\ n * (request'.target - request'.entry) > 0
           /\ request'.quantity * Magnitude(request'.entry - request'.stop) <= RiskMoney
           /\ request'.quantity % LotSize = 0
           /\ request'.quantity \in 1..MaxLots * LotSize
    BY <2>1, <2>2, <2>3, <2>6, IntentsKeepTheRules
  <2>8. QED
    BY <1>1, <2>1, <2>5, <2>7 DEF RequestsKeepTheRules
<1>3. CASE engine = "ensemble"
  <2>1. request' = GuardedRequest(decision', LotSize)
    BY <1>3 DEF Ask
  <2>2. request' # NoOrderRequest => request'.side = decision'.action
    BY <2>1 DEF GuardedRequest, NoOrderRequest
  <2>3. QED
    BY <1>1, <1>3, <2>2 DEF RequestsInv, RequestsKeepTheRules
<1>4. CASE engine \notin {"ai", "gated", "ensemble"}
  <2>1. request' = NoOrderRequest
    BY <1>4 DEF Ask
  <2>2. QED
    BY <1>1, <2>1 DEF RequestsInv, RequestsKeepTheRules
<1>5. QED
  BY <1>2, <1>3, <1>4

\* An order request has the side the evidence decided on, its levels on the right sides,
\* whole lots that lose no more than the money at the stop, and no prediction against it
\* that must agree (build_ai_order_request, calculate_position_size).
THEOREM RequestsCorrect == SignalsSpec => []RequestsKeepTheRules
<1>1. SignalsInit => RequestsInv
  BY RequestsStart
<1>2. RequestsInv /\ [SignalsNext]_signalVars => RequestsInv'
  <2>1. ASSUME RequestsInv, SignalsNext PROVE RequestsInv'
    BY <2>1, RequestsPreserved DEF SignalsNext
  <2>2. ASSUME RequestsInv, UNCHANGED signalVars PROVE RequestsInv'
    BY <2>2 DEF signalVars, RequestsInv, RequestsKeepTheRules
  <2>3. QED
    BY <2>1, <2>2
<1>3. RequestsInv => RequestsKeepTheRules
  BY DEF RequestsInv
<1>4. QED
  BY <1>1, <1>2, <1>3, PTL DEF SignalsSpec

HIDE SignalsAssumption

-----------------------------------------------------------------------------
(* Decisions and the evidence for them.                                     *)

LEMMA QuartersAre == ConfluenceQuarters \in {0, 1, 2, 3, 4} /\ ConfluenceQuarters \in Nat
BY SignalsAssumption

LEMMA EnginesAre ==
  Engines \subseteq
    {"strategy", "ai", "gated", "advice", "ensemble", "ensemble2", "frames", "dsl"}
BY SignalsAssumption

\* What each kind of evidence weighs.
Weight(side, r, c) ==
  (IF r.ema = side THEN 4 ELSE 0) + (IF r.rsi = side THEN 3 ELSE 0)
    + (IF r.macd = side THEN 3 ELSE 0) + (IF r.trend = side THEN 4 ELSE 0)
    + (IF r.bos = side THEN 4 ELSE 0) + (IF r.choch = side THEN 3 ELSE 0)
    + (IF r.zone = side THEN 2 ELSE 0) + (IF c = side THEN ConfluenceQuarters ELSE 0)

LEMMA EvidenceAddsUp ==
  ASSUME NEW side, NEW r, NEW c
  PROVE  EvidenceFor(side, r, c) = Weight(side, r, c)
<1> DEFINE f == SideWeights(side, r)
           Sum(T) == SumFunctionOnSet(f, T)
           S == DOMAIN AiWeights
           A == {"ema"}
           B == A \cup {"rsi"}
           C == B \cup {"macd"}
           D == C \cup {"trend"}
           E == D \cup {"bos"}
           F == E \cup {"choch"}
           G == F \cup {"zone"}
<1>1. /\ f["ema"] = (IF r.ema = side THEN 4 ELSE 0)
      /\ f["rsi"] = (IF r.rsi = side THEN 3 ELSE 0)
      /\ f["macd"] = (IF r.macd = side THEN 3 ELSE 0)
      /\ f["trend"] = (IF r.trend = side THEN 4 ELSE 0)
      /\ f["bos"] = (IF r.bos = side THEN 4 ELSE 0)
      /\ f["choch"] = (IF r.choch = side THEN 3 ELSE 0)
      /\ f["zone"] = (IF r.zone = side THEN 2 ELSE 0)
  BY DEF SideWeights, AiWeights
<1>2. S = G
  BY WeightsAreFinite
<1>3. \A k \in S : f[k] \in Int
  BY WeightsAreFinite DEF SideWeights
<1>4. \A T \in SUBSET S : IsFiniteSet(T)
  BY WeightsAreFinite, FS_Subset
<1> HIDE DEF f, S
<1>5. ASSUME NEW T \in SUBSET S, NEW y \in S, y \notin T
      PROVE  Sum(T \cup {y}) = f[y] + Sum(T)
  <2>1. \A x \in T \cup {y} : f[x] \in Int
    BY <1>3
  <2>2. IsFiniteSet(T)
    BY <1>4
  <2>3. SumFunctionOnSet(f, T \cup {y}) = f[y] + SumFunctionOnSet(f, T)
    BY <1>5, <2>1, <2>2, SumAdds
  <2>4. QED
    BY <2>3
<1>6. {} \in SUBSET S /\ "ema" \in S /\ "ema" \notin {} /\ {} \cup {"ema"} = A
  BY <1>2
<1>7. Sum(A) = f["ema"] + Sum({})
  BY <1>5, <1>6
<1>8. Sum(B) = f["rsi"] + Sum(A)
  BY <1>2, <1>5
<1>9. Sum(C) = f["macd"] + Sum(B)
  BY <1>2, <1>5
<1>10. Sum(D) = f["trend"] + Sum(C)
  BY <1>2, <1>5
<1>11. Sum(E) = f["bos"] + Sum(D)
  BY <1>2, <1>5
<1>12. Sum(F) = f["choch"] + Sum(E)
  BY <1>2, <1>5
<1>13. Sum(G) = f["zone"] + Sum(F)
  BY <1>2, <1>5
<1>14. Sum({}) = 0
  BY SumEmpty
<1>15. EvidenceFor(side, r, c) = Sum(S) + (IF c = side THEN ConfluenceQuarters ELSE 0)
  BY EvidenceIs DEF f, S
<1> HIDE DEF Sum, A, B, C, D, E, F, G
<1>16. QED
  BY <1>1, <1>2, <1>7, <1>8, <1>9, <1>10, <1>11, <1>12, <1>13, <1>14, <1>15 DEF Weight

\* The larger and the smaller of two numbers, the magnitude and the clamp of one.
LEMMA OfTwo ==
  ASSUME NEW x \in Int, NEW y \in Int
  PROVE  Max({x, y}) = (IF x >= y THEN x ELSE y) /\ Min({x, y}) = (IF x <= y THEN x ELSE y)
<1>1. \E u \in {x, y} : \A v \in {x, y} : u >= v
  OBVIOUS
<1>2. \E u \in {x, y} : \A v \in {x, y} : u <= v
  OBVIOUS
<1>3. Max({x, y}) \in {x, y} /\ \A v \in {x, y} : Max({x, y}) >= v
  BY <1>1, Zenon DEF Max
<1>4. Min({x, y}) \in {x, y} /\ \A v \in {x, y} : Min({x, y}) <= v
  BY <1>2, Zenon DEF Min
<1>5. QED
  BY <1>3, <1>4

LEMMA MagnitudeIs ==
  ASSUME NEW x \in Int
  PROVE  Magnitude(x) = (IF x >= 0 THEN x ELSE -x)
BY OfTwo DEF Magnitude

LEMMA ClampIs ==
  ASSUME NEW x \in Int, NEW n \in Nat
  PROVE  Clamp(x, n) = (IF x < -n THEN -n ELSE IF x > n THEN n ELSE x)
<1>1. Min({n, x}) = (IF n <= x THEN n ELSE x)
  BY OfTwo
<1>2. Min({n, x}) \in Int
  BY <1>1
<1>3. Max({-n, Min({n, x})}) = (IF -n >= Min({n, x}) THEN -n ELSE Min({n, x}))
  <2>1. ASSUME NEW y \in Int, NEW z \in Int
        PROVE  Max({y, z}) = (IF y >= z THEN y ELSE z)
    BY OfTwo
  <2>2. -n \in Int
    OBVIOUS
  <2>3. QED
    BY <1>2, <2>1, <2>2
<1>4. QED
  BY <1>1, <1>3 DEF Clamp

\* The confluence is that of the zones, unless the technical one is against it.
LEMMA ConfluenceIs ==
  ASSUME NEW i \in Leaning, NEW t \in Leaning
  PROVE  Confluence(i, t) = (IF i # 0 /\ t # -i THEN i ELSE 0)
<1>1. /\ Magnitude(0) = 0 /\ Magnitude(1) = 1 /\ Magnitude(-1) = 1
      /\ Min({100, 120}) = 100
  <2>1. Magnitude(0) = 0 /\ Magnitude(1) = 1 /\ Magnitude(-1) = 1
    BY MagnitudeIs
  <2>2. Min({100, 120}) = 100
    BY OfTwo
  <2>3. QED
    BY <2>1, <2>2
<1>2. CASE i = 0
  <2>1. t \in {-1, 0, 1}
    BY DEF Leaning
  <2>2. 60 * Magnitude(i) + 40 * Magnitude(t) < 60 /\ i * t = 0
    BY <1>1, <1>2, <2>1
  <2>3. 60 * Magnitude(i) + 40 * Magnitude(t) \in Int
    BY <1>1, <1>2, <2>1
  <2>4. QED
    BY <1>2, <2>2, <2>3 DEF Confluence
<1>3. CASE i # 0 /\ t = 0
  <2>1. i \in {-1, 1}
    BY <1>3 DEF Leaning
  <2>2. 60 * Magnitude(i) + 40 * Magnitude(t) = 60 /\ i * t = 0 /\ i + t = i
    BY <1>1, <1>3, <2>1
  <2>3. QED
    BY <1>3, <2>1, <2>2 DEF Confluence
<1>4. CASE i # 0 /\ t = i
  <2>1. i \in {-1, 1}
    BY <1>4 DEF Leaning
  <2>2. 60 * Magnitude(i) + 40 * Magnitude(t) + 20 = 120
    BY <1>1, <1>4, <2>1
  <2>3. QED
    BY <1>1, <1>4, <2>1, <2>2 DEF Confluence
<1>5. CASE i # 0 /\ t # 0 /\ t # i
  <2>1. t = -i /\ i * t = -1 /\ i \in {-1, 1}
    BY <1>5 DEF Leaning
  <2>2. QED
    BY <1>5, <2>1 DEF Confluence
<1>6. QED
  BY <1>2, <1>3, <1>4, <1>5 DEF Leaning

-----------------------------------------------------------------------------
(* When an engine decides on a side.                                        *)

AnyForecast ==
  [label : {"BUY", "SELL", "NEUTRAL"}, sure : 0..100, symbol : {"same", "other"},
   at : Int, must : BOOLEAN] \cup {NoForecast}

EnsembleScore(r) ==
  (4 - ConfluenceQuarters) * Damped(r, 55 * r.odds + 90 * Clamp(r.points, 5))
    + ConfluenceQuarters * 800 * Clamp(r.points, 5)

Ensemble2Score(r) ==
  Damped(r, 160 * r.odds + 200 * Clamp(r.points, 5)
              + 350 * Clamp(2 * r.structure + r.zones, 4))

FramesScore(r) == 30 * r.day + 10 * r.minutes

ScoreOf(e, r) ==
  CASE e = "strategy" -> Points(r)
    [] e \in {"advice", "dsl"} -> Unified(r)
    [] e = "ensemble" -> EnsembleScore(r)
    [] e = "ensemble2" -> Ensemble2Score(r)
    [] OTHER -> FramesScore(r)

ConfluenceOf(e, r) == IF e = "ai" THEN Confluence(r.ict, r.technical) ELSE 0

\* The evidence an engine finds in a reading for a side, 1 or -1.
WeightOf(e, side, r) ==
  IF e \in {"ai", "gated"} THEN Weight(side, r, ConfluenceOf(e, r))
  ELSE IF side = 1 THEN ScoreOf(e, r) ELSE -ScoreOf(e, r)

\* Whether the engine looks at the evidence.
Looks(e, r) ==
  /\ e \in {"ai", "gated"} => r.data = 1
  /\ e = "gated" => Confluence(r.ict, r.technical) # 0

\* Whether m for a side and o for the other are enough for it, with a prediction.
Enough(e, m, o, f, side) ==
  CASE e = "strategy" ->
         /\ m >= 3
         /\ f # NoForecast =>
              f.symbol = "same" /\ f.at = 0 /\ (f.sure < 55 \/ f.label = side \/ ~f.must)
    [] e \in {"ai", "gated"} ->
         /\ m + o > 0 /\ 2 * m >= 3 * o
         /\ f.label # "NEUTRAL"
         /\ f # NoForecast =>
              IF f.label = side
              THEN f.sure < 55 \/ 1500 * m + 5 * (f.sure * (m + o)) >= 1200 * (m + o)
              ELSE ~f.must /\ m >= 4 * o
    [] e = "advice" ->
         /\ m >= 3600
         /\ f # NoForecast =>
              /\ f.symbol = "same" /\ f.at <= 0
              /\ f.sure >= 55 =>
                   IF f.label = side THEN m + 20 * f.sure >= 4800 ELSE ~f.must /\ m >= 4800
    [] e = "frames" -> m >= 1400
    [] OTHER -> m >= 5600

\* A decision is for the side that has enough.
FollowsWeights(e, r, f, d) ==
  /\ d.action = "BUY" <=>
       Looks(e, r) /\ Enough(e, WeightOf(e, 1, r), WeightOf(e, -1, r), f, "BUY")
  /\ d.action = "SELL" <=>
       Looks(e, r) /\ Enough(e, WeightOf(e, -1, r), WeightOf(e, 1, r), f, "SELL")

LEMMA SideIs ==
  ASSUME NEW x \in Int, NEW t \in Nat \ {0}, NEW n, NEW d
  PROVE  /\ Passing(x, t, n, d).action = "BUY" <=> x >= t
         /\ Passing(x, t, n, d).action = "SELL" <=> -x >= t
         /\ Passing(x, t, n, d) \in {Decided("BUY", n, d), Decided("SELL", n, d),
                                     Decided("HOLD", n, d)}
BY MagnitudeIs DEF Passing, Decided, Side


LEMMA HoldIs == Hold.action = "HOLD" /\ Hold.confidence = <<0, 1>>
BY DEF Hold, Decided

LEMMA PointsAreNumbers ==
  ASSUME NEW r \in ReadingsFor("strategy")
  PROVE  Points(r) \in Int
BY DEF ReadingsFor, Leaning, Points

LEMMA StrategyFollows ==
  ASSUME NEW r \in ReadingsFor("strategy"), r.htf = 2, NEW f \in AnyForecast
  PROVE  FollowsWeights("strategy", r, f, StrategyDecides(r, f))
<1> DEFINE p == Points(r)
           plain == StrategySignal(r)
<1>1. p \in Int
  BY PointsAreNumbers
<1>2. MtfScore(r, p) = 0 /\ ~MtfRefuses(r, p)
  BY DEF MtfScore, MtfRefuses
<1> HIDE DEF p
<1>3. /\ plain.action = "BUY" <=> p >= 3
      /\ plain.action = "SELL" <=> -p >= 3
      /\ plain # Hold => plain.action \in {"BUY", "SELL"} /\ plain.action = Side(p)
  <2>1. /\ p + MtfScore(r, p) = p
        /\ Magnitude(p) = (IF p >= 0 THEN p ELSE -p) /\ Magnitude(p) \in Int
    BY <1>1, <1>2, MagnitudeIs
  <2>2. plain = IF Magnitude(p) < 3 \/ Magnitude(p) < 2 THEN Hold
                ELSE Decided(Side(p), Min({99, 50 + 7 * Magnitude(p)}), 100)
    <3>1. plain = IF Magnitude(p) < 3 \/ MtfRefuses(r, p)
                       \/ Magnitude(p + MtfScore(r, p)) < 2
                  THEN Hold
                  ELSE Decided(Side(p), Min({99, 50 + 7 * Magnitude(p + MtfScore(r, p))}), 100)
      BY Zenon DEF StrategySignal, p
    <3> HIDE DEF plain
    <3>2. QED
      BY <1>2, <2>1, <3>1
  <2>3. QED
    BY <1>1, <2>1, <2>2, HoldIs DEF Decided, Side
<1>4. plain # Hold => \A n : [plain EXCEPT !.confidence = n].action = plain.action
  <2>1. plain # Hold => \E n : plain = Decided(Side(p), n, 100)
    BY DEF StrategySignal, p
  <2>2. QED
    BY <2>1 DEF Decided
<1> HIDE DEF plain
<1>5. CASE f = NoForecast
  <2>1. StrategyDecides(r, f) = plain
    BY <1>5 DEF StrategyDecides, plain
  <2>2. QED
    BY <1>1, <1>3, <1>5, <2>1 DEF FollowsWeights, Looks, Enough, WeightOf, ScoreOf, p
<1>6. CASE f # NoForecast /\ ~(f.symbol = "same" /\ f.at = 0)
  <2>1. StrategyDecides(r, f) = Hold
    BY <1>6 DEF StrategyDecides
  <2>2. QED
    BY <1>6, <2>1, HoldIs DEF FollowsWeights, Enough
<1>7. CASE f # NoForecast /\ f.symbol = "same" /\ f.at = 0
  <2>1. plain = Hold => StrategyDecides(r, f) = Hold
    BY <1>7 DEF StrategyDecides, plain
  <2>2. plain # Hold => StrategyDecides(r, f) = ApplyMl(plain, f)
    BY <1>7 DEF StrategyDecides, plain
  <2>3. f.sure \in Int /\ f.must \in BOOLEAN
    BY <1>7 DEF AnyForecast
  <2>4. plain # Hold =>
          IF f.sure < 55 \/ f.label = plain.action \/ ~f.must
          THEN ApplyMl(plain, f).action = plain.action
          ELSE ApplyMl(plain, f) = Hold
    BY <1>4, <2>3 DEF ApplyMl
  <2>5. QED
    BY <1>1, <1>3, <1>7, <2>1, <2>2, <2>4, HoldIs
    DEF FollowsWeights, Looks, Enough, WeightOf, ScoreOf, p
<1>8. QED
  BY <1>5, <1>6, <1>7

\* The decision of the unified signal.
LEMMA UnifiedIs ==
  ASSUME NEW r, r.smc \in Int, r.confirmation \in Int, r.trend \in Leaning
  PROVE  /\ Unified(r) \in Int
         /\ LET u == Unified(r)
                m == IF u >= 0 THEN u ELSE -u
            IN  IF m >= 1500
                THEN UnifiedSignal(r) = Decided(Side(u), IF m >= 6000 THEN 6000 ELSE m, 6000)
                ELSE UnifiedSignal(r).action = "HOLD"
<1> DEFINE u == Unified(r)
           m == IF u >= 0 THEN u ELSE -u
<1>1. u \in Int
  BY ClampIs DEF Unified, Leaning
<1> HIDE DEF u
<1>2. Magnitude(u) = m /\ m \in Int
  BY <1>1, MagnitudeIs
<1> HIDE DEF m
<1>3. Min({6000, m}) = IF m >= 6000 THEN 6000 ELSE m
  <2>1. \A k \in Int : Min({k, m}) = IF k <= m THEN k ELSE m
    BY <1>2, OfTwo
  <2>2. QED
    BY <1>2, <2>1
<1>4. UnifiedSignal(r) = Passing(u, 1500, IF m >= 6000 THEN 6000 ELSE m, 6000)
  BY <1>2, <1>3 DEF UnifiedSignal, u
<1>5. QED
  BY <1>1, <1>2, <1>4 DEF Passing, Decided, u, m

LEMMA AdviceFollows ==
  ASSUME NEW r \in ReadingsFor("advice"), NEW f \in AnyForecast
  PROVE  FollowsWeights("advice", r, f, AdviceDecides(r, f))
<1> DEFINE u == Unified(r)
           m == IF u >= 0 THEN u ELSE -u
           n == IF m >= 6000 THEN 6000 ELSE m
           d == UnifiedSignal(r)
<1>1. r.smc \in Int /\ r.confirmation \in Int /\ r.trend \in Leaning
  BY DEF ReadingsFor
<1>2. /\ u \in Int
      /\ IF m >= 1500 THEN d = Decided(Side(u), n, 6000) ELSE d.action = "HOLD"
  BY <1>1, UnifiedIs
<1> HIDE DEF u, d
<1>3. m \in Nat /\ n \in Nat /\ (m >= 3600 <=> n >= 3600) /\ (m >= 4800 <=> n >= 4800)
  BY <1>2
<1> HIDE DEF m, n
<1>4. CASE m < 3600
  <2>1. AdviceDecides(r, f) = Hold
    <3>1. CASE m < 1500
      BY <1>2, <1>3, <3>1 DEF AdviceDecides, d
    <3>2. CASE m >= 1500
      <4>1. ~AtLeast(d.confidence, 3, 5)
        BY <1>2, <1>3, <1>4, <3>2 DEF AtLeast, Decided
      <4>2. QED
        BY <4>1 DEF AdviceDecides, d
    <3>3. QED
      BY <1>3, <3>1, <3>2
  <2>2. QED
    BY <1>2, <1>4, <2>1, HoldIs DEF FollowsWeights, Enough, WeightOf, ScoreOf, u, m
<1>5. CASE m >= 3600
  <2> DEFINE side == Side(u)
             advised == IF f = NoForecast THEN d ELSE ApplyMl(d, f)
             keeps == f # NoForecast =>
                        /\ f.symbol = "same" /\ f.at <= 0
                        /\ f.sure >= 55 =>
                             IF f.label = side THEN m + 20 * f.sure >= 4800
                             ELSE ~f.must /\ m >= 4800
  <2>1. /\ d = Decided(side, n, 6000) /\ d.action = side /\ d.confidence = <<n, 6000>>
        /\ side \in {"BUY", "SELL"} /\ AtLeast(d.confidence, 3, 5)
    BY <1>2, <1>3, <1>5 DEF Decided, Side, AtLeast
  <2>2. AdviceDecides(r, f)
          = IF (f # NoForecast /\ ~ValidForecast(f)) \/ ~AtLeast(advised.confidence, 3, 5)
            THEN Hold ELSE advised
    BY <2>1 DEF AdviceDecides, d
  <2>3. IF keeps THEN AdviceDecides(r, f).action = side ELSE AdviceDecides(r, f) = Hold
    <3>1. CASE f = NoForecast
      BY <2>1, <2>2, <3>1
    <3>2. CASE f # NoForecast
      <4>1. f.sure \in 0..100 /\ f.must \in BOOLEAN /\ f.at \in Int
            /\ f.label \in {"BUY", "SELL", "NEUTRAL"}
        BY <3>2 DEF AnyForecast
      <4>2. ValidForecast(f) <=> f.symbol = "same" /\ f.at <= 0
        BY <4>1 DEF ValidForecast
      <4>3. CASE f.sure < 55
        <5>1. advised = d
          BY <3>2, <4>1, <4>3 DEF ApplyMl
        <5>2. QED
          BY <2>1, <2>2, <3>2, <4>1, <4>2, <4>3, <5>1
      <4>4. CASE f.sure >= 55 /\ f.label # side /\ f.must
        <5>1. advised = Hold
          BY <2>1, <3>2, <4>1, <4>4 DEF ApplyMl
        <5>2. QED
          BY <2>2, <3>2, <4>4, <5>1
      <4>5. CASE f.sure >= 55 /\ f.label # side /\ ~f.must
        <5>1. advised = [d EXCEPT !.confidence = <<3 * n, 4 * 6000>>]
          BY <2>1, <3>2, <4>1, <4>5 DEF ApplyMl, Reduced
        <5>2. advised.action = side /\ advised.confidence = <<3 * n, 4 * 6000>>
          BY <2>1, <5>1 DEF Decided
        <5>3. AtLeast(advised.confidence, 3, 5) <=> m >= 4800
          BY <1>3, <5>2 DEF AtLeast
        <5>4. QED
          BY <2>2, <3>2, <4>2, <4>5, <5>2, <5>3
      <4>6. CASE f.sure >= 55 /\ f.label = side
        <5>1. advised = [d EXCEPT !.confidence = <<300 * n + f.sure * 6000, 400 * 6000>>]
          BY <2>1, <3>2, <4>1, <4>6 DEF ApplyMl, Blended
        <5>2. /\ advised.action = side
              /\ advised.confidence = <<300 * n + f.sure * 6000, 400 * 6000>>
          BY <2>1, <5>1 DEF Decided
        <5>3. AtLeast(advised.confidence, 3, 5) <=> m + 20 * f.sure >= 4800
          <6>1. AtLeast(advised.confidence, 3, 5) <=> n + 20 * f.sure >= 4800
            BY <1>3, <4>1, <5>2 DEF AtLeast
          <6>2. QED
            BY <1>3, <4>1, <6>1 DEF n
        <5>4. QED
          BY <2>2, <3>2, <4>2, <4>6, <5>2, <5>3
      <4>7. QED
        BY <4>1, <4>3, <4>4, <4>5, <4>6
    <3>3. QED
      BY <3>1, <3>2
  <2> HIDE DEF keeps
  <2>4. Enough("advice", m, -m, f, side) <=> keeps
    BY <1>5 DEF Enough, keeps
  <2>5. CASE u >= 0
    <3>1. side = "BUY" /\ m = u
      BY <1>2, <1>3, <1>5, <2>5 DEF Side, m
    <3>2. ~Enough("advice", -u, u, f, "SELL")
      BY <1>2, <2>5 DEF Enough
    <3> HIDE DEF side
    <3>3. QED
      BY <1>2, <2>3, <2>4, <3>1, <3>2, HoldIs DEF FollowsWeights, Looks, WeightOf, ScoreOf, u
  <2>6. CASE u < 0
    <3>1. side = "SELL" /\ m = -u
      BY <1>2, <1>3, <1>5, <2>6 DEF Side, m
    <3>2. ~Enough("advice", u, -u, f, "BUY")
      BY <1>2, <2>6 DEF Enough
    <3>3. -m = u
      BY <1>2, <3>1
    <3> HIDE DEF side
    <3>4. QED
      BY <1>2, <2>3, <2>4, <3>1, <3>2, <3>3, HoldIs
      DEF FollowsWeights, Looks, WeightOf, ScoreOf, u
  <2>7. QED
    BY <1>2, <2>5, <2>6
<1>6. QED
  BY <1>3, <1>4, <1>5


LEMMA EnsembleIsNumber ==
  ASSUME NEW r \in ReadingsFor("ensemble")
  PROVE  EnsembleScore(r) \in Int
<1>1. r.odds \in Int /\ r.points \in Int /\ ConfluenceQuarters \in {0, 1, 2, 3, 4}
  BY QuartersAre DEF ReadingsFor
<1>2. Clamp(r.points, 5) \in Int
  BY <1>1, ClampIs
<1>3. Damped(r, 55 * r.odds + 90 * Clamp(r.points, 5)) \in Int
  BY <1>1, <1>2 DEF Damped
<1>4. QED
  BY <1>1, <1>2, <1>3 DEF EnsembleScore

LEMMA Ensemble2IsNumber ==
  ASSUME NEW r \in ReadingsFor("ensemble2")
  PROVE  Ensemble2Score(r) \in Int
<1>1. r.odds \in Int /\ r.points \in Int /\ 2 * r.structure + r.zones \in Int
  BY DEF ReadingsFor, Leaning
<1>2. Clamp(r.points, 5) \in Int /\ Clamp(2 * r.structure + r.zones, 4) \in Int
  BY <1>1, ClampIs
<1>3. QED
  BY <1>1, <1>2 DEF Ensemble2Score, Damped

LEMMA EnsembleFollows ==
  ASSUME NEW r \in ReadingsFor("ensemble"), NEW f
  PROVE  FollowsWeights("ensemble", r, f, EnsembleDecides(r))
<1> DEFINE x == EnsembleScore(r)
<1>1. x \in Int
  BY EnsembleIsNumber
<1>2. EnsembleDecides(r) = Passing(x, 5600, Magnitude(x), 16000)
  BY DEF EnsembleDecides, EnsembleScore
<1> HIDE DEF x
<1>3. /\ EnsembleDecides(r).action = "BUY" <=> x >= 5600
      /\ EnsembleDecides(r).action = "SELL" <=> -x >= 5600
  BY <1>1, <1>2, SideIs
<1>4. QED
  BY <1>3 DEF FollowsWeights, Looks, Enough, WeightOf, ScoreOf, x

LEMMA Ensemble2Follows ==
  ASSUME NEW r \in ReadingsFor("ensemble2"), NEW f
  PROVE  FollowsWeights("ensemble2", r, f, Ensemble2Decides(r))
<1> DEFINE x == Ensemble2Score(r)
<1>1. x \in Int
  BY Ensemble2IsNumber
<1>2. Ensemble2Decides(r) = Passing(x, 5600, Magnitude(x), 16000)
  BY DEF Ensemble2Decides, Ensemble2Score
<1> HIDE DEF x
<1>3. /\ Ensemble2Decides(r).action = "BUY" <=> x >= 5600
      /\ Ensemble2Decides(r).action = "SELL" <=> -x >= 5600
  BY <1>1, <1>2, SideIs
<1>4. QED
  BY <1>3 DEF FollowsWeights, Looks, Enough, WeightOf, ScoreOf, x

LEMMA FramesFollow ==
  ASSUME NEW r \in ReadingsFor("frames"), NEW f
  PROVE  FollowsWeights("frames", r, f, FramesDecide(r))
<1> DEFINE x == FramesScore(r)
<1>1. x \in Int
  BY DEF ReadingsFor, FramesScore
<1>2. FramesDecide(r) = Passing(x, 1400, Magnitude(x), 4000)
  BY DEF FramesDecide, FramesScore
<1> HIDE DEF x
<1>3. /\ FramesDecide(r).action = "BUY" <=> x >= 1400
      /\ FramesDecide(r).action = "SELL" <=> -x >= 1400
  BY <1>1, <1>2, SideIs
<1>4. QED
  BY <1>3 DEF FollowsWeights, Looks, Enough, WeightOf, ScoreOf, x

LEMMA WeightsAreNumbers ==
  ASSUME NEW side, NEW r, NEW c
  PROVE  Weight(side, r, c) \in Nat
BY QuartersAre DEF Weight

\* The AI engine, given a confluence.
LEMMA AiWeighs ==
  ASSUME NEW r, NEW c, NEW f \in AnyForecast
  PROVE  LET d == AiDecides(r, f, c)
             b == Weight(1, r, c)
             s == Weight(-1, r, c)
         IN  /\ d.action = "BUY" <=> r.data = 1 /\ Enough("ai", b, s, f, "BUY")
             /\ d.action = "SELL" <=> r.data = 1 /\ Enough("ai", s, b, f, "SELL")
<1> DEFINE b == Weight(1, r, c)
           s == Weight(-1, r, c)
           d == AiDecides(r, f, c)
           plain == AiSides(r, c)
<1>1. b \in Nat /\ s \in Nat /\ b = EvidenceFor(1, r, c) /\ s = EvidenceFor(-1, r, c)
  BY WeightsAreNumbers, EvidenceAddsUp
<1> HIDE DEF b, s
<1>2. /\ b + s > 0 /\ 2 * b >= 3 * s => plain = Decided("BUY", b, b + s)
      /\ b + s > 0 /\ 2 * s >= 3 * b => plain = Decided("SELL", s, b + s)
      /\ ~(b + s > 0 /\ (2 * b >= 3 * s \/ 2 * s >= 3 * b)) => plain = Hold
  <2>1. /\ Max({b, s}) = IF b >= s THEN b ELSE s
        /\ b - s \in Int
        /\ Magnitude(b - s) = IF b - s >= 0 THEN b - s ELSE -(b - s)
    BY <1>1, OfTwo, MagnitudeIs
  <2>2. plain = IF /\ b + s > 0 /\ 5 * Max({b, s}) >= 3 * (b + s)
                   /\ 20 * Magnitude(b - s) >= 3 * (b + s)
                THEN Decided(Side(b - s), Max({b, s}), b + s) ELSE Hold
    BY <1>1 DEF AiSides
  <2>3. ASSUME b + s > 0, 2 * b >= 3 * s PROVE plain = Decided("BUY", b, b + s)
    BY <1>1, <2>1, <2>2, <2>3 DEF Side
  <2>4. ASSUME b + s > 0, 2 * s >= 3 * b PROVE plain = Decided("SELL", s, b + s)
    BY <1>1, <2>1, <2>2, <2>4 DEF Side
  <2>5. ASSUME ~(b + s > 0 /\ (2 * b >= 3 * s \/ 2 * s >= 3 * b)) PROVE plain = Hold
    BY <1>1, <2>1, <2>2, <2>5
  <2>6. QED
    BY <2>3, <2>4, <2>5
<1>3. /\ r.data # 1 \/ f.label = "NEUTRAL" => d = Hold
      /\ r.data = 1 /\ f.label # "NEUTRAL" /\ (plain = Hold \/ f = NoForecast) => d = plain
      /\ r.data = 1 /\ f.label # "NEUTRAL" /\ plain # Hold /\ f # NoForecast =>
           d = AiWithForecast(plain, f)
  BY DEF AiDecides
<1> HIDE DEF d, plain
<1>4. ASSUME NEW side \in {"BUY", "SELL"}, NEW m \in Nat, NEW o \in Nat,
             m + o > 0, 2 * m >= 3 * o, plain = Decided(side, m, m + o),
             r.data = 1
      PROVE  IF Enough("ai", m, o, f, side) THEN d.action = side ELSE d = Hold
  <2>1. plain.action = side /\ plain.confidence = <<m, m + o>> /\ plain # Hold
    BY <1>4, HoldIs DEF Decided
  <2>2. CASE f = NoForecast
    BY <1>3, <1>4, <2>1, <2>2 DEF Enough, NoForecast
  <2>3. CASE f # NoForecast
    <3>1. f.sure \in 0..100 /\ f.must \in BOOLEAN /\ f.label \in {"BUY", "SELL", "NEUTRAL"}
      BY <2>3 DEF AnyForecast
    <3>2. CASE f.label = "NEUTRAL"
      BY <1>3, <3>2 DEF Enough
    <3>3. CASE f.label # "NEUTRAL"
      <4>1. d = AiWithForecast(plain, f)
        BY <1>3, <1>4, <2>1, <2>3, <3>3
      <4>2. \A n : [plain EXCEPT !.confidence = n].action = side
        BY <1>4 DEF Decided
      <4>3. CASE f.label # side
        <5>1. d = IF f.must \/ ~AtLeast(Reduced(plain.confidence), 3, 5) THEN Hold
                  ELSE [plain EXCEPT !.confidence = Reduced(plain.confidence)]
          BY <2>1, <4>1, <4>3 DEF AiWithForecast
        <5>2. AtLeast(Reduced(plain.confidence), 3, 5) <=> m >= 4 * o
          BY <2>1 DEF AtLeast, Reduced
        <5>3. Enough("ai", m, o, f, side) <=> ~f.must /\ m >= 4 * o
          BY <1>4, <2>3, <3>3, <4>3 DEF Enough
        <5>4. QED
          BY <4>2, <5>1, <5>2, <5>3
      <4>4. CASE f.label = side /\ f.sure >= 55
        <5>1. d = IF ~AtLeast(Blended(plain.confidence, f.sure), 3, 5) THEN Hold
                  ELSE [plain EXCEPT !.confidence = Blended(plain.confidence, f.sure)]
          BY <2>1, <4>1, <4>4 DEF AiWithForecast
        <5>2. AtLeast(Blended(plain.confidence, f.sure), 3, 5)
                <=> 1500 * m + 5 * (f.sure * (m + o)) >= 1200 * (m + o)
          <6> DEFINE y == f.sure * (m + o)
          <6>1. y \in Int
            BY <3>1
          <6>2. Blended(plain.confidence, f.sure) = <<300 * m + y, 400 * (m + o)>>
            BY <2>1 DEF Blended
          <6> HIDE DEF y
          <6>3. AtLeast(Blended(plain.confidence, f.sure), 3, 5)
                  <=> (300 * m + y) * 5 >= 3 * (400 * (m + o))
            BY <6>2 DEF AtLeast
          <6>4. AtLeast(Blended(plain.confidence, f.sure), 3, 5)
                  <=> 1500 * m + 5 * y >= 1200 * (m + o)
            BY <6>1, <6>3
          <6>5. QED
            BY <6>4 DEF y
        <5> DEFINE sure == 1500 * m + 5 * (f.sure * (m + o)) >= 1200 * (m + o)
        <5>3. Enough("ai", m, o, f, side) <=> sure
          <6>1. ~(f.sure < 55)
            BY <3>1, <4>4
          <6>2. QED
            BY <1>4, <2>3, <3>3, <4>4, <6>1 DEF Enough
        <5> HIDE DEF sure
        <5>4. QED
          BY <4>2, <5>1, <5>2, <5>3 DEF sure
      <4>5. CASE f.label = side /\ f.sure < 55
        <5>1. AtLeast(plain.confidence, 3, 5) /\ ~(f.sure >= 55)
          BY <1>4, <2>1, <3>1, <4>5 DEF AtLeast
        <5>2. d = [plain EXCEPT !.confidence = plain.confidence]
          BY <2>1, <4>1, <4>5, <5>1 DEF AiWithForecast
        <5>3. Enough("ai", m, o, f, side)
          BY <1>4, <2>3, <3>3, <4>5 DEF Enough
        <5>4. QED
          BY <4>2, <5>2, <5>3
      <4>6. QED
        BY <3>1, <4>3, <4>4, <4>5
    <3>4. QED
      BY <3>2, <3>3
  <2>4. QED
    BY <2>2, <2>3
<1>5. CASE r.data # 1
  BY <1>3, <1>5, HoldIs DEF d
<1>6. CASE r.data = 1 /\ b + s > 0 /\ 2 * b >= 3 * s
  <2>1. ~Enough("ai", s, b, f, "SELL")
    BY <1>1, <1>6 DEF Enough
  <2>2. IF Enough("ai", b, s, f, "BUY") THEN d.action = "BUY" ELSE d = Hold
    BY <1>1, <1>2, <1>4, <1>6
  <2>3. QED
    BY <1>6, <2>1, <2>2, HoldIs DEF b, s, d
<1>7. CASE r.data = 1 /\ b + s > 0 /\ 2 * s >= 3 * b
  <2>1. ~Enough("ai", b, s, f, "BUY")
    BY <1>1, <1>7 DEF Enough
  <2>2. IF Enough("ai", s, b, f, "SELL") THEN d.action = "SELL" ELSE d = Hold
    <3>1. s + b = b + s
      BY <1>1
    <3>2. QED
      BY <1>1, <1>2, <1>4, <1>7, <3>1
  <2>3. QED
    BY <1>7, <2>1, <2>2, HoldIs DEF b, s, d
<1>8. CASE r.data = 1 /\ ~(b + s > 0 /\ (2 * b >= 3 * s \/ 2 * s >= 3 * b))
  <2>1. ~Enough("ai", b, s, f, "BUY") /\ ~Enough("ai", s, b, f, "SELL")
    BY <1>1, <1>8 DEF Enough
  <2>2. d = Hold
    BY <1>2, <1>3, <1>8
  <2>3. QED
    BY <2>1, <2>2, HoldIs DEF b, s, d
<1>9. QED
  BY <1>5, <1>6, <1>7, <1>8 DEF d, b, s


\* Every engine but those of the DSL decides for the side that has enough.
LEMMA EnginesFollow ==
  ASSUME NEW e \in Engines \ {"dsl"}, NEW r \in ReadingsFor(e), e = "strategy" => r.htf = 2,
         NEW f \in AnyForecast, NEW s
  PROVE  FollowsWeights(e, r, f, Decides(e, r, f, s))
<1>1. CASE e = "strategy"
  BY <1>1, StrategyFollows DEF Decides
<1>2. CASE e = "ai"
  <2>1. Decides(e, r, f, s) = AiDecides(r, f, ConfluenceOf(e, r))
    BY <1>2 DEF Decides, ConfluenceOf
  <2>2. QED
    BY <1>2, <2>1, AiWeighs DEF FollowsWeights, Looks, WeightOf, Enough
<1>3. CASE e = "gated"
  <2>1. Decides(e, r, f, s) = GatedDecides(r, f) /\ ConfluenceOf(e, r) = 0
    BY <1>3 DEF Decides, ConfluenceOf
  <2>2. CASE Confluence(r.ict, r.technical) = 0
    BY <1>3, <2>1, <2>2, HoldIs DEF FollowsWeights, Looks, GatedDecides
  <2>3. CASE Confluence(r.ict, r.technical) # 0
    <3>1. Decides(e, r, f, s) = AiDecides(r, f, 0)
      BY <2>1, <2>3 DEF GatedDecides
    <3>2. QED
      BY <1>3, <2>1, <2>3, <3>1, AiWeighs DEF FollowsWeights, Looks, WeightOf, Enough
  <2>4. QED
    BY <2>2, <2>3
<1>4. CASE e = "advice"
  BY <1>4, AdviceFollows DEF Decides
<1>5. CASE e = "ensemble"
  BY <1>5, EnsembleFollows DEF Decides
<1>6. CASE e = "ensemble2"
  BY <1>6, Ensemble2Follows DEF Decides
<1>7. CASE e = "frames"
  BY <1>7, FramesFollow DEF Decides
<1>8. QED
  BY <1>1, <1>2, <1>3, <1>4, <1>5, <1>6, <1>7, EnginesAre

-----------------------------------------------------------------------------
(* What is enough.                                                          *)

\* Weights of the evidence for a side and for the other.
Weighing(e, m, o) == m \in Int /\ o \in Int /\ (e \in {"ai", "gated"} => m \in Nat /\ o \in Nat)

\* More for the side and less for the other is enough where less was.
LEMMA EnoughGrows ==
  ASSUME NEW e, NEW m, NEW o, NEW m2, NEW o2, Weighing(e, m, o), Weighing(e, m2, o2),
         m2 >= m, o2 <= o, NEW f \in AnyForecast, NEW side, Enough(e, m, o, f, side)
  PROVE  Enough(e, m2, o2, f, side)
<1>1. CASE e \notin {"ai", "gated"}
  <2>1. f # NoForecast => f.sure \in 0..100 /\ f.at \in Int
    BY DEF AnyForecast
  <2>2. QED
    BY <1>1, <2>1 DEF Weighing, Enough
<1>2. CASE e \in {"ai", "gated"}
  <2>1. m \in Nat /\ o \in Nat /\ m2 \in Nat /\ o2 \in Nat
    BY <1>2 DEF Weighing
  <2>2. m + o > 0 /\ 2 * m >= 3 * o /\ f.label # "NEUTRAL"
    BY <1>2 DEF Enough
  <2>3. m2 + o2 > 0 /\ 2 * m2 >= 3 * o2 /\ (m >= 4 * o => m2 >= 4 * o2)
    BY <2>1, <2>2
  <2>4. CASE f = NoForecast
    BY <1>2, <2>2, <2>3, <2>4 DEF Enough
  <2>5. CASE f # NoForecast /\ f.label = side /\ f.sure >= 55
    <3>1. f.sure \in 55..100
      BY <2>5 DEF AnyForecast
    <3>2. 1500 * m + 5 * (f.sure * (m + o)) >= 1200 * (m + o)
      BY <1>2, <2>5, <3>1 DEF Enough
    <3>3. 1500 * m2 + 5 * (f.sure * (m2 + o2)) >= 1200 * (m2 + o2)
      <4>1. CASE f.sure = 55
        BY <2>1, <3>2, <4>1
      <4>2. CASE f.sure = 56
        BY <2>1, <3>2, <4>2
      <4>3. CASE f.sure = 57
        BY <2>1, <3>2, <4>3
      <4>4. CASE f.sure = 58
        BY <2>1, <3>2, <4>4
      <4>5. CASE f.sure = 59
        BY <2>1, <3>2, <4>5
      <4>6. CASE f.sure >= 60
        <5>1. \A a \in 60..100, n \in Nat : a * n >= 60 * n
          OBVIOUS
        <5>2. f.sure * (m2 + o2) >= 60 * (m2 + o2) /\ f.sure * (m2 + o2) \in Int
          BY <2>1, <3>1, <4>6, <5>1
        <5> DEFINE y == f.sure * (m2 + o2)
        <5> HIDE DEF y
        <5>3. y \in Int /\ y >= 60 * (m2 + o2)
          BY <5>2 DEF y
        <5>4. 1500 * m2 + 5 * y >= 1200 * (m2 + o2)
          BY <2>1, <2>3, <5>3
        <5>5. QED
          BY <5>4 DEF y
      <4>7. QED
        BY <3>1, <4>1, <4>2, <4>3, <4>4, <4>5, <4>6
    <3> DEFINE sure == 1500 * m2 + 5 * (f.sure * (m2 + o2)) >= 1200 * (m2 + o2)
    <3> HIDE DEF sure
    <3>4. sure
      BY <3>3 DEF sure
    <3>5. Enough(e, m2, o2, f, side)
            <=> m2 + o2 > 0 /\ 2 * m2 >= 3 * o2 /\ (f.sure < 55 \/ sure)
      BY <1>2, <2>2, <2>5 DEF Enough, sure
    <3>6. QED
      BY <2>3, <3>4, <3>5
  <2>6. CASE f # NoForecast /\ f.label = side /\ f.sure < 55
    BY <1>2, <2>2, <2>3, <2>6 DEF Enough
  <2>7. CASE f # NoForecast /\ f.label # side
    BY <1>2, <2>2, <2>3, <2>7 DEF Enough
  <2>8. QED
    <3>1. f # NoForecast => f.sure \in Int
      BY DEF AnyForecast
    <3>2. QED
      BY <2>4, <2>5, <2>6, <2>7, <3>1
<1>3. QED
  BY <1>1, <1>2

LEMMA ReversedIs ==
  ASSUME NEW f \in AnyForecast
  PROVE  /\ Reversed(f) \in AnyForecast
         /\ Reversed(f) = NoForecast <=> f = NoForecast
         /\ Reversed(f).sure = f.sure /\ Reversed(f).symbol = f.symbol
         /\ Reversed(f).at = f.at /\ Reversed(f).must = f.must
         /\ Reversed(f).label = "BUY" <=> f.label = "SELL"
         /\ Reversed(f).label = "SELL" <=> f.label = "BUY"
         /\ Reversed(f).label = "NEUTRAL" <=> f.label = "NEUTRAL"
         /\ Reversed(f).label \in {"none", "BUY", "SELL", "NEUTRAL"}
<1>1. CASE f = NoForecast
  <2>1. Reversed(f) = NoForecast
    BY <1>1 DEF Reversed, NoForecast
  <2>2. NoForecast.label = "none" /\ NoForecast \in AnyForecast
    BY DEF NoForecast, AnyForecast
  <2>3. QED
    BY <1>1, <2>1, <2>2
<1>2. CASE f # NoForecast
  <2>1. PICK label \in {"BUY", "SELL", "NEUTRAL"}, sure \in 0..100,
             symbol \in {"same", "other"}, at \in Int, must \in BOOLEAN :
               f = [label |-> label, sure |-> sure, symbol |-> symbol, at |-> at,
                    must |-> must]
    <3>1. f \in [label : {"BUY", "SELL", "NEUTRAL"}, sure : 0..100,
                 symbol : {"same", "other"}, at : Int, must : BOOLEAN]
      BY <1>2 DEF AnyForecast
    <3>2. f = [label |-> f.label, sure |-> f.sure, symbol |-> f.symbol, at |-> f.at,
               must |-> f.must]
      BY <3>1
    <3>3. QED
      BY <3>1, <3>2
  <2>2. PICK other \in {"BUY", "SELL", "NEUTRAL"} :
          /\ other = CASE label = "BUY" -> "SELL" [] label = "SELL" -> "BUY" [] OTHER -> label
          /\ Reversed(f) = [label |-> other, sure |-> sure, symbol |-> symbol, at |-> at,
                            must |-> must]
    BY <2>1 DEF Reversed
  <2>3. QED
    BY <1>2, <2>1, <2>2 DEF AnyForecast, NoForecast
<1>3. QED
  BY <1>1, <1>2

\* The sides are alike.
LEMMA EnoughReversed ==
  ASSUME NEW e, NEW m, NEW o, NEW f \in AnyForecast
  PROVE  /\ Enough(e, m, o, f, "BUY") <=> Enough(e, m, o, Reversed(f), "SELL")
         /\ Enough(e, m, o, f, "SELL") <=> Enough(e, m, o, Reversed(f), "BUY")
BY ReversedIs DEF Enough

\* What is enough with a prediction is enough without one, ...
LEMMA EnoughWithout ==
  ASSUME NEW e, NEW m, NEW o, NEW f, NEW side, Enough(e, m, o, f, side)
  PROVE  Enough(e, m, o, NoForecast, side)
BY DEF Enough, NoForecast

\* ... and with one for the side where it is with one against it.
LEMMA EnoughFavours ==
  ASSUME NEW e, NEW m, NEW o, Weighing(e, m, o), NEW f \in AnyForecast, NEW side,
         NEW h \in AnyForecast, f # NoForecast, h # NoForecast, f.label = side,
         h.label \in {"BUY", "SELL"}, h.label # side,
         h.sure = f.sure /\ h.symbol = f.symbol /\ h.at = f.at /\ h.must = f.must,
         side \in {"BUY", "SELL"}, Enough(e, m, o, h, side)
  PROVE  Enough(e, m, o, f, side)
<1>1. f.sure \in 0..100 /\ f.must \in BOOLEAN /\ f.at \in Int
  BY DEF AnyForecast
<1>2. CASE e \notin {"ai", "gated"}
  BY <1>1, <1>2 DEF Weighing, Enough
<1>3. CASE e \in {"ai", "gated"}
  <2> DEFINE y == f.sure * (m + o)
  <2>1. m \in Nat /\ o \in Nat /\ m >= 4 * o /\ m + o > 0 /\ 2 * m >= 3 * o
    BY <1>3 DEF Weighing, Enough
  <2>2. y \in Nat
    BY <1>1, <2>1
  <2> HIDE DEF y
  <2>3. 1500 * m + 5 * y >= 1200 * (m + o)
    BY <2>1, <2>2
  <2> DEFINE sure == 1500 * m + 5 * (f.sure * (m + o)) >= 1200 * (m + o)
  <2>4. sure
    BY <2>3 DEF y
  <2>5. sure => Enough(e, m, o, f, side)
    BY <1>3, <2>1 DEF Enough
  <2>6. QED
    BY <2>4, <2>5
<1>4. QED
  BY <1>2, <1>3


-----------------------------------------------------------------------------
(* Readings with more evidence, and mirrored ones.                          *)

Uncounted == {"volatile", "data", "close", "range", "htf", "said"}

\* A reading of the AI engine.
AiReading ==
  [ema : Leaning, rsi : Leaning, macd : Leaning, trend : Leaning, bos : Leaning,
   choch : Leaning, zone : Leaning, ict : Leaning, technical : Leaning,
   data : {0, 1}, close : Int, range : Nat]

\* The kinds of evidence of a reading, and the readings that differ from it in one.
LEMMA KindsOfEvidence ==
  ASSUME NEW e \in Engines, NEW r \in ReadingsFor(e)
  PROVE  \A k \in DOMAIN r \ Uncounted :
           /\ r[k] \in Int
           /\ k \notin Scores => r[k] \in Leaning
           /\ \A v \in (IF k \in Scores THEN Int ELSE Leaning) :
                [r EXCEPT ![k] = v] \in ReadingsFor(e)
<1>1. CASE e = "strategy"
  BY <1>1 DEF ReadingsFor, Uncounted, Scores, Leaning
<1>2. CASE e \in {"ai", "gated"}
  <2>1. ReadingsFor(e) = AiReading
    BY <1>2 DEF ReadingsFor, AiReading
  <2>2. r \in AiReading
    BY <2>1
  <2>3. DOMAIN r \ Uncounted
          = {"ema", "rsi", "macd", "trend", "bos", "choch", "zone", "ict", "technical"}
    BY <2>2 DEF AiReading, Uncounted
  <2>4. r.ema \in Leaning /\ \A v \in Leaning : [r EXCEPT !.ema = v] \in AiReading
    BY <2>2 DEF AiReading
  <2>5. r.rsi \in Leaning /\ \A v \in Leaning : [r EXCEPT !.rsi = v] \in AiReading
    BY <2>2 DEF AiReading
  <2>6. r.macd \in Leaning /\ \A v \in Leaning : [r EXCEPT !.macd = v] \in AiReading
    BY <2>2 DEF AiReading
  <2>7. r.trend \in Leaning /\ \A v \in Leaning : [r EXCEPT !.trend = v] \in AiReading
    BY <2>2 DEF AiReading
  <2>8. r.bos \in Leaning /\ \A v \in Leaning : [r EXCEPT !.bos = v] \in AiReading
    BY <2>2 DEF AiReading
  <2>9. r.choch \in Leaning /\ \A v \in Leaning : [r EXCEPT !.choch = v] \in AiReading
    BY <2>2 DEF AiReading
  <2>10. r.zone \in Leaning /\ \A v \in Leaning : [r EXCEPT !.zone = v] \in AiReading
    BY <2>2 DEF AiReading
  <2>11. r.ict \in Leaning /\ \A v \in Leaning : [r EXCEPT !.ict = v] \in AiReading
    BY <2>2 DEF AiReading
  <2>12. r.technical \in Leaning /\ \A v \in Leaning : [r EXCEPT !.technical = v] \in AiReading
    BY <2>2 DEF AiReading
  <2>13. \A k \in DOMAIN r \ Uncounted :
           /\ r[k] \in Leaning /\ k \notin Scores
           /\ \A v \in Leaning : [r EXCEPT ![k] = v] \in AiReading
    BY <2>3, <2>4, <2>5, <2>6, <2>7, <2>8, <2>9, <2>10, <2>11, <2>12 DEF Scores
  <2>14. \A k \in DOMAIN r \ Uncounted : r[k] \in Int
    <3>1. \A v \in Leaning : v \in Int
      BY DEF Leaning
    <3>2. QED
      BY <2>13, <3>1, Zenon
  <2>15. QED
    BY <2>1, <2>13, <2>14
<1>3. CASE e \in {"advice", "dsl"}
  <2>1. DOMAIN r \ Uncounted = {"smc", "confirmation", "trend"}
    BY <1>3 DEF ReadingsFor, Uncounted
  <2>2. r.smc \in Int /\ \A v \in Int : [r EXCEPT !.smc = v] \in ReadingsFor(e)
    BY <1>3 DEF ReadingsFor
  <2>3. r.confirmation \in Int /\ \A v \in Int : [r EXCEPT !.confirmation = v] \in ReadingsFor(e)
    BY <1>3 DEF ReadingsFor
  <2>4. r.trend \in Leaning /\ \A v \in Leaning : [r EXCEPT !.trend = v] \in ReadingsFor(e)
    BY <1>3 DEF ReadingsFor
  <2>5. QED
    BY <2>1, <2>2, <2>3, <2>4 DEF Scores, Leaning
<1>4. CASE e = "ensemble"
  <2>1. DOMAIN r \ Uncounted = {"odds", "points"}
    BY <1>4 DEF ReadingsFor, Uncounted
  <2>2. r.odds \in Int /\ \A v \in Int : [r EXCEPT !.odds = v] \in ReadingsFor(e)
    BY <1>4 DEF ReadingsFor
  <2>3. r.points \in Int /\ \A v \in Int : [r EXCEPT !.points = v] \in ReadingsFor(e)
    BY <1>4 DEF ReadingsFor
  <2>4. QED
    BY <2>1, <2>2, <2>3 DEF Scores, Leaning
<1>5. CASE e = "ensemble2"
  <2>1. DOMAIN r \ Uncounted = {"odds", "points", "zones", "structure"}
    BY <1>5 DEF ReadingsFor, Uncounted
  <2>2. r.odds \in Int /\ \A v \in Int : [r EXCEPT !.odds = v] \in ReadingsFor(e)
    BY <1>5 DEF ReadingsFor
  <2>3. r.points \in Int /\ \A v \in Int : [r EXCEPT !.points = v] \in ReadingsFor(e)
    BY <1>5 DEF ReadingsFor
  <2>4. r.zones \in Int /\ \A v \in Int : [r EXCEPT !.zones = v] \in ReadingsFor(e)
    BY <1>5 DEF ReadingsFor
  <2>5. r.structure \in Leaning /\ \A v \in Leaning : [r EXCEPT !.structure = v] \in ReadingsFor(e)
    BY <1>5 DEF ReadingsFor
  <2>6. QED
    BY <2>1, <2>2, <2>3, <2>4, <2>5 DEF Scores, Leaning
<1>6. CASE e = "frames"
  <2>1. DOMAIN r \ Uncounted = {"day", "minutes"}
    BY <1>6 DEF ReadingsFor, Uncounted
  <2>2. r.day \in Int /\ \A v \in Int : [r EXCEPT !.day = v] \in ReadingsFor(e)
    BY <1>6 DEF ReadingsFor
  <2>3. r.minutes \in Int /\ \A v \in Int : [r EXCEPT !.minutes = v] \in ReadingsFor(e)
    BY <1>6 DEF ReadingsFor
  <2>4. QED
    BY <2>1, <2>2, <2>3 DEF Scores, Leaning
<1>7. QED
  BY <1>1, <1>2, <1>3, <1>4, <1>5, <1>6, EnginesAre

\* x has all the evidence of r, or more of it for the bulls.
NoLess(x, r) ==
  /\ DOMAIN x = DOMAIN r
  /\ \A k \in DOMAIN r : IF k \in Evidence THEN x[k] >= r[k] ELSE x[k] = r[k]

LEMMA MoreBullishIs ==
  ASSUME engine \in Engines, reading \in ReadingsFor(engine), NEW x \in MoreBullish
  PROVE  x \in ReadingsFor(engine) /\ NoLess(x, reading)
<1>1. Evidence \subseteq DOMAIN reading \ Uncounted
  BY DEF Evidence, Uncounted
<1>10. PICK k \in Evidence :
         \E n \in (reading[k] + 1)..(IF k \in Scores THEN reading[k] + 2 ELSE 1) :
           x = [reading EXCEPT ![k] = n]
  BY DEF MoreBullish
<1>2. PICK n \in (reading[k] + 1)..(IF k \in Scores THEN reading[k] + 2 ELSE 1) :
        x = [reading EXCEPT ![k] = n]
  BY <1>10
<1>3. \A j \in DOMAIN reading \ Uncounted : reading[j] \in Int
  BY KindsOfEvidence
<1>4. reading[k] \in Int /\ n > reading[k] /\ n \in Int
  BY <1>1, <1>2, <1>3
<1>5. k \notin Scores => n \in Leaning
  <2>1. k \notin Scores => reading[k] \in Leaning
    BY <1>1, KindsOfEvidence
  <2>2. QED
    BY <1>2, <1>4, <2>1 DEF Leaning
<1>6. [reading EXCEPT ![k] = n] \in ReadingsFor(engine)
  BY <1>1, <1>4, <1>5, KindsOfEvidence
<1>7. NoLess(x, reading)
  BY <1>1, <1>2, <1>3, <1>4 DEF NoLess
<1>8. QED
  BY <1>2, <1>6, <1>7

LEMMA ClampGrows ==
  ASSUME NEW x \in Int, NEW y \in Int, x <= y, NEW n \in Nat
  PROVE  Clamp(x, n) <= Clamp(y, n) /\ Clamp(x, n) \in Int /\ Clamp(y, n) \in Int
BY ClampIs

\* The scores grow with the evidence.
LEMMA ScoresGrow ==
  ASSUME engine \in Engines \ {"ai", "gated"}, reading \in ReadingsFor(engine),
         NEW x \in ReadingsFor(engine), NoLess(x, reading)
  PROVE  /\ ScoreOf(engine, x) \in Int /\ ScoreOf(engine, reading) \in Int
         /\ ScoreOf(engine, x) >= ScoreOf(engine, reading)
<1> DEFINE r == reading
<1>1. CASE engine = "strategy"
  <2>1. /\ r.bos \in Leaning /\ r.choch \in Leaning /\ r.sweep \in Leaning
        /\ r.gap \in Leaning /\ r.block \in Leaning /\ r.zone \in Leaning
        /\ r.price \in Leaning
        /\ x.bos \in Leaning /\ x.choch \in Leaning /\ x.sweep \in Leaning
        /\ x.gap \in Leaning /\ x.block \in Leaning /\ x.zone \in Leaning
        /\ x.price \in Leaning
    BY <1>1 DEF ReadingsFor
  <2>2. Evidence = {"bos", "choch", "sweep", "gap", "block", "zone", "price"}
    BY <1>1 DEF Evidence, ReadingsFor
  <2>3. /\ x.bos >= r.bos /\ x.choch >= r.choch /\ x.sweep >= r.sweep /\ x.gap >= r.gap
        /\ x.block >= r.block /\ x.zone >= r.zone /\ x.price >= r.price
    BY <1>1, <2>2 DEF NoLess, ReadingsFor
  <2>4. ScoreOf(engine, x) = Points(x) /\ ScoreOf(engine, r) = Points(r)
    BY <1>1 DEF ScoreOf
  <2>5. Points(x) \in Int /\ Points(r) \in Int
    BY <1>1, PointsAreNumbers
  <2> HIDE DEF r
  <2>6. Points(x) >= Points(r)
    BY <2>1, <2>3 DEF Points, Leaning
  <2>7. QED
    BY <2>4, <2>5, <2>6 DEF r
<1>2. CASE engine \in {"advice", "dsl"}
  <2>1. /\ r.smc \in Int /\ r.confirmation \in Int /\ r.trend \in Leaning
        /\ x.smc \in Int /\ x.confirmation \in Int /\ x.trend \in Leaning
    BY <1>2 DEF ReadingsFor
  <2>2. {"smc", "confirmation", "trend"} \subseteq Evidence
    BY <1>2 DEF Evidence, ReadingsFor
  <2>3. x.smc >= r.smc /\ x.confirmation >= r.confirmation /\ x.trend >= r.trend
    BY <1>2, <2>2 DEF NoLess, ReadingsFor
  <2>4. ScoreOf(engine, x) = Unified(x) /\ ScoreOf(engine, r) = Unified(r)
    BY <1>2 DEF ScoreOf
  <2>5. /\ Clamp(r.smc, 10) <= Clamp(x.smc, 10)
        /\ Clamp(r.confirmation, 6) <= Clamp(x.confirmation, 6)
        /\ Clamp(r.smc, 10) \in Int /\ Clamp(x.smc, 10) \in Int
        /\ Clamp(r.confirmation, 6) \in Int /\ Clamp(x.confirmation, 6) \in Int
    BY <2>1, <2>3, ClampGrows
  <2> HIDE DEF r
  <2>6. Unified(x) >= Unified(r) /\ Unified(x) \in Int /\ Unified(r) \in Int
    BY <2>1, <2>3, <2>5 DEF Unified, Leaning
  <2>7. QED
    BY <2>4, <2>6 DEF r
<1>3. CASE engine = "ensemble"
  <2>1. /\ r.odds \in Int /\ r.points \in Int /\ r.volatile \in {0, 1}
        /\ x.odds \in Int /\ x.points \in Int
    BY <1>3 DEF ReadingsFor
  <2>2. "odds" \in Evidence /\ "points" \in Evidence /\ "volatile" \notin Evidence
    BY <1>3 DEF Evidence, ReadingsFor
  <2>3. x.odds >= r.odds /\ x.points >= r.points /\ x.volatile = r.volatile
    BY <1>3, <2>2 DEF NoLess, ReadingsFor
  <2>4. ScoreOf(engine, x) = EnsembleScore(x) /\ ScoreOf(engine, r) = EnsembleScore(r)
    BY <1>3 DEF ScoreOf
  <2> DEFINE a == Clamp(r.points, 5)
             b == Clamp(x.points, 5)
             c == Damped(r, 55 * r.odds + 90 * a)
             d == Damped(x, 55 * x.odds + 90 * b)
  <2>5. a <= b /\ a \in Int /\ b \in Int
    BY <2>1, <2>3, ClampGrows
  <2>6. EnsembleScore(r) = (4 - ConfluenceQuarters) * c + ConfluenceQuarters * 800 * a
        /\ EnsembleScore(x) = (4 - ConfluenceQuarters) * d + ConfluenceQuarters * 800 * b
    BY DEF EnsembleScore
  <2> HIDE DEF r, a, b
  <2>7. c <= d /\ c \in Int /\ d \in Int
    BY <2>1, <2>3, <2>5 DEF Damped
  <2> HIDE DEF c, d
  <2>8. ConfluenceQuarters \in {0, 1, 2, 3, 4}
    BY QuartersAre
  <2>9. EnsembleScore(r) <= EnsembleScore(x) /\ EnsembleScore(r) \in Int
        /\ EnsembleScore(x) \in Int
    BY <2>5, <2>6, <2>7, <2>8
  <2>10. QED
    BY <2>4, <2>9 DEF r
<1>4. CASE engine = "ensemble2"
  <2>1. /\ r.odds \in Int /\ r.points \in Int /\ r.zones \in Int /\ r.structure \in Leaning
        /\ r.volatile \in {0, 1}
        /\ x.odds \in Int /\ x.points \in Int /\ x.zones \in Int /\ x.structure \in Leaning
    BY <1>4 DEF ReadingsFor
  <2>2. /\ {"odds", "points", "zones", "structure"} \subseteq Evidence
        /\ "volatile" \notin Evidence
    BY <1>4 DEF Evidence, ReadingsFor
  <2>3. /\ x.odds >= r.odds /\ x.points >= r.points /\ x.zones >= r.zones
        /\ x.structure >= r.structure /\ x.volatile = r.volatile
    BY <1>4, <2>2 DEF NoLess, ReadingsFor
  <2>4. ScoreOf(engine, x) = Ensemble2Score(x) /\ ScoreOf(engine, r) = Ensemble2Score(r)
    BY <1>4 DEF ScoreOf
  <2> HIDE DEF r
  <2>5. /\ 2 * r.structure + r.zones \in Int /\ 2 * x.structure + x.zones \in Int
        /\ 2 * r.structure + r.zones <= 2 * x.structure + x.zones
    BY <2>1, <2>3 DEF Leaning
  <2> DEFINE a == Clamp(r.points, 5)
             b == Clamp(x.points, 5)
             c == Clamp(2 * r.structure + r.zones, 4)
             d == Clamp(2 * x.structure + x.zones, 4)
  <2>6. a <= b /\ a \in Int /\ b \in Int
    BY <2>1, <2>3, ClampGrows
  <2>7. c <= d /\ c \in Int /\ d \in Int
    BY <2>5, ClampGrows
  <2>8. /\ Ensemble2Score(r) = Damped(r, 160 * r.odds + 200 * a + 350 * c)
        /\ Ensemble2Score(x) = Damped(x, 160 * x.odds + 200 * b + 350 * d)
    BY DEF Ensemble2Score
  <2> HIDE DEF a, b, c, d
  <2>9. Ensemble2Score(r) <= Ensemble2Score(x) /\ Ensemble2Score(r) \in Int
        /\ Ensemble2Score(x) \in Int
    BY <2>1, <2>3, <2>6, <2>7, <2>8 DEF Damped
  <2>10. QED
    BY <2>4, <2>9 DEF r
<1>5. CASE engine = "frames"
  <2>1. r.day \in Int /\ r.minutes \in Int /\ x.day \in Int /\ x.minutes \in Int
    BY <1>5 DEF ReadingsFor
  <2>2. "day" \in Evidence /\ "minutes" \in Evidence
    BY <1>5 DEF Evidence, ReadingsFor
  <2>3. x.day >= r.day /\ x.minutes >= r.minutes
    BY <1>5, <2>2 DEF NoLess, ReadingsFor
  <2>4. QED
    BY <1>5, <2>1, <2>3 DEF ScoreOf, FramesScore
<1>6. QED
  BY <1>1, <1>2, <1>3, <1>4, <1>5, EnginesAre


\* What of one kind of evidence is for a side.
Part(v, side, w) == IF v = side THEN w ELSE 0

LEMMA PartsGrow ==
  ASSUME NEW u \in Leaning, NEW v \in Leaning, u <= v, NEW w \in Nat
  PROVE  /\ Part(u, 1, w) <= Part(v, 1, w) /\ Part(v, -1, w) <= Part(u, -1, w)
         /\ \A a \in {u, v}, side \in {1, -1} : Part(a, side, w) \in Int
BY DEF Part, Leaning

LEMMA WeightIs ==
  ASSUME NEW side, NEW r, NEW c
  PROVE  Weight(side, r, c)
           = Part(r.ema, side, 4) + Part(r.rsi, side, 3) + Part(r.macd, side, 3)
               + Part(r.trend, side, 4) + Part(r.bos, side, 4) + Part(r.choch, side, 3)
               + Part(r.zone, side, 2) + Part(c, side, ConfluenceQuarters)
BY Zenon DEF Weight, Part

LEMMA ConfluencesGrow ==
  ASSUME NEW i \in Leaning, NEW t \in Leaning, NEW j \in Leaning, NEW u \in Leaning,
         i <= j, t <= u
  PROVE  /\ Confluence(i, t) <= Confluence(j, u)
         /\ Confluence(-i, -t) = -Confluence(i, t)
         /\ Confluence(i, t) \in Leaning /\ Confluence(j, u) \in Leaning
<1>1. -i \in Leaning /\ -t \in Leaning /\ -(-i) = i
  BY DEF Leaning
<1>2. /\ Confluence(i, t) = (IF i # 0 /\ t # -i THEN i ELSE 0)
      /\ Confluence(j, u) = (IF j # 0 /\ u # -j THEN j ELSE 0)
      /\ Confluence(-i, -t) = (IF -i # 0 /\ -t # i THEN -i ELSE 0)
  BY <1>1, ConfluenceIs
<1>3. QED
  BY <1>2 DEF Leaning

\* The kinds of evidence the AI engine weighs, and the confluence.
LEMMA AiEvidenceIs ==
  ASSUME engine \in {"ai", "gated"}, reading \in ReadingsFor(engine)
  PROVE  /\ ReadingsFor(engine) = AiReading
         /\ {"ema", "rsi", "macd", "trend", "bos", "choch", "zone"} \subseteq Evidence
         /\ {"data", "close", "range"} \cap Evidence = {}
         /\ engine = "ai" => {"ict", "technical"} \subseteq Evidence
         /\ engine = "gated" => {"ict", "technical"} \cap Evidence = {}
         /\ DOMAIN reading = {"ema", "rsi", "macd", "trend", "bos", "choch", "zone", "ict",
                              "technical", "data", "close", "range"}
<1>1. ReadingsFor(engine) = AiReading
  BY DEF ReadingsFor, AiReading
<1>2. DOMAIN reading = {"ema", "rsi", "macd", "trend", "bos", "choch", "zone", "ict",
                        "technical", "data", "close", "range"}
  BY <1>1 DEF AiReading
<1>3. QED
  BY <1>1, <1>2 DEF Evidence

LEMMA AiWeightsGrow ==
  ASSUME engine \in {"ai", "gated"}, reading \in ReadingsFor(engine),
         NEW x \in ReadingsFor(engine), NoLess(x, reading)
  PROVE  /\ WeightOf(engine, 1, x) >= WeightOf(engine, 1, reading)
         /\ WeightOf(engine, -1, x) <= WeightOf(engine, -1, reading)
         /\ Looks(engine, x) <=> Looks(engine, reading)
<1> DEFINE r == reading
           c == ConfluenceOf(engine, r)
           d == ConfluenceOf(engine, x)
<1>1. /\ r.ema \in Leaning /\ r.rsi \in Leaning /\ r.macd \in Leaning /\ r.trend \in Leaning
      /\ r.bos \in Leaning /\ r.choch \in Leaning /\ r.zone \in Leaning
      /\ r.ict \in Leaning /\ r.technical \in Leaning
      /\ x.ema \in Leaning /\ x.rsi \in Leaning /\ x.macd \in Leaning /\ x.trend \in Leaning
      /\ x.bos \in Leaning /\ x.choch \in Leaning /\ x.zone \in Leaning
      /\ x.ict \in Leaning /\ x.technical \in Leaning
  <2>1. r \in AiReading /\ x \in AiReading
    BY AiEvidenceIs
  <2> HIDE DEF r
  <2>2. QED
    BY <2>1 DEF AiReading
<1>2. /\ r.ema <= x.ema /\ r.rsi <= x.rsi /\ r.macd <= x.macd /\ r.trend <= x.trend
      /\ r.bos <= x.bos /\ r.choch <= x.choch /\ r.zone <= x.zone
      /\ r.data = x.data
      /\ engine = "gated" => r.ict = x.ict /\ r.technical = x.technical
      /\ engine = "ai" => r.ict <= x.ict /\ r.technical <= x.technical
  <2>1. \A k \in {"ema", "rsi", "macd", "trend", "bos", "choch", "zone"} : x[k] >= r[k]
    BY AiEvidenceIs DEF NoLess
  <2>2. x["data"] = r["data"]
    BY AiEvidenceIs DEF NoLess
  <2>3. engine = "gated" => \A k \in {"ict", "technical"} : x[k] = r[k]
    BY AiEvidenceIs DEF NoLess
  <2>4. engine = "ai" => \A k \in {"ict", "technical"} : x[k] >= r[k]
    BY AiEvidenceIs DEF NoLess
  <2>5. QED
    BY <1>1, <2>1, <2>2, <2>3, <2>4 DEF Leaning
<1>3. c \in Leaning /\ d \in Leaning /\ c <= d
  <2>1. CASE engine = "ai"
    BY <1>1, <1>2, <2>1, ConfluencesGrow DEF ConfluenceOf
  <2>2. CASE engine = "gated"
    BY <2>2 DEF ConfluenceOf, Leaning
  <2>3. QED
    BY <2>1, <2>2
<1>4. Looks(engine, x) <=> Looks(engine, r)
  BY <1>2 DEF Looks
<1> HIDE DEF r, c, d
<1>5. ConfluenceQuarters \in Nat
  BY QuartersAre
<1>6. /\ Weight(1, r, c) <= Weight(1, x, d)
      /\ Weight(-1, x, d) <= Weight(-1, r, c)
  <2> DEFINE G(u, v, w) == /\ Part(u, 1, w) <= Part(v, 1, w)
                           /\ Part(v, -1, w) <= Part(u, -1, w)
                           /\ Part(u, 1, w) \in Int /\ Part(v, 1, w) \in Int
                           /\ Part(u, -1, w) \in Int /\ Part(v, -1, w) \in Int
  <2>1. \A u, v \in Leaning, w \in Nat : u <= v => G(u, v, w)
    BY PartsGrow
  <2> HIDE DEF G
  <2>2. /\ G(r.ema, x.ema, 4) /\ G(r.rsi, x.rsi, 3) /\ G(r.macd, x.macd, 3)
        /\ G(r.trend, x.trend, 4) /\ G(r.bos, x.bos, 4) /\ G(r.choch, x.choch, 3)
        /\ G(r.zone, x.zone, 2) /\ G(c, d, ConfluenceQuarters)
    BY <1>1, <1>2, <1>3, <1>5, <2>1
  <2>3. QED
    BY <2>2, WeightIs DEF G
<1>7. QED
  BY <1>4, <1>6 DEF WeightOf, r, c, d

\* More evidence for the bulls weighs more for them and less for the bears.
LEMMA WeightsGrow ==
  ASSUME engine \in Engines, reading \in ReadingsFor(engine), NEW x \in MoreBullish
  PROVE  /\ x \in ReadingsFor(engine)
         /\ WeightOf(engine, 1, x) >= WeightOf(engine, 1, reading)
         /\ WeightOf(engine, -1, x) <= WeightOf(engine, -1, reading)
         /\ Looks(engine, x) <=> Looks(engine, reading)
         /\ engine = "strategy" => x.htf = reading.htf
<1>1. x \in ReadingsFor(engine) /\ NoLess(x, reading)
  BY MoreBullishIs
<1>2. engine = "strategy" => x.htf = reading.htf
  <2>1. engine = "strategy" => "htf" \in DOMAIN reading \ Evidence
    BY DEF ReadingsFor, Evidence
  <2>2. QED
    BY <1>1, <2>1 DEF NoLess
<1>3. CASE engine \in {"ai", "gated"}
  BY <1>1, <1>2, <1>3, AiWeightsGrow
<1>4. CASE engine \notin {"ai", "gated"}
  <2>1. /\ ScoreOf(engine, x) \in Int /\ ScoreOf(engine, reading) \in Int
        /\ ScoreOf(engine, x) >= ScoreOf(engine, reading)
    BY <1>1, <1>4, ScoresGrow
  <2>2. QED
    BY <1>1, <1>2, <1>4, <2>1 DEF WeightOf, Looks
<1>5. QED
  BY <1>3, <1>4

LEMMA WeighingIs ==
  ASSUME NEW e \in Engines, NEW r \in ReadingsFor(e)
  PROVE  Weighing(e, WeightOf(e, 1, r), WeightOf(e, -1, r))
         /\ Weighing(e, WeightOf(e, -1, r), WeightOf(e, 1, r))
<1>1. CASE e \in {"ai", "gated"}
  BY <1>1, WeightsAreNumbers DEF Weighing, WeightOf
<1>2. CASE e \notin {"ai", "gated"}
  <2>1. ScoreOf(e, r) \in Int
    <3>1. CASE e = "strategy"
      BY <3>1, PointsAreNumbers DEF ScoreOf
    <3>2. CASE e \in {"advice", "dsl"}
      <4>1. r.smc \in Int /\ r.confirmation \in Int /\ r.trend \in Leaning
        BY <3>2 DEF ReadingsFor
      <4>2. QED
        BY <3>2, <4>1, UnifiedIs DEF ScoreOf
    <3>3. CASE e = "ensemble"
      BY <3>3, EnsembleIsNumber DEF ScoreOf
    <3>4. CASE e = "ensemble2"
      BY <3>4, Ensemble2IsNumber DEF ScoreOf
    <3>5. CASE e = "frames"
      BY <3>5 DEF ReadingsFor, ScoreOf, FramesScore
    <3>6. QED
      BY <1>2, <3>1, <3>2, <3>3, <3>4, <3>5, EnginesAre
  <2>2. QED
    BY <1>2, <2>1 DEF Weighing, WeightOf
<1>3. QED
  BY <1>1, <1>2


LEMMA MirroredIs ==
  ASSUME engine \in Engines, reading \in ReadingsFor(engine)
  PROVE  /\ \A k \in DOMAIN reading :
              Mirrored[k] = IF k \in Evidence THEN -reading[k] ELSE reading[k]
         /\ Mirrored \in ReadingsFor(engine)
<1>1. /\ DOMAIN Mirrored = DOMAIN reading
      /\ \A k \in DOMAIN reading :
           Mirrored[k] = IF k \in Evidence THEN -reading[k] ELSE reading[k]
      /\ Mirrored = [k \in DOMAIN reading |-> Mirrored[k]]
  BY DEF Mirrored
<1>2. (\A v \in Leaning : -v \in Leaning) /\ (\A v \in Int : -v \in Int)
  <2>1. \A v \in -1..1 : -v \in -1..1
    OBVIOUS
  <2>2. \A v \in Int : -v \in Int
    OBVIOUS
  <2>3. QED
    BY <2>1, <2>2 DEF Leaning
<1>3. CASE engine = "strategy"
  <2>1. /\ DOMAIN reading = {"bos", "choch", "sweep", "gap", "block", "zone", "price", "htf"}
        /\ "htf" \notin Evidence
    BY <1>3 DEF ReadingsFor, Evidence
  <2>2. /\ reading.htf \in -1..2
        /\ \A k \in DOMAIN reading \ {"htf"} : reading[k] \in Leaning
    BY <1>3, <2>1 DEF ReadingsFor
  <2>3. /\ Mirrored["htf"] \in -1..2
        /\ \A k \in DOMAIN reading \ {"htf"} : Mirrored[k] \in Leaning
    BY <1>1, <1>2, <2>1, <2>2
  <2>4. QED
    BY <1>1, <1>3, <2>1, <2>3 DEF ReadingsFor
<1>4. CASE engine \in {"ai", "gated"}
  <2>1. reading \in AiReading
    BY <1>4, AiEvidenceIs
  <2>2. /\ DOMAIN reading = {"ema", "rsi", "macd", "trend", "bos", "choch", "zone", "ict",
                             "technical", "data", "close", "range"}
        /\ {"data", "close", "range"} \cap Evidence = {}
        /\ ReadingsFor(engine) = AiReading
    BY <1>4, AiEvidenceIs
  <2>3. /\ \A k \in DOMAIN reading \ {"data", "close", "range"} : reading[k] \in Leaning
        /\ reading.data \in {0, 1} /\ reading.close \in Int /\ reading.range \in Nat
    BY <2>1, <2>2 DEF AiReading
  <2>4. /\ \A k \in DOMAIN reading \ {"data", "close", "range"} : Mirrored[k] \in Leaning
        /\ Mirrored["data"] \in {0, 1} /\ Mirrored["close"] \in Int
        /\ Mirrored["range"] \in Nat
    BY <1>1, <1>2, <2>2, <2>3
  <2>5. QED
    BY <1>1, <2>2, <2>4 DEF AiReading
<1>5. CASE engine \in {"advice", "dsl"}
  <2>1. "said" \notin Evidence
    BY DEF Evidence
  <2>2. /\ engine = "advice" => DOMAIN reading = {"smc", "confirmation", "trend"}
        /\ engine = "dsl" => DOMAIN reading = {"smc", "confirmation", "trend", "said"}
        /\ reading.smc \in Int /\ reading.confirmation \in Int /\ reading.trend \in Leaning
        /\ engine = "dsl" => reading.said \in {0, 1}
    BY <1>5 DEF ReadingsFor
  <2>3. /\ Mirrored["smc"] \in Int /\ Mirrored["confirmation"] \in Int
        /\ Mirrored["trend"] \in Leaning
        /\ engine = "dsl" => Mirrored["said"] \in {0, 1}
    BY <1>1, <1>2, <1>5, <2>1, <2>2
  <2>4. CASE engine = "advice"
    BY <1>1, <2>2, <2>3, <2>4 DEF ReadingsFor
  <2>5. CASE engine = "dsl"
    BY <1>1, <2>2, <2>3, <2>5 DEF ReadingsFor
  <2>6. QED
    BY <1>5, <2>4, <2>5
<1>6. CASE engine = "ensemble"
  <2>1. "volatile" \notin Evidence
    BY DEF Evidence
  <2>2. /\ DOMAIN reading = {"odds", "points", "volatile"}
        /\ reading.odds \in Int /\ reading.points \in Int /\ reading.volatile \in {0, 1}
    BY <1>6 DEF ReadingsFor
  <2>3. Mirrored["odds"] \in Int /\ Mirrored["points"] \in Int /\ Mirrored["volatile"] \in {0, 1}
    BY <1>1, <1>2, <2>1, <2>2
  <2>4. QED
    BY <1>1, <1>6, <2>2, <2>3 DEF ReadingsFor
<1>7. CASE engine = "ensemble2"
  <2>1. "volatile" \notin Evidence
    BY DEF Evidence
  <2>2. /\ DOMAIN reading = {"odds", "points", "structure", "zones", "volatile"}
        /\ reading.odds \in Int /\ reading.points \in Int /\ reading.volatile \in {0, 1}
        /\ reading.structure \in Leaning /\ reading.zones \in Int
    BY <1>7 DEF ReadingsFor
  <2>3. /\ Mirrored["odds"] \in Int /\ Mirrored["points"] \in Int
        /\ Mirrored["volatile"] \in {0, 1} /\ Mirrored["structure"] \in Leaning
        /\ Mirrored["zones"] \in Int
    BY <1>1, <1>2, <2>1, <2>2
  <2>4. QED
    BY <1>1, <1>7, <2>2, <2>3 DEF ReadingsFor
<1>8. CASE engine = "frames"
  <2>1. DOMAIN reading = {"day", "minutes"} /\ reading.day \in Int /\ reading.minutes \in Int
    BY <1>8 DEF ReadingsFor
  <2>2. Mirrored["day"] \in Int /\ Mirrored["minutes"] \in Int
    BY <1>1, <1>2, <2>1
  <2>3. QED
    BY <1>1, <1>8, <2>1, <2>2 DEF ReadingsFor
<1>9. QED
  BY <1>1, <1>3, <1>4, <1>5, <1>6, <1>7, <1>8, EnginesAre

LEMMA ClampMirrors ==
  ASSUME NEW x \in Int, NEW n \in Nat
  PROVE  Clamp(-x, n) = -Clamp(x, n) /\ Clamp(x, n) \in Int
<1>1. -x \in Int
  OBVIOUS
<1>2. Clamp(-x, n) = (IF -x < -n THEN -n ELSE IF -x > n THEN n ELSE -x)
  BY <1>1, ClampIs
<1>3. QED
  BY <1>2, ClampIs

LEMMA ScoresMirror ==
  ASSUME engine \in Engines \ {"ai", "gated"}, reading \in ReadingsFor(engine)
  PROVE  ScoreOf(engine, Mirrored) = -ScoreOf(engine, reading)
<1> DEFINE r == reading
           x == Mirrored
<1>1. \A k \in DOMAIN r : x[k] = IF k \in Evidence THEN -r[k] ELSE r[k]
  BY MirroredIs
<1> HIDE DEF x
<1>2. CASE engine = "strategy"
  <2>1. /\ r.bos \in Leaning /\ r.choch \in Leaning /\ r.sweep \in Leaning
        /\ r.gap \in Leaning /\ r.block \in Leaning /\ r.zone \in Leaning
        /\ r.price \in Leaning
    BY <1>2 DEF ReadingsFor
  <2>2. /\ x.bos = -r.bos /\ x.choch = -r.choch /\ x.sweep = -r.sweep /\ x.gap = -r.gap
        /\ x.block = -r.block /\ x.zone = -r.zone /\ x.price = -r.price
    BY <1>1, <1>2 DEF ReadingsFor, Evidence
  <2>3. ScoreOf(engine, x) = Points(x) /\ ScoreOf(engine, r) = Points(r)
    BY <1>2 DEF ScoreOf
  <2> HIDE DEF r
  <2>4. Points(x) = -Points(r)
    BY <2>1, <2>2 DEF Points, Leaning
  <2>5. QED
    BY <2>3, <2>4 DEF r, x
<1>3. CASE engine \in {"advice", "dsl"}
  <2>1. r.smc \in Int /\ r.confirmation \in Int /\ r.trend \in Leaning
    BY <1>3 DEF ReadingsFor
  <2>2. x.smc = -r.smc /\ x.confirmation = -r.confirmation /\ x.trend = -r.trend
    BY <1>1, <1>3 DEF ReadingsFor, Evidence
  <2>3. ScoreOf(engine, x) = Unified(x) /\ ScoreOf(engine, r) = Unified(r)
    BY <1>3 DEF ScoreOf
  <2> HIDE DEF r
  <2>4. /\ Clamp(-r.smc, 10) = -Clamp(r.smc, 10)
        /\ Clamp(-r.confirmation, 6) = -Clamp(r.confirmation, 6)
        /\ Clamp(r.smc, 10) \in Int /\ Clamp(r.confirmation, 6) \in Int
    BY <2>1, ClampMirrors
  <2>5. Unified(x) = -Unified(r)
    BY <2>1, <2>2, <2>4 DEF Unified, Leaning
  <2>6. QED
    BY <2>3, <2>5 DEF r, x
<1>4. CASE engine = "ensemble"
  <2>1. r.odds \in Int /\ r.points \in Int /\ r.volatile \in {0, 1}
    BY <1>4 DEF ReadingsFor
  <2>2. x.odds = -r.odds /\ x.points = -r.points /\ x.volatile = r.volatile
    BY <1>1, <1>4 DEF ReadingsFor, Evidence
  <2>3. ScoreOf(engine, x) = EnsembleScore(x) /\ ScoreOf(engine, r) = EnsembleScore(r)
    BY <1>4 DEF ScoreOf
  <2> HIDE DEF r
  <2> DEFINE a == Clamp(r.points, 5)
             b == Clamp(x.points, 5)
             c == Damped(r, 55 * r.odds + 90 * a)
             d == Damped(x, 55 * x.odds + 90 * b)
  <2>4. b = -a /\ a \in Int
    BY <2>1, <2>2, ClampMirrors
  <2>5. EnsembleScore(r) = (4 - ConfluenceQuarters) * c + ConfluenceQuarters * 800 * a
        /\ EnsembleScore(x) = (4 - ConfluenceQuarters) * d + ConfluenceQuarters * 800 * b
    BY DEF EnsembleScore
  <2> HIDE DEF a, b
  <2>6. d = -c /\ c \in Int
    BY <2>1, <2>2, <2>4 DEF Damped
  <2> HIDE DEF c, d
  <2>7. ConfluenceQuarters \in {0, 1, 2, 3, 4}
    BY QuartersAre
  <2>8. EnsembleScore(x) = -EnsembleScore(r)
    BY <2>4, <2>5, <2>6, <2>7
  <2>9. QED
    BY <2>3, <2>8 DEF r, x
<1>5. CASE engine = "ensemble2"
  <2>1. /\ r.odds \in Int /\ r.points \in Int /\ r.zones \in Int /\ r.structure \in Leaning
        /\ r.volatile \in {0, 1}
    BY <1>5 DEF ReadingsFor
  <2>2. /\ x.odds = -r.odds /\ x.points = -r.points /\ x.zones = -r.zones
        /\ x.structure = -r.structure /\ x.volatile = r.volatile
    BY <1>1, <1>5 DEF ReadingsFor, Evidence
  <2>3. ScoreOf(engine, x) = Ensemble2Score(x) /\ ScoreOf(engine, r) = Ensemble2Score(r)
    BY <1>5 DEF ScoreOf
  <2> HIDE DEF r
  <2> DEFINE y == 2 * r.structure + r.zones
             a == Clamp(r.points, 5)
             b == Clamp(x.points, 5)
             c == Clamp(y, 4)
             d == Clamp(2 * x.structure + x.zones, 4)
  <2>4. y \in Int /\ 2 * x.structure + x.zones = -y
    BY <2>1, <2>2 DEF Leaning
  <2> HIDE DEF y
  <2>5. b = -a /\ a \in Int
    BY <2>1, <2>2, ClampMirrors
  <2>6. d = -c /\ c \in Int
    BY <2>4, ClampMirrors
  <2>7. /\ Ensemble2Score(r) = Damped(r, 160 * r.odds + 200 * a + 350 * c)
        /\ Ensemble2Score(x) = Damped(x, 160 * x.odds + 200 * b + 350 * d)
    BY DEF Ensemble2Score, y
  <2> HIDE DEF a, b, c, d
  <2>8. Ensemble2Score(x) = -Ensemble2Score(r)
    BY <2>1, <2>2, <2>5, <2>6, <2>7 DEF Damped
  <2>9. QED
    BY <2>3, <2>8 DEF r, x
<1>6. CASE engine = "frames"
  <2>1. r.day \in Int /\ r.minutes \in Int
    BY <1>6 DEF ReadingsFor
  <2>2. x.day = -r.day /\ x.minutes = -r.minutes
    BY <1>1, <1>6 DEF ReadingsFor, Evidence
  <2>3. ScoreOf(engine, x) = FramesScore(x) /\ ScoreOf(engine, r) = FramesScore(r)
    BY <1>6 DEF ScoreOf
  <2> HIDE DEF r
  <2>4. FramesScore(x) = -FramesScore(r)
    BY <2>1, <2>2 DEF FramesScore
  <2>5. QED
    BY <2>3, <2>4 DEF r, x
<1>7. QED
  BY <1>2, <1>3, <1>4, <1>5, <1>6, EnginesAre

LEMMA AiWeightsMirror ==
  ASSUME engine \in Engines, engine \in {"ai", "gated"}, reading \in ReadingsFor(engine)
  PROVE  /\ WeightOf(engine, 1, Mirrored) = WeightOf(engine, -1, reading)
         /\ WeightOf(engine, -1, Mirrored) = WeightOf(engine, 1, reading)
         /\ Looks(engine, Mirrored) <=> Looks(engine, reading)
<1> DEFINE r == reading
           x == Mirrored
           c == ConfluenceOf(engine, r)
           d == ConfluenceOf(engine, x)
<1>1. \A k \in DOMAIN r : x[k] = IF k \in Evidence THEN -r[k] ELSE r[k]
  BY MirroredIs
<1>2. /\ {"ema", "rsi", "macd", "trend", "bos", "choch", "zone"} \subseteq Evidence
      /\ {"data", "close", "range"} \cap Evidence = {}
      /\ engine = "ai" => {"ict", "technical"} \subseteq Evidence
      /\ engine = "gated" => {"ict", "technical"} \cap Evidence = {}
      /\ DOMAIN r = {"ema", "rsi", "macd", "trend", "bos", "choch", "zone", "ict",
                     "technical", "data", "close", "range"}
      /\ r \in AiReading
  BY AiEvidenceIs
<1> HIDE DEF r, x
<1>3. /\ r.ema \in Leaning /\ r.rsi \in Leaning /\ r.macd \in Leaning /\ r.trend \in Leaning
      /\ r.bos \in Leaning /\ r.choch \in Leaning /\ r.zone \in Leaning
      /\ r.ict \in Leaning /\ r.technical \in Leaning
  BY <1>2 DEF AiReading
<1>4. /\ x.ema = -r.ema /\ x.rsi = -r.rsi /\ x.macd = -r.macd /\ x.trend = -r.trend
      /\ x.bos = -r.bos /\ x.choch = -r.choch /\ x.zone = -r.zone /\ x.data = r.data
  BY <1>1, <1>2
<1>5. /\ engine = "ai" => x.ict = -r.ict /\ x.technical = -r.technical
      /\ engine = "gated" => x.ict = r.ict /\ x.technical = r.technical
  BY <1>1, <1>2
<1>6. c \in Leaning /\ d \in Leaning /\ c + d = 0
  <2>1. CASE engine = "ai"
    <3>1. Confluence(-r.ict, -r.technical) = -Confluence(r.ict, r.technical)
          /\ Confluence(r.ict, r.technical) \in Leaning
      <4>1. r.ict <= r.ict /\ r.technical <= r.technical
        BY <1>3 DEF Leaning
      <4>2. QED
        BY <1>3, <4>1, ConfluencesGrow
    <3>2. QED
      BY <1>5, <2>1, <3>1 DEF ConfluenceOf, Leaning
  <2>2. CASE engine = "gated"
    BY <2>2 DEF ConfluenceOf, Leaning
  <2>3. QED
    BY <2>1, <2>2
<1>7. Looks(engine, x) <=> Looks(engine, r)
  BY <1>4, <1>5 DEF Looks
<1> HIDE DEF c, d
<1>8. Weight(1, x, d) = Weight(-1, r, c) /\ Weight(-1, x, d) = Weight(1, r, c)
  <2>1. \A v \in Leaning, u \in Leaning : v + u = 0 =>
          \A w : Part(u, 1, w) = Part(v, -1, w) /\ Part(u, -1, w) = Part(v, 1, w)
    BY DEF Part, Leaning
  <2>2. \A v \in Leaning : -v \in Leaning /\ v + (-v) = 0
    BY DEF Leaning
  <2>3. QED
    BY <1>3, <1>4, <1>6, <2>1, <2>2, WeightIs
<1>9. QED
  BY <1>7, <1>8 DEF WeightOf, r, x, c, d

\* The mirrored evidence weighs for the one side what the evidence does for the other.
LEMMA WeightsMirror ==
  ASSUME engine \in Engines, reading \in ReadingsFor(engine)
  PROVE  /\ WeightOf(engine, 1, Mirrored) = WeightOf(engine, -1, reading)
         /\ WeightOf(engine, -1, Mirrored) = WeightOf(engine, 1, reading)
         /\ Looks(engine, Mirrored) <=> Looks(engine, reading)
         /\ engine = "strategy" => Mirrored.htf = reading.htf
<1>1. engine = "strategy" => Mirrored.htf = reading.htf
  BY MirroredIs DEF ReadingsFor, Evidence
<1>2. CASE engine \in {"ai", "gated"}
  BY <1>1, <1>2, AiWeightsMirror
<1>3. CASE engine \notin {"ai", "gated"}
  <2>1. ScoreOf(engine, Mirrored) = -ScoreOf(engine, reading)
    BY <1>3, ScoresMirror
  <2>2. ScoreOf(engine, reading) \in Int
    BY <1>3, WeighingIs DEF Weighing, WeightOf
  <2>3. QED
    BY <1>1, <1>3, <2>1, <2>2 DEF WeightOf, Looks
<1>4. QED
  BY <1>2, <1>3


-----------------------------------------------------------------------------
(* Decisions follow the evidence.                                           *)

LEMMA RankIs ==
  ASSUME NEW d
  PROVE  /\ Rank(d) \in {-1, 0, 1}
         /\ Rank(d) = 1 <=> d.action = "BUY"
         /\ Rank(d) = -1 <=> d.action = "SELL"
BY DEF Rank

\* The decisions of an engine on two readings, where the second has more for the bulls.
LEMMA RanksGrow ==
  ASSUME NEW e, NEW r, NEW x, NEW f \in AnyForecast, NEW d1, NEW d2,
         FollowsWeights(e, r, f, d1), FollowsWeights(e, x, f, d2),
         Weighing(e, WeightOf(e, 1, r), WeightOf(e, -1, r)),
         Weighing(e, WeightOf(e, -1, r), WeightOf(e, 1, r)),
         Weighing(e, WeightOf(e, 1, x), WeightOf(e, -1, x)),
         Weighing(e, WeightOf(e, -1, x), WeightOf(e, 1, x)),
         WeightOf(e, 1, x) >= WeightOf(e, 1, r), WeightOf(e, -1, x) <= WeightOf(e, -1, r),
         Looks(e, x) <=> Looks(e, r)
  PROVE  Rank(d2) >= Rank(d1)
<1>1. d1.action = "BUY" => d2.action = "BUY"
  <2>1. SUFFICES ASSUME d1.action = "BUY" PROVE d2.action = "BUY"
    OBVIOUS
  <2>2. Enough(e, WeightOf(e, 1, r), WeightOf(e, -1, r), f, "BUY") /\ Looks(e, x)
    BY <2>1 DEF FollowsWeights
  <2>3. Enough(e, WeightOf(e, 1, x), WeightOf(e, -1, x), f, "BUY")
    BY <2>2, EnoughGrows
  <2>4. QED
    BY <2>2, <2>3 DEF FollowsWeights
<1>2. d2.action = "SELL" => d1.action = "SELL"
  <2>1. SUFFICES ASSUME d2.action = "SELL" PROVE d1.action = "SELL"
    OBVIOUS
  <2>2. Enough(e, WeightOf(e, -1, x), WeightOf(e, 1, x), f, "SELL") /\ Looks(e, r)
    BY <2>1 DEF FollowsWeights
  <2>3. WeightOf(e, -1, r) >= WeightOf(e, -1, x) /\ WeightOf(e, 1, r) <= WeightOf(e, 1, x)
    BY DEF Weighing
  <2>4. Enough(e, WeightOf(e, -1, r), WeightOf(e, 1, r), f, "SELL")
    BY <2>2, <2>3, EnoughGrows
  <2>5. QED
    BY <2>2, <2>4 DEF FollowsWeights
<1>3. QED
  BY <1>1, <1>2, RankIs

\* The mirrored evidence has the mirrored decision.
LEMMA RanksMirror ==
  ASSUME NEW e, NEW r, NEW x, NEW f \in AnyForecast, NEW d1, NEW d2,
         FollowsWeights(e, r, f, d1), FollowsWeights(e, x, Reversed(f), d2),
         WeightOf(e, 1, x) = WeightOf(e, -1, r), WeightOf(e, -1, x) = WeightOf(e, 1, r),
         Looks(e, x) <=> Looks(e, r)
  PROVE  Rank(d2) = -Rank(d1)
<1>1. d2.action = "BUY" <=> d1.action = "SELL"
  BY EnoughReversed DEF FollowsWeights
<1>2. d2.action = "SELL" <=> d1.action = "BUY"
  BY EnoughReversed DEF FollowsWeights
<1>3. QED
  BY <1>1, <1>2, RankIs

\* A prediction for a side does no less for it than one against it, and none turns a
\* decision around.
LEMMA RanksOfForecasts ==
  ASSUME NEW e, NEW r, NEW f \in AnyForecast, NEW d1, NEW d2, NEW d3,
         FollowsWeights(e, r, f, d1), FollowsWeights(e, r, NoForecast, d2),
         FollowsWeights(e, r, Reversed(f), d3),
         Weighing(e, WeightOf(e, 1, r), WeightOf(e, -1, r)),
         Weighing(e, WeightOf(e, -1, r), WeightOf(e, 1, r))
  PROVE  /\ Rank(d1) * Rank(d2) >= 0
         /\ f.label = "BUY" => Rank(d1) >= Rank(d3)
         /\ f.label = "SELL" => Rank(d1) <= Rank(d3)
<1> DEFINE b == WeightOf(e, 1, r)
           s == WeightOf(e, -1, r)
           h == Reversed(f)
<1>1. Rank(d1) * Rank(d2) >= 0
  <2>1. d1.action = "BUY" => d2.action = "BUY"
    BY EnoughWithout DEF FollowsWeights
  <2>2. d1.action = "SELL" => d2.action = "SELL"
    BY EnoughWithout DEF FollowsWeights
  <2>3. Rank(d1) = 0 \/ (Rank(d1) = 1 /\ Rank(d2) = 1) \/ (Rank(d1) = -1 /\ Rank(d2) = -1)
    BY <2>1, <2>2, RankIs
  <2>4. QED
    BY <2>3, RankIs
<1>2. f.label \in {"BUY", "SELL"} =>
        /\ f # NoForecast /\ h # NoForecast /\ h \in AnyForecast
        /\ h.label \in {"BUY", "SELL"} /\ h.label # f.label
        /\ h.sure = f.sure /\ h.symbol = f.symbol /\ h.at = f.at /\ h.must = f.must
  <2>1. NoForecast.label = "none"
    BY DEF NoForecast
  <2>2. QED
    BY <2>1, ReversedIs
<1> HIDE DEF b, s, h
<1>3. ASSUME f.label \in {"BUY", "SELL"}, NEW side \in {"BUY", "SELL"}, NEW m, NEW o,
             Weighing(e, m, o)
      PROVE  /\ f.label = side /\ Enough(e, m, o, h, side) => Enough(e, m, o, f, side)
             /\ f.label # side /\ Enough(e, m, o, f, side) => Enough(e, m, o, h, side)
  <2>1. CASE f.label = side
    <3>1. Enough(e, m, o, h, side) => Enough(e, m, o, f, side)
      BY <1>2, <1>3, <2>1, EnoughFavours
    <3>2. QED
      BY <2>1, <3>1
  <2>2. CASE f.label # side
    <3>1. h.label = side
      BY <1>2, <1>3, <2>2
    <3>2. Enough(e, m, o, f, side) => Enough(e, m, o, h, side)
      BY <1>2, <1>3, <2>2, <3>1, EnoughFavours
    <3>3. QED
      BY <2>2, <3>2
  <2>3. QED
    BY <2>1, <2>2
<1>4. f.label \in {"BUY", "SELL"} =>
        /\ f.label = "BUY" /\ d3.action = "BUY" => d1.action = "BUY"
        /\ f.label = "BUY" /\ d1.action = "SELL" => d3.action = "SELL"
        /\ f.label = "SELL" /\ d3.action = "SELL" => d1.action = "SELL"
        /\ f.label = "SELL" /\ d1.action = "BUY" => d3.action = "BUY"
  BY <1>3 DEF FollowsWeights, h
<1>5. QED
  BY <1>1, <1>4, RankIs

\* What opens a strategy that waits for the side it trades to a side does not close it.
LEMMA MatchesGrow ==
  ASSUME engine = "dsl", engine \in Engines, reading \in ReadingsFor(engine),
         NEW x \in MoreBullish, NEW s, WaitsForItsSide(s)
  PROVE  Rank(StrategyMatches(s, x)) >= Rank(StrategyMatches(s, reading))
<1> DEFINE r == reading
           u == Unified(r)
           v == Unified(x)
           d1 == StrategyMatches(s, r)
           d2 == StrategyMatches(s, x)
<1>1. x \in ReadingsFor("dsl") /\ r \in ReadingsFor("dsl") /\ NoLess(x, r)
  BY MoreBullishIs
<1>2. /\ DOMAIN r = {"smc", "confirmation", "trend", "said"}
      /\ r.smc \in Int /\ r.confirmation \in Int /\ r.trend \in Leaning
      /\ x.smc \in Int /\ x.confirmation \in Int /\ x.trend \in Leaning
  BY <1>1 DEF ReadingsFor
<1>3. "trend" \in Evidence /\ "said" \notin Evidence
  BY <1>2 DEF Evidence
<1>4. x.trend >= r.trend /\ x.said = r.said
  BY <1>1, <1>2, <1>3 DEF NoLess
<1>5. u \in Int /\ v \in Int /\ v >= u
  BY <1>1, ScoresGrow DEF ScoreOf
<1> HIDE DEF r, u, v
<1>6. /\ UnifiedSignal(r).action
           = IF u >= 1500 THEN "BUY" ELSE IF u <= -1500 THEN "SELL" ELSE "HOLD"
      /\ UnifiedSignal(x).action
           = IF v >= 1500 THEN "BUY" ELSE IF v <= -1500 THEN "SELL" ELSE "HOLD"
  BY <1>2, <1>5, UnifiedIs DEF u, v, Decided, Side
<1>7. ASSUME NEW side \in {"BUY", "SELL"}, NEW y, NEW z, y.said = z.said,
             UnifiedSignal(y).action = side, UnifiedSignal(z).action = side,
             y.trend \in Leaning, z.trend \in Leaning,
             y.trend # 0 /\ Side(y.trend) = side => z.trend # 0 /\ Side(z.trend) = side,
             StrategyMatches(s, y).action = side
      PROVE  StrategyMatches(s, z).action = side
  <2>1. /\ ValidStrategy(s) /\ s.direction \in {"both", side}
        /\ \A c \in s.conditions : ConditionHolds(c, y)
    BY <1>7, HoldIs DEF StrategyMatches
  <2>2. ASSUME NEW c \in s.conditions PROVE ConditionHolds(c, z)
    <3>1. ConditionHolds(c, y)
      BY <2>1
    <3>2. CASE c.kind = "trend"
      BY <1>7, <3>1, <3>2 DEF ConditionHolds
    <3>3. CASE c.kind = "smc"
      BY <1>7, <3>1, <3>3 DEF ConditionHolds
    <3>4. CASE c.kind = "indicator"
      <4>1. c.wanted \in {"any", s.direction}
        BY <3>4 DEF WaitsForItsSide
      <4>2. c.wanted = "any" \/ (y.trend # 0 /\ c.wanted = Side(y.trend))
        BY <3>1, <3>4 DEF ConditionHolds
      <4>3. c.wanted = "any" \/ (c.wanted = side /\ y.trend # 0 /\ Side(y.trend) = side)
        BY <2>1, <4>1, <4>2 DEF Side
      <4>4. c.wanted = "any" \/ (c.wanted = side /\ z.trend # 0 /\ Side(z.trend) = side)
        BY <1>7, <4>3
      <4>5. QED
        BY <3>4, <4>4 DEF ConditionHolds
    <3>5. CASE c.kind \notin {"trend", "smc", "indicator"}
      BY <3>1, <3>5 DEF ConditionHolds
    <3>6. QED
      BY <3>2, <3>3, <3>4, <3>5
  <2>3. StrategyMatches(s, z) = UnifiedSignal(z)
    BY <1>7, <2>1, <2>2 DEF StrategyMatches
  <2>4. QED
    BY <1>7, <2>3
<1>8. ASSUME NEW y, NEW side \in {"BUY", "SELL"}, StrategyMatches(s, y).action = side
      PROVE  UnifiedSignal(y).action = side
  BY <1>8, HoldIs DEF StrategyMatches
<1>9. d1.action = "BUY" => d2.action = "BUY"
  <2>1. SUFFICES ASSUME StrategyMatches(s, r).action = "BUY"
                 PROVE  StrategyMatches(s, x).action = "BUY"
    OBVIOUS
  <2>2. UnifiedSignal(r).action = "BUY"
    BY <1>8, <2>1
  <2>3. UnifiedSignal(x).action = "BUY"
    BY <1>5, <1>6, <2>2
  <2>4. r.trend # 0 /\ Side(r.trend) = "BUY" => x.trend # 0 /\ Side(x.trend) = "BUY"
    BY <1>2, <1>4 DEF Side, Leaning
  <2>5. QED
    BY <1>2, <1>4, <1>7, <2>1, <2>2, <2>3, <2>4
<1>10. d2.action = "SELL" => d1.action = "SELL"
  <2>1. SUFFICES ASSUME StrategyMatches(s, x).action = "SELL"
                 PROVE  StrategyMatches(s, r).action = "SELL"
    OBVIOUS
  <2>2. UnifiedSignal(x).action = "SELL"
    BY <1>8, <2>1
  <2>3. UnifiedSignal(r).action = "SELL"
    BY <1>5, <1>6, <2>2
  <2>4. x.trend # 0 /\ Side(x.trend) = "SELL" => r.trend # 0 /\ Side(r.trend) = "SELL"
    BY <1>2, <1>4 DEF Side, Leaning
  <2>5. QED
    BY <1>2, <1>4, <1>7, <2>1, <2>2, <2>3, <2>4
<1> HIDE DEF d1, d2
<1>11. Rank(d2) >= Rank(d1)
  BY <1>9, <1>10, RankIs
<1>12. QED
  BY <1>11 DEF d1, d2, r

\* What was decided is what the engine decides of what it was given.
DecidedInv ==
  /\ engine \in Engines
  /\ decision # NoDecision =>
       /\ reading \in EngineReadings[engine]
       /\ forecast \in Forecasts \cup {NoForecast}
       /\ strategy \in Strategies \cup {NoStrategy}
       /\ decision = Decides(engine, reading, forecast, strategy)

LEMMA DecidedPreserved ==
  ASSUME DecidedInv, [SignalsNext]_signalVars
  PROVE  DecidedInv'
<1>1. CASE SignalsNext
  <2>1. PICK r \in EngineReadings[engine],
             f \in {NoForecast} \cup (IF engine \in TakesForecasts THEN Forecasts ELSE {}),
             s \in IF engine = "dsl" THEN Strategies ELSE {NoStrategy} :
               Ask(r, f, s)
    BY <1>1 DEF SignalsNext
  <2>2. QED
    BY <2>1 DEF Ask, DecidedInv
<1>2. CASE UNCHANGED signalVars
  BY <1>2 DEF signalVars, DecidedInv
<1>3. QED
  BY <1>1, <1>2

LEMMA EvidenceDecides ==
  ASSUME DecidedInv
  PROVE  DecisionsFollowEvidence
<1>1. SUFFICES ASSUME decision # NoDecision, engine = "strategy" => reading.htf = 2
               PROVE  /\ WaitsForItsSide(strategy) =>
                           \A r \in MoreBullish : Again(r, forecast) >= Rank(decision)
                      /\ engine # "dsl" =>
                           Again(Mirrored, Reversed(forecast)) = -Rank(decision)
                      /\ Rank(decision) * Again(reading, NoForecast) >= 0
                      /\ forecast.label = "BUY" =>
                           Rank(decision) >= Again(reading, Reversed(forecast))
                      /\ forecast.label = "SELL" =>
                           Rank(decision) <= Again(reading, Reversed(forecast))
  BY DEF DecisionsFollowEvidence
<1>2. /\ engine \in Engines /\ reading \in ReadingsFor(engine) /\ forecast \in AnyForecast
      /\ strategy \in Strategies \cup {NoStrategy}
      /\ decision = Decides(engine, reading, forecast, strategy)
  BY <1>1, SignalsAssumption DEF DecidedInv, AnyForecast
<1>3. NoForecast \in AnyForecast /\ Reversed(forecast) \in AnyForecast
  BY <1>2, ReversedIs DEF AnyForecast
<1>4. CASE engine # "dsl"
  <2>1. ASSUME NEW x \in ReadingsFor(engine), engine = "strategy" => x.htf = 2,
               NEW h \in AnyForecast
        PROVE  FollowsWeights(engine, x, h, Decides(engine, x, h, strategy))
    BY <1>2, <1>4, <2>1, EnginesFollow
  <2>2. FollowsWeights(engine, reading, forecast, decision)
    BY <1>1, <1>2, <2>1
  <2>3. ASSUME NEW x \in MoreBullish PROVE Again(x, forecast) >= Rank(decision)
    <3>1. /\ x \in ReadingsFor(engine)
          /\ WeightOf(engine, 1, x) >= WeightOf(engine, 1, reading)
          /\ WeightOf(engine, -1, x) <= WeightOf(engine, -1, reading)
          /\ Looks(engine, x) <=> Looks(engine, reading)
          /\ engine = "strategy" => x.htf = reading.htf
      BY <1>2, WeightsGrow
    <3>2. FollowsWeights(engine, x, forecast, Decides(engine, x, forecast, strategy))
      BY <1>1, <1>2, <2>1, <3>1
    <3>3. /\ Weighing(engine, WeightOf(engine, 1, x), WeightOf(engine, -1, x))
          /\ Weighing(engine, WeightOf(engine, -1, x), WeightOf(engine, 1, x))
          /\ Weighing(engine, WeightOf(engine, 1, reading), WeightOf(engine, -1, reading))
          /\ Weighing(engine, WeightOf(engine, -1, reading), WeightOf(engine, 1, reading))
      BY <1>2, <3>1, WeighingIs
    <3>4. QED
      BY <1>2, <2>2, <3>1, <3>2, <3>3, RanksGrow DEF Again
  <2>4. Again(Mirrored, Reversed(forecast)) = -Rank(decision)
    <3>1. /\ WeightOf(engine, 1, Mirrored) = WeightOf(engine, -1, reading)
          /\ WeightOf(engine, -1, Mirrored) = WeightOf(engine, 1, reading)
          /\ Looks(engine, Mirrored) <=> Looks(engine, reading)
          /\ engine = "strategy" => Mirrored.htf = reading.htf
      BY <1>2, WeightsMirror
    <3>2. FollowsWeights(engine, Mirrored, Reversed(forecast),
                         Decides(engine, Mirrored, Reversed(forecast), strategy))
      BY <1>1, <1>2, <1>3, <2>1, <3>1, MirroredIs
    <3>3. QED
      BY <1>2, <2>2, <3>1, <3>2, RanksMirror DEF Again
  <2>5. /\ FollowsWeights(engine, reading, NoForecast,
                          Decides(engine, reading, NoForecast, strategy))
        /\ FollowsWeights(engine, reading, Reversed(forecast),
                          Decides(engine, reading, Reversed(forecast), strategy))
    BY <1>1, <1>2, <1>3, <2>1
  <2>6. /\ Weighing(engine, WeightOf(engine, 1, reading), WeightOf(engine, -1, reading))
        /\ Weighing(engine, WeightOf(engine, -1, reading), WeightOf(engine, 1, reading))
    BY <1>2, WeighingIs
  <2>7. /\ Rank(decision) * Again(reading, NoForecast) >= 0
        /\ forecast.label = "BUY" => Rank(decision) >= Again(reading, Reversed(forecast))
        /\ forecast.label = "SELL" => Rank(decision) <= Again(reading, Reversed(forecast))
    BY <1>2, <2>2, <2>5, <2>6, RanksOfForecasts DEF Again
  <2>8. QED
    BY <2>3, <2>4, <2>7
<1>5. CASE engine = "dsl"
  <2>1. \A r, f : Again(r, f) = Rank(StrategyMatches(strategy, r))
    BY <1>5 DEF Again, Decides
  <2>2. decision = StrategyMatches(strategy, reading)
    BY <1>2, <1>5 DEF Decides
  <2>3. WaitsForItsSide(strategy) =>
          \A x \in MoreBullish :
            Rank(StrategyMatches(strategy, x)) >= Rank(StrategyMatches(strategy, reading))
    BY <1>2, <1>5, MatchesGrow
  <2>4. Rank(decision) * Rank(decision) >= 0 /\ Rank(decision) >= Rank(decision)
    BY RankIs
  <2>5. QED
    BY <1>5, <2>1, <2>2, <2>3, <2>4
<1>6. QED
  BY <1>4, <1>5

\* More evidence never turns a decision away from its side, but that of a strategy that
\* waits for the other one, the mirrored evidence has the mirrored decision, and a
\* prediction never turns one around or does less for its side than one against it
\* (generate_signal, AIDecisionEngine.decide, evaluate_confluence, UnifiedSignalEngine,
\* the ensembles, StrategyEvaluator.evaluate).
THEOREM EvidenceCorrect == SignalsSpec => []DecisionsFollowEvidence
<1>1. SignalsInit => DecidedInv
  BY DEF SignalsInit, DecidedInv
<1>2. DecidedInv /\ [SignalsNext]_signalVars => DecidedInv'
  BY DecidedPreserved
<1>3. DecidedInv => DecisionsFollowEvidence
  BY EvidenceDecides
<1>4. QED
  BY <1>1, <1>2, <1>3, PTL DEF SignalsSpec

-----------------------------------------------------------------------------
(* Positions that the risk check let into the paper book.                   *)

USE DeskAssumption

IsPosition(h) ==
  DOMAIN h = {"ticket", "status", "left", "filled", "gain", "checked"} /\ h.checked \in BOOLEAN

IsTask(t) ==
  DOMAIN t = {"kind", "ticket", "checked", "gain"} /\ t.checked \in BOOLEAN

CheckedOpen == {i \in Having("OPEN") : holdings[i].checked}

\* The threads between the check of their position and its insertion.
Opening == {w \in DeskThreads : task[w].kind = "opening" /\ task[w].checked}

LimitTypes ==
  /\ holdings = [i \in DeskIds |-> holdings[i]] /\ \A i \in DeskIds : IsPosition(holdings[i])
  /\ task = [w \in DeskThreads |-> task[w]] /\ \A w \in DeskThreads : IsTask(task[w])

\* Only the book with the risk check has positions that passed it.
Unchecked ==
  paperDesk # "execution" =>
    (\A i \in DeskIds : ~holdings[i].checked) /\ (\A w \in DeskThreads : task[w] = AtRest)

LimitInv ==
  /\ LimitTypes /\ Unchecked
  /\ IsFiniteSet(Having("OPEN"))
  /\ Cardinality(CheckedOpen) + Cardinality(Opening) <= DeskLimit + Cardinality(DeskThreads) - 1

LEMMA Finites ==
  ASSUME IsFiniteSet(Having("OPEN"))
  PROVE  /\ IsFiniteSet(CheckedOpen) /\ Cardinality(CheckedOpen) \in Nat
         /\ IsFiniteSet(Opening) /\ Cardinality(Opening) \in Nat
         /\ Cardinality(DeskThreads) \in Nat /\ Cardinality(DeskThreads) >= 1
         /\ Cardinality(CheckedOpen) <= Cardinality(Having("OPEN"))
         /\ Cardinality(Opening) <= Cardinality(DeskThreads)
<1>1. CheckedOpen \subseteq Having("OPEN") /\ Opening \subseteq DeskThreads
  BY DEF CheckedOpen, Opening
<1>2. IsFiniteSet(CheckedOpen) /\ IsFiniteSet(Opening)
  BY <1>1, FS_Subset
<1>3. Cardinality(DeskThreads) # 0
  BY FS_EmptySet
<1>4. QED
  BY <1>1, <1>2, <1>3, FS_Subset, FS_CardinalityType

\* A step that lets no position in keeps the count.
LEMMA LimitKept ==
  ASSUME LimitInv, LimitTypes', Unchecked', NEW i,
         Having("OPEN")' \subseteq Having("OPEN") \cup {i},
         CheckedOpen' \subseteq CheckedOpen, Opening' \subseteq Opening
  PROVE  LimitInv'
<1>1. IsFiniteSet(Having("OPEN")')
  BY FS_AddElement, FS_Subset DEF LimitInv
<1>2. /\ Cardinality(CheckedOpen') <= Cardinality(CheckedOpen)
      /\ Cardinality(Opening') <= Cardinality(Opening)
  BY Finites, FS_Subset DEF LimitInv
<1>3. Cardinality(CheckedOpen') \in Nat /\ Cardinality(Opening') \in Nat
  BY Finites, FS_Subset, FS_CardinalityType DEF LimitInv
<1>4. QED
  BY <1>1, <1>2, <1>3, Finites DEF LimitInv

LEMMA LimitStarts == DeskInit => LimitInv
<1> SUFFICES ASSUME DeskInit PROVE LimitInv
  OBVIOUS
<1>1. LimitTypes /\ Unchecked
  BY DEF DeskInit, LimitTypes, Unchecked, IsPosition, IsTask, NoPosition, AtRest
<1>2. Having("OPEN") = {} /\ CheckedOpen = {} /\ Opening = {}
  BY DEF DeskInit, Having, CheckedOpen, Opening, NoPosition, AtRest
<1>3. IsFiniteSet(Having("OPEN")) /\ Cardinality(CheckedOpen) = 0 /\ Cardinality(Opening) = 0
  BY <1>2, FS_EmptySet
<1>4. QED
  BY <1>1, <1>3, Finites DEF LimitInv

\* The risk check counts less than the limit, and at most every thread passed it before
\* its position is in the book.
LEMMA AdmitsLimit ==
  ASSUME LimitInv, NEW w \in DeskThreads, NEW t \in DeskTickets, NEW given \in BOOLEAN,
         DeskAdmits(w, t, given)
  PROVE  LimitInv'
<1>1. /\ holdings' = holdings /\ paperDesk' = paperDesk /\ paperDesk = "execution"
      /\ given => Cardinality(Having("OPEN")) < DeskLimit
      /\ task' = [task EXCEPT ![w] = [AtRest EXCEPT !.kind = "opening", !.ticket = t,
                                                    !.checked = given]]
  BY DEF DeskAdmits, RiskAllows
<1> DEFINE new == [AtRest EXCEPT !.kind = "opening", !.ticket = t, !.checked = given]
<1>2. IsTask(new) /\ new.checked = given
  BY DEF AtRest, IsTask
<1> HIDE DEF new
<1>3. task' = [v \in DeskThreads |-> IF v = w THEN new ELSE task[v]]
  BY <1>1 DEF LimitInv, LimitTypes, new
<1>4. LimitTypes' /\ Unchecked'
  BY <1>1, <1>2, <1>3 DEF LimitInv, LimitTypes, Unchecked
<1>5. Having("OPEN")' = Having("OPEN") /\ CheckedOpen' = CheckedOpen
  BY <1>1 DEF Having, CheckedOpen
<1>6. CASE given
  <2>2. Opening' \subseteq DeskThreads
    BY DEF Opening
  <2>3. Cardinality(Opening') \in Nat /\ Cardinality(Opening') <= Cardinality(DeskThreads)
    BY <2>2, FS_Subset, FS_CardinalityType
  <2>4. Cardinality(CheckedOpen) < DeskLimit
    <3>1. IsFiniteSet(Having("OPEN"))
      BY DEF LimitInv
    <3>2. /\ Cardinality(Having("OPEN")) \in Nat /\ Cardinality(CheckedOpen) \in Nat
          /\ Cardinality(CheckedOpen) <= Cardinality(Having("OPEN"))
      BY <3>1, Finites, FS_CardinalityType
    <3>3. QED
      BY <1>1, <1>6, <3>2
  <2>5. QED
    BY <1>4, <1>5, <2>3, <2>4, Finites DEF LimitInv
<1>7. CASE ~given
  <2>1. Opening' \subseteq Opening
    BY <1>2, <1>3, <1>7 DEF Opening
  <2>2. QED
    BY <1>4, <1>5, <2>1, LimitKept
<1>8. QED
  BY <1>6, <1>7

\* A position that is put into the book is counted instead of its thread.
LEMMA InsertsLimit ==
  ASSUME LimitInv, NEW w \in DeskThreads, DeskInserts(w)
  PROVE  LimitInv'
<1> DEFINE t == task[w].ticket
           given == task[w].checked
<1>1. PICK i \in Fresh : holdings' = [holdings EXCEPT ![i] = Opened(t, given)]
  BY DEF DeskInserts
<1>2. /\ task[w].kind = "opening" /\ task' = [task EXCEPT ![w] = AtRest]
      /\ paperDesk' = paperDesk
  BY DEF DeskInserts
<1>3. IsTask(task[w]) /\ given \in BOOLEAN
  BY DEF LimitInv, LimitTypes, IsTask
<1>4. i \in DeskIds /\ holdings[i].status = "NONE"
  BY DEF Fresh, Having
<1> DEFINE new == Opened(t, given)
<1>5. IsPosition(new) /\ new.status = "OPEN" /\ new.checked = given
  BY <1>3 DEF Opened, NoPosition, IsPosition
<1>6. IsTask(AtRest) /\ AtRest.kind = "none"
  BY DEF IsTask, AtRest
<1> HIDE DEF new
<1>7. /\ holdings' = [k \in DeskIds |-> IF k = i THEN new ELSE holdings[k]]
      /\ task' = [v \in DeskThreads |-> IF v = w THEN AtRest ELSE task[v]]
  BY <1>1, <1>2, <1>4 DEF LimitInv, LimitTypes, new
<1>8. LimitTypes'
  BY <1>5, <1>6, <1>7 DEF LimitInv, LimitTypes
<1>9. paperDesk = "execution"
  BY <1>2, <1>6 DEF LimitInv, Unchecked
<1>10. Unchecked'
  BY <1>2, <1>9 DEF Unchecked
<1>11. Having("OPEN")' = Having("OPEN") \cup {i} /\ i \notin Having("OPEN")
  BY <1>4, <1>5, <1>7 DEF Having
<1>12. CASE given
  <2>1. CheckedOpen' = CheckedOpen \cup {i} /\ i \notin CheckedOpen
    BY <1>4, <1>5, <1>7, <1>12 DEF CheckedOpen, Having
  <2>2. Opening' = Opening \ {w} /\ w \in Opening
    BY <1>2, <1>6, <1>7, <1>12 DEF Opening
  <2>3. /\ Cardinality(CheckedOpen') = Cardinality(CheckedOpen) + 1
        /\ Cardinality(Opening') = Cardinality(Opening) - 1
    BY <2>1, <2>2, Finites, FS_AddElement, FS_RemoveElement DEF LimitInv
  <2>4. IsFiniteSet(Having("OPEN")')
    BY <1>11, FS_AddElement DEF LimitInv
  <2>5. QED
    BY <1>8, <1>10, <2>3, <2>4, Finites DEF LimitInv
<1>13. CASE ~given
  <2>1. CheckedOpen' \subseteq CheckedOpen
    BY <1>5, <1>7, <1>13 DEF CheckedOpen, Having
  <2>2. Opening' \subseteq Opening
    BY <1>6, <1>7 DEF Opening
  <2>3. QED
    BY <1>8, <1>10, <1>11, <2>1, <2>2, LimitKept
<1>14. QED
  BY <1>3, <1>12, <1>13

\* A step that changes one position which then is closed, or a thread that is done.
LEMMA OneCloses ==
  ASSUME LimitInv, NEW i \in DeskIds, NEW h, IsPosition(h), h.checked = holdings[i].checked,
         paperDesk' = paperDesk,
         holdings' = [holdings EXCEPT ![i] = h], LimitTypes', Opening' \subseteq Opening,
         h.status = "OPEN" => holdings[i].status = "OPEN",
         paperDesk # "execution" => task' = task
  PROVE  LimitInv'
<1>1. holdings' = [k \in DeskIds |-> IF k = i THEN h ELSE holdings[k]]
  BY DEF LimitInv, LimitTypes
<1>2. Unchecked'
  BY <1>1 DEF LimitInv, Unchecked
<1>3. CheckedOpen' \subseteq CheckedOpen
  BY <1>1 DEF CheckedOpen, Having
<1>4. Having("OPEN")' \subseteq Having("OPEN") \cup {i}
  BY <1>1 DEF Having
<1>5. QED
  BY <1>2, <1>3, <1>4, LimitKept

LEMMA ClosesLimit ==
  ASSUME LimitInv, NEW w \in DeskThreads, NEW i \in DeskIds, NEW price, DeskCloses(w, i, price)
  PROVE  LimitInv'
<1> DEFINE gain == Earned(holdings[i].ticket, price, holdings[i].left)
           h == [holdings[i] EXCEPT !.status = "CLOSED", !.gain = gain, !.left = 0]
           new == [AtRest EXCEPT !.kind = "recording", !.gain = gain]
<1>1. /\ paperDesk' = paperDesk /\ paperDesk = "execution"
      /\ holdings' = [holdings EXCEPT ![i].status = "CLOSED", ![i].gain = gain, ![i].left = 0]
      /\ task' = [task EXCEPT ![w] = new]
  BY DEF DeskCloses
<1> HIDE DEF gain
<1>2. IsPosition(holdings[i]) /\ holdings = [k \in DeskIds |-> holdings[k]]
  BY DEF LimitInv, LimitTypes
<1>3. holdings' = [holdings EXCEPT ![i] = h]
  BY <1>1, <1>2
<1>4. IsPosition(h) /\ h.status = "CLOSED" /\ h.checked = holdings[i].checked
  BY <1>2 DEF IsPosition
<1>5. IsTask(new) /\ new.kind = "recording"
  BY DEF IsTask, AtRest
<1> HIDE DEF h, new
<1>6. /\ holdings' = [k \in DeskIds |-> IF k = i THEN h ELSE holdings[k]]
      /\ task' = [v \in DeskThreads |-> IF v = w THEN new ELSE task[v]]
  BY <1>1, <1>2, <1>3 DEF LimitInv, LimitTypes
<1>7. LimitTypes'
  BY <1>4, <1>5, <1>6 DEF LimitInv, LimitTypes
<1>8. Opening' \subseteq Opening
  BY <1>5, <1>6 DEF Opening
<1>9. QED
  BY <1>1, <1>3, <1>4, <1>7, <1>8, OneCloses

LEMMA RecordsLimit ==
  ASSUME LimitInv, NEW w \in DeskThreads, DeskRecords(w)
  PROVE  LimitInv'
<1>1. /\ paperDesk' = paperDesk /\ holdings' = holdings /\ task[w].kind = "recording"
      /\ task' = [task EXCEPT ![w] = AtRest]
  BY DEF DeskRecords
<1>2. IsTask(AtRest) /\ AtRest.kind = "none"
  BY DEF IsTask, AtRest
<1>3. task' = [v \in DeskThreads |-> IF v = w THEN AtRest ELSE task[v]]
  BY <1>1 DEF LimitInv, LimitTypes
<1>4. LimitTypes'
  BY <1>1, <1>2, <1>3 DEF LimitInv, LimitTypes
<1>5. Unchecked'
  BY <1>1, <1>2 DEF LimitInv, Unchecked
<1>6. Opening' \subseteq Opening
  BY <1>2, <1>3 DEF Opening
<1>7. Having("OPEN")' = Having("OPEN") /\ CheckedOpen' = CheckedOpen
  BY <1>1 DEF Having, CheckedOpen
<1>8. QED
  BY <1>4, <1>5, <1>6, <1>7, LimitKept

\* The other books have no risk check.
LEMMA OthersLimit ==
  ASSUME LimitInv, paperDesk # "execution", paperDesk' = paperDesk, task' = task,
         NEW i, NEW f, holdings' = [k \in DeskIds |-> f[k]],
         \A k \in DeskIds : IsPosition(f[k]) /\ ~f[k].checked,
         \A k \in DeskIds \ {i} : f[k].status = "OPEN" => holdings[k].status = "OPEN"
  PROVE  LimitInv'
<1>1. LimitTypes'
  BY DEF LimitInv, LimitTypes
<1>2. Unchecked'
  BY DEF LimitInv, Unchecked
<1>3. CheckedOpen' \subseteq CheckedOpen
  BY DEF CheckedOpen, Having
<1>4. Opening' \subseteq Opening
  BY DEF Opening
<1>5. Having("OPEN")' \subseteq Having("OPEN") \cup {i}
  BY DEF Having
<1>6. QED
  BY <1>1, <1>2, <1>3, <1>4, <1>5, LimitKept

\* One position of such a book changes.
LEMMA OtherPosition ==
  ASSUME LimitInv, paperDesk # "execution", paperDesk' = paperDesk, task' = task,
         NEW i \in DeskIds, NEW h, IsPosition(h), ~h.checked,
         holdings' = [holdings EXCEPT ![i] = h]
  PROVE  LimitInv'
<1> DEFINE f == [k \in DeskIds |-> IF k = i THEN h ELSE holdings[k]]
<1>1. holdings' = [k \in DeskIds |-> f[k]]
  BY DEF LimitInv, LimitTypes
<1>2. \A k \in DeskIds : IsPosition(f[k]) /\ ~f[k].checked
  BY DEF LimitInv, LimitTypes, Unchecked
<1>3. \A k \in DeskIds \ {i} : f[k].status = "OPEN" => holdings[k].status = "OPEN"
  OBVIOUS
<1> HIDE DEF f
<1>4. QED
  BY <1>1, <1>2, <1>3, OthersLimit

LEMMA OpenedPosition ==
  ASSUME NEW t PROVE IsPosition(Opened(t, FALSE)) /\ ~Opened(t, FALSE).checked
<1>1. ~Opened(t, FALSE).checked
  BY DEF Opened, NoPosition
<1>2. DOMAIN Opened(t, FALSE) = {"ticket", "status", "left", "filled", "gain", "checked"}
  BY DEF Opened, NoPosition
<1>3. Opened(t, FALSE).checked \in BOOLEAN
  BY DEF Opened, NoPosition
<1>4. QED
  BY <1>1, <1>2, <1>3 DEF IsPosition

LEMMA ManagerLimit ==
  ASSUME LimitInv,
         \/ \E i \in DeskIds, t \in DeskTickets : ManagerOpens(i, t)
         \/ \E i \in DeskIds, price \in DeskPrices :
              \E quantity \in 1..holdings[i].left : ManagerExits(i, quantity, price)
  PROVE  LimitInv'
<1>1. ASSUME NEW i \in DeskIds, NEW t \in DeskTickets, ManagerOpens(i, t) PROVE LimitInv'
  <2>1. /\ paperDesk # "execution" /\ paperDesk' = paperDesk /\ task' = task
        /\ holdings' = [holdings EXCEPT ![i] = Opened(t, FALSE)]
    BY <1>1 DEF ManagerOpens
  <2>2. QED
    BY <2>1, OpenedPosition, OtherPosition
<1>2. ASSUME NEW i \in DeskIds, NEW price, NEW quantity, ManagerExits(i, quantity, price)
      PROVE  LimitInv'
  <2> DEFINE left == holdings[i].left - quantity
             gain == holdings[i].gain + Earned(holdings[i].ticket, price, quantity)
             status == IF left = 0 THEN "CLOSED" ELSE "OPEN"
             h == [holdings[i] EXCEPT !.left = left, !.gain = gain, !.status = status]
  <2>1. /\ paperDesk # "execution" /\ paperDesk' = paperDesk /\ task' = task
        /\ holdings' = [holdings EXCEPT ![i].left = left,
                          ![i].gain = @ + Earned(holdings[i].ticket, price, quantity),
                          ![i].status = status]
    BY <1>2 DEF ManagerExits
  <2> HIDE DEF left, status
  <2>2. IsPosition(holdings[i]) /\ holdings = [k \in DeskIds |-> holdings[k]]
        /\ ~holdings[i].checked
    BY <2>1 DEF LimitInv, LimitTypes, Unchecked
  <2>3. holdings' = [holdings EXCEPT ![i] = h]
    BY <2>1, <2>2 DEF IsPosition
  <2>4. IsPosition(h) /\ ~h.checked
    BY <2>2 DEF IsPosition
  <2> HIDE DEF h
  <2>5. QED
    BY <2>1, <2>3, <2>4, OtherPosition
<1>3. QED
  BY <1>1, <1>2

LEMMA PortfolioLimit ==
  ASSUME LimitInv,
         \/ \E t \in DeskTickets : PortfolioOpens(t)
         \/ \E price \in DeskPrices : PortfolioUpdates(price)
  PROVE  LimitInv'
<1>1. ASSUME NEW t, PortfolioOpens(t) PROVE LimitInv'
  <2>1. PICK i \in Fresh : holdings' = [holdings EXCEPT ![i] = Opened(t, FALSE)]
    BY <1>1 DEF PortfolioOpens
  <2>2. paperDesk # "execution" /\ paperDesk' = paperDesk /\ task' = task /\ i \in DeskIds
    BY <1>1, <2>1 DEF PortfolioOpens, Fresh, Having
  <2>3. QED
    BY <2>1, <2>2, OpenedPosition, OtherPosition
<1>2. ASSUME NEW price, PortfolioUpdates(price) PROVE LimitInv'
  <2> DEFINE f == [i \in DeskIds |-> IF i \in Leaving(price)
                     THEN [holdings[i] EXCEPT !.status = "CLOSED", !.left = 0,
                                              !.gain = PortfolioGain(i, price)]
                     ELSE holdings[i]]
  <2>1. /\ paperDesk # "execution" /\ paperDesk' = paperDesk /\ task' = task
        /\ holdings' = [k \in DeskIds |-> f[k]]
    BY <1>2 DEF PortfolioUpdates
  <2>2. \A k \in DeskIds : IsPosition(holdings[k]) /\ ~holdings[k].checked
    BY <2>1 DEF LimitInv, LimitTypes, Unchecked
  <2>3. ASSUME NEW k \in DeskIds
        PROVE  /\ IsPosition(f[k]) /\ ~f[k].checked
               /\ f[k].status = "OPEN" => holdings[k].status = "OPEN"
    <3>1. CASE k \in Leaving(price)
      <4> DEFINE gain == PortfolioGain(k, price)
      <4>1. f[k] = [holdings[k] EXCEPT !.status = "CLOSED", !.left = 0, !.gain = gain]
        BY <3>1
      <4> HIDE DEF gain, f
      <4>2. QED
        BY <2>2, <4>1 DEF IsPosition
    <3>2. CASE k \notin Leaving(price)
      BY <2>2, <3>2
    <3>3. QED
      BY <3>1, <3>2
  <2> HIDE DEF f
  <2>4. QED
    BY <2>1, <2>3, OthersLimit
<1>3. QED
  BY <1>1, <1>2

LEMMA LifecycleLimit ==
  ASSUME LimitInv,
         \/ \E t \in DeskTickets : LifecycleSubmits(t)
         \/ \E i \in DeskIds, price \in DeskPrices :
              \E quantity \in 1..holdings[i].ticket.quantity : LifecycleFills(i, quantity, price)
         \/ \E i \in DeskIds : LifecycleCancels(i)
  PROVE  LimitInv'
<1>1. ASSUME NEW t, LifecycleSubmits(t) PROVE LimitInv'
  <2> DEFINE h == [NoPosition EXCEPT !.ticket = t, !.status = "PENDING"]
  <2>1. PICK i \in Fresh : holdings' = [holdings EXCEPT ![i] = h]
    BY <1>1 DEF LifecycleSubmits
  <2>2. paperDesk # "execution" /\ paperDesk' = paperDesk /\ task' = task /\ i \in DeskIds
    BY <1>1, <2>1 DEF LifecycleSubmits, Fresh, Having
  <2>3. IsPosition(h) /\ ~h.checked
    <3>1. ~h.checked /\ h.checked \in BOOLEAN
      BY DEF NoPosition
    <3>2. DOMAIN h = {"ticket", "status", "left", "filled", "gain", "checked"}
      BY DEF NoPosition
    <3>3. QED
      BY <3>1, <3>2 DEF IsPosition
  <2> HIDE DEF h
  <2>4. QED
    BY <2>1, <2>2, <2>3, OtherPosition
<1>2. ASSUME NEW i \in DeskIds, NEW price, NEW quantity, LifecycleFills(i, quantity, price)
      PROVE  LimitInv'
  <2> DEFINE filled == holdings[i].filled + quantity
             status == IF filled = holdings[i].ticket.quantity THEN "FILLED" ELSE "PARTIAL"
             ticket == [holdings[i].ticket EXCEPT !.entry = price]
             h == [holdings[i] EXCEPT !.filled = filled, !.ticket = ticket, !.status = status]
  <2>1. /\ paperDesk # "execution" /\ paperDesk' = paperDesk /\ task' = task
        /\ holdings' = [holdings EXCEPT ![i].filled = filled, ![i].ticket.entry = price,
                                        ![i].status = status]
    BY <1>2 DEF LifecycleFills
  <2> HIDE DEF filled, status
  <2>2. IsPosition(holdings[i]) /\ holdings = [k \in DeskIds |-> holdings[k]]
        /\ ~holdings[i].checked
    BY <2>1 DEF LimitInv, LimitTypes, Unchecked
  <2>3. holdings' = [holdings EXCEPT ![i] = h]
    BY <2>1, <2>2 DEF IsPosition
  <2>4. IsPosition(h) /\ ~h.checked
    BY <2>2 DEF IsPosition
  <2> HIDE DEF h
  <2>5. QED
    BY <2>1, <2>3, <2>4, OtherPosition
<1>3. ASSUME NEW i \in DeskIds, LifecycleCancels(i) PROVE LimitInv'
  <2> DEFINE h == [holdings[i] EXCEPT !.status = "CANCELLED"]
  <2>1. /\ paperDesk # "execution" /\ paperDesk' = paperDesk /\ task' = task
        /\ holdings' = [holdings EXCEPT ![i].status = "CANCELLED"]
    BY <1>3 DEF LifecycleCancels
  <2>2. IsPosition(holdings[i]) /\ holdings = [k \in DeskIds |-> holdings[k]]
        /\ ~holdings[i].checked
    BY <2>1 DEF LimitInv, LimitTypes, Unchecked
  <2>3. holdings' = [holdings EXCEPT ![i] = h]
    BY <2>1, <2>2
  <2>4. IsPosition(h) /\ ~h.checked
    BY <2>2 DEF IsPosition
  <2> HIDE DEF h
  <2>5. QED
    BY <2>1, <2>3, <2>4, OtherPosition
<1>4. QED
  BY <1>1, <1>2, <1>3

LEMMA LimitPreserved ==
  ASSUME LimitInv, DeskNext PROVE LimitInv'
<1>1. ASSUME NEW w \in DeskThreads, NEW t \in DeskTickets, NEW given \in BOOLEAN,
             DeskAdmits(w, t, given)
      PROVE  LimitInv'
  BY <1>1, AdmitsLimit
<1>2. ASSUME NEW w \in DeskThreads, DeskInserts(w) \/ DeskRecords(w) PROVE LimitInv'
  BY <1>2, InsertsLimit, RecordsLimit
<1>3. ASSUME NEW w \in DeskThreads, NEW i \in DeskIds, NEW price \in DeskPrices,
             DeskCloses(w, i, price)
      PROVE  LimitInv'
  BY <1>3, ClosesLimit
<1>4. QED
  BY <1>1, <1>2, <1>3, ManagerLimit, PortfolioLimit, LifecycleLimit DEF DeskNext

\* However many requests are between their risk check and the insertion of their position:
\* the open positions that were checked pass the limit by at most one for each of the
\* other threads (RiskLimits.max_positions).
THEOREM LimitCorrect == DeskSpec => []PositionsNearTheLimit
<1>1. DeskInit => LimitInv
  BY LimitStarts
<1>2. LimitInv /\ [DeskNext]_deskVars => LimitInv'
  <2>1. ASSUME LimitInv, DeskNext PROVE LimitInv'
    BY <2>1, LimitPreserved
  <2>2. ASSUME LimitInv, UNCHANGED deskVars PROVE LimitInv'
    <3>1. holdings' = holdings /\ task' = task /\ paperDesk' = paperDesk
      BY <2>2 DEF deskVars
    <3>2. QED
      BY <2>2, <3>1 DEF LimitInv, LimitTypes, Unchecked, Having, CheckedOpen, Opening
  <2>3. QED
    BY <2>1, <2>2
<1>3. LimitInv => PositionsNearTheLimit
  <2>1. CheckedOpen = {i \in Having("OPEN") : holdings[i].checked}
    BY DEF CheckedOpen
  <2>2. ASSUME LimitInv
        PROVE  Cardinality(CheckedOpen) <= DeskLimit + Cardinality(DeskThreads) - 1
    BY <2>2, Finites DEF LimitInv
  <2>3. QED
    BY <2>1, <2>2 DEF PositionsNearTheLimit
<1>4. QED
  BY <1>1, <1>2, <1>3, PTL DEF DeskSpec

-----------------------------------------------------------------------------
(* The money of the paper books.                                            *)

\* The sum of a sequence grows by what is appended.
LEMMA SumOfAppended ==
  ASSUME NEW s \in Seq(Int), NEW x \in Int
  PROVE  SumFunctionOnSet(Append(s, x), 1..Len(Append(s, x)))
           = SumFunctionOnSet(s, 1..Len(s)) + x
<1> DEFINE r == Append(s, x)
           n == Len(s)
<1>1. n \in Nat /\ Len(r) = n + 1 /\ 1..(n + 1) = (1..n) \cup {n + 1} /\ n + 1 \notin 1..n
  OBVIOUS
<1>2. r[n + 1] = x /\ \A k \in 1..n : s[k] \in Int /\ r[k] = s[k]
  OBVIOUS
<1> HIDE DEF r, n
<1>3. IsFiniteSet(1..n)
  BY <1>1, FS_Interval
<1>4. SumFunctionOnSet(r, 1..n) = SumFunctionOnSet(s, 1..n)
  BY <1>2, <1>3, SumOfEqual
<1>5. SumFunctionOnSet(s, 1..n) \in Int
  <2>1. \A k \in 1..n : s[k] \in Int
    BY <1>2
  <2>2. QED
    BY <1>3, <2>1, SumType
<1>6. SumFunctionOnSet(r, (1..n) \cup {n + 1}) = r[n + 1] + SumFunctionOnSet(r, 1..n)
  <2>1. \A k \in (1..n) \cup {n + 1} : r[k] \in Int
    BY <1>2
  <2>2. n + 1 \notin 1..n
    BY <1>1
  <2> DEFINE y == n + 1
  <2> HIDE DEF y
  <2>3. SumFunctionOnSet(r, (1..n) \cup {y}) = r[y] + SumFunctionOnSet(r, 1..n)
    BY <1>3, <2>1, <2>2, SumAdds DEF y
  <2>4. QED
    BY <2>3 DEF y
<1>7. 1..Len(r) = (1..n) \cup {n + 1}
  BY <1>1
<1>8. SumFunctionOnSet(r, 1..Len(r)) = x + SumFunctionOnSet(s, 1..n)
  BY <1>2, <1>4, <1>6, <1>7
<1>9. QED
  BY <1>5, <1>8 DEF r, n

\* SetToSeq lists every element of a finite set once.
LEMMA Listing ==
  ASSUME NEW S, IsFiniteSet(S)
  PROVE  /\ SetToSeq(S) \in [1..Cardinality(S) -> S]
         /\ \A j, k \in 1..Cardinality(S) : SetToSeq(S)[j] = SetToSeq(S)[k] => j = k
         /\ \A x \in S : \E k \in 1..Cardinality(S) : SetToSeq(S)[k] = x
<1> DEFINE N == 1..Cardinality(S)
           f == SetToSeq(S)
<1>1. Cardinality(S) \in Nat /\ ExistsBijection(N, S)
  BY FS_CardinalityType
<1>2. \E g \in [N -> S] : IsInjective(g)
  BY <1>1 DEF ExistsBijection, Bijection, Injection, IsInjective
<1>3. f \in [N -> S] /\ IsInjective(f)
  <2>1. f = CHOOSE g \in [N -> S] : IsInjective(g)
    BY DEF SetToSeq
  <2> HIDE DEF f, N
  <2>2. QED
    BY <1>2, <2>1
<1>4. \A j, k \in N : f[j] = f[k] => j = k
  <2> HIDE DEF f, N
  <2>1. QED
    BY <1>3 DEF IsInjective
<1>5. \A x \in S : \E k \in N : f[k] = x
  <2> DEFINE I == {f[k] : k \in N}
  <2> HIDE DEF f, N
  <2>1. I \in SUBSET S
    BY <1>3
  <2>2. f \in [N -> I] /\ \A x \in I : \E k \in N : f[k] = x
    BY <1>3
  <2>3. ExistsBijection(N, I)
    <3> HIDE DEF I
    <3>1. f \in Bijection(N, I)
      BY <1>4, <2>2 DEF Bijection, Injection, Surjection, IsInjective
    <3>2. QED
      BY <3>1 DEF ExistsBijection
  <2>4. IsFiniteSet(N) /\ Cardinality(N) = Cardinality(S)
    BY <1>1, FS_Interval DEF N
  <2>5. Cardinality(I) = Cardinality(S)
    <3> HIDE DEF I
    <3>1. QED
      BY <2>3, <2>4, FS_Bijection
  <2>6. I = S
    <3> HIDE DEF I
    <3>1. QED
      BY <2>1, <2>5, FS_Subset
  <2>7. QED
    BY <2>6
<1>6. QED
  BY <1>3, <1>4, <1>5

\* A sum over a finite set, listed.
LEMMA SumOfListing ==
  ASSUME NEW S, IsFiniteSet(S), NEW g, \A x \in S : g[x] \in Int
  PROVE  SumFunctionOnSet([k \in 1..Cardinality(S) |-> g[SetToSeq(S)[k]]], 1..Cardinality(S))
           = SumFunctionOnSet(g, S)
<1> DEFINE N == 1..Cardinality(S)
           key == SetToSeq(S)
           f == [k \in N |-> g[key[k]]]
<1>1. IsFiniteSet(N)
  BY FS_CardinalityType, FS_Interval
<1>2. /\ key \in [N -> S] /\ \A j, k \in N : key[j] = key[k] => j = k
      /\ \A x \in S : \E k \in N : key[k] = x
  BY Listing
<1> HIDE DEF key, N
<1>3. \A k \in N : f[k] = g[key[k]] /\ f[k] \in Int /\ key[k] \in S
  BY <1>2
<1> HIDE DEF f
<1>4. ASSUME NEW x \in S PROVE g[x] = SumFunctionOnSet(f, {k \in N : key[k] = x})
  <2> DEFINE group == {k \in N : key[k] = x}
  <2>1. PICK k \in N : key[k] = x
    BY <1>2
  <2>2. group = {} \cup {k}
    BY <1>2, <2>1
  <2>3. SumFunctionOnSet(f, {} \cup {k}) = f[k] + SumFunctionOnSet(f, {})
    <3>1. IsFiniteSet({}) /\ k \notin {} /\ \A j \in {} \cup {k} : f[j] \in Int
      BY <1>3, FS_EmptySet
    <3>2. QED
      BY <3>1, SumAdds
  <2>4. SumFunctionOnSet(f, {}) = 0 /\ f[k] = g[x] /\ f[k] \in Int
    BY <1>3, <2>1, SumEmpty
  <2> HIDE DEF group
  <2>5. g[x] = SumFunctionOnSet(f, group)
    BY <2>2, <2>3, <2>4
  <2>6. QED
    BY <2>5 DEF group
<1>5. Grouped(f, N, key, S, g)
  BY <1>1, <1>3, <1>4 DEF Grouped
<1>6. SumFunctionOnSet(g, S) = SumFunctionOnSet(f, N)
  BY <1>5, SumRegrouped
<1>7. QED
  BY <1>6 DEF f, N, key

\* The sum of two sequences, one after the other.
LEMMA SumOfConcat ==
  ASSUME NEW s \in Seq(Int), NEW n \in Nat, NEW f, f \in [1..n -> Int]
  PROVE  /\ s \o f \in Seq(Int)
         /\ SumFunctionOnSet(s \o f, 1..Len(s \o f))
              = SumFunctionOnSet(s, 1..Len(s)) + SumFunctionOnSet(f, 1..n)
<1> DEFINE m == Len(s)
<1>1. f \in Seq(Int) /\ Len(f) = n
  OBVIOUS
<1>2. /\ s \o f \in Seq(Int) /\ m \in Nat /\ Len(s \o f) = m + n
      /\ \A k \in 1..m : (s \o f)[k] = s[k] /\ s[k] \in Int
      /\ \A k \in (m + 1)..(m + n) : (s \o f)[k] = f[k - m]
  <2>1. s \o f \in Seq(Int) /\ m \in Nat /\ Len(s \o f) = m + n
    <3>1. \A q \in Seq(Int) : s \o q \in Seq(Int) /\ Len(s \o q) = Len(s) + Len(q)
      OBVIOUS
    <3>2. m \in Nat
      OBVIOUS
    <3>3. QED
      BY <1>1, <3>1, <3>2
  <2>2. \A k \in 1..m : (s \o f)[k] = s[k] /\ s[k] \in Int
    BY <1>1
  <2>3. \A k \in (m + 1)..(m + n) : (s \o f)[k] = f[k - m]
    BY <1>1
  <2>4. QED
    BY <2>1, <2>2, <2>3
<1> DEFINE r == s \o f
           F == [k \in 1..(m + n) |-> IF k \in 1..m THEN r[k] ELSE 0]
           G == [k \in 1..(m + n) |-> IF k \in 1..m THEN 0 ELSE r[k]]
           back == [k \in (m + 1)..(m + n) |-> k - m]
<1>3. /\ IsFiniteSet(1..(m + n)) /\ IsFiniteSet(1..m) /\ IsFiniteSet(1..n)
      /\ IsFiniteSet((m + 1)..(m + n))
      /\ 1..m \in SUBSET (1..(m + n)) /\ (m + 1)..(m + n) \in SUBSET (1..(m + n))
      /\ 1..(m + n) = (1..m) \cup ((m + 1)..(m + n))
      /\ \A k \in (m + 1)..(m + n) : k \notin 1..m /\ k - m \in 1..n
      /\ \A k \in 1..n : k + m \in (m + 1)..(m + n) /\ (k + m) - m = k
      /\ \A k \in 1..n, j \in (m + 1)..(m + n) : j - m = k => j = k + m
  <2>1. m \in Nat
    BY <1>2
  <2> HIDE DEF m
  <2>2. /\ IsFiniteSet(1..(m + n)) /\ IsFiniteSet(1..m) /\ IsFiniteSet(1..n)
        /\ IsFiniteSet((m + 1)..(m + n))
    <3>1. 1 \in Int /\ m \in Int /\ n \in Int /\ m + n \in Int /\ m + 1 \in Int
      BY <2>1
    <3>2. QED
      BY <3>1, FS_Interval
  <2>3. /\ 1..m \in SUBSET (1..(m + n)) /\ (m + 1)..(m + n) \in SUBSET (1..(m + n))
        /\ 1..(m + n) = (1..m) \cup ((m + 1)..(m + n))
    BY <2>1
  <2>4. /\ \A k \in (m + 1)..(m + n) : k \notin 1..m /\ k - m \in 1..n
        /\ \A k \in 1..n : k + m \in (m + 1)..(m + n) /\ (k + m) - m = k
        /\ \A k \in 1..n, j \in (m + 1)..(m + n) : j - m = k => j = k + m
    BY <2>1
  <2>5. QED
    BY <2>2, <2>3, <2>4
<1> HIDE DEF m, r
<1>4. \A k \in 1..(m + n) : F[k] \in Int /\ G[k] \in Int /\ r[k] = F[k] + G[k]
  <2>1. SUFFICES ASSUME NEW k \in 1..(m + n)
                 PROVE  F[k] \in Int /\ G[k] \in Int /\ r[k] = F[k] + G[k]
    OBVIOUS
  <2>2. r[k] \in Int
    <3>1. CASE k \in 1..m
      BY <1>2, <3>1 DEF r
    <3>2. CASE k \in (m + 1)..(m + n)
      BY <1>2, <1>3, <3>2 DEF r
    <3>3. QED
      BY <1>3, <3>1, <3>2
  <2>3. /\ F[k] = IF k \in 1..m THEN r[k] ELSE 0
        /\ G[k] = IF k \in 1..m THEN 0 ELSE r[k]
    OBVIOUS
  <2> HIDE DEF F, G
  <2>4. QED
    BY <2>2, <2>3
<1>5. SumFunctionOnSet(r, 1..(m + n))
        = SumFunctionOnSet(F, 1..(m + n)) + SumFunctionOnSet(G, 1..(m + n))
  <2> DEFINE D == 1..(m + n)
  <2>1. IsFiniteSet(D) /\ \A k \in D : F[k] \in Int /\ G[k] \in Int /\ r[k] = F[k] + G[k]
    BY <1>3, <1>4
  <2> HIDE DEF F, G, D
  <2>2. SumFunctionOnSet(r, D) = SumFunctionOnSet(F, D) + SumFunctionOnSet(G, D)
    BY <2>1, SumOfSums
  <2>3. QED
    BY <2>2 DEF D
<1>6. SumFunctionOnSet(F, 1..(m + n)) = SumFunctionOnSet(s, 1..m)
  <2>1. /\ \A k \in 1..(m + n) : F[k] \in Int
        /\ \A k \in (1..(m + n)) \ (1..m) : F[k] = 0
    BY <1>4
  <2>2. \A k \in 1..m : s[k] \in Int /\ F[k] = s[k]
    BY <1>2, <1>3 DEF r
  <2> HIDE DEF F
  <2>3. SumFunctionOnSet(F, 1..m) = SumFunctionOnSet(F, 1..(m + n))
    <3>1. \A k \in 1..(m + n) : F[k] \in Int
      BY <2>1
    <3>2. \A k \in (1..(m + n)) \ (1..m) : F[k] = 0
      BY <2>1
    <3>3. QED
      BY <1>3, <3>1, <3>2, SumOfNonzero
  <2>4. SumFunctionOnSet(F, 1..m) = SumFunctionOnSet(s, 1..m)
    BY <1>3, <2>2, SumOfEqual
  <2>5. QED
    BY <2>3, <2>4
<1>7. SumFunctionOnSet(G, 1..(m + n)) = SumFunctionOnSet(f, 1..n)
  <2> DEFINE M == (m + 1)..(m + n)
  <2>1. \A k \in 1..(m + n) : G[k] \in Int
    BY <1>4
  <2>2. \A k \in (1..(m + n)) \ M : G[k] = 0
    BY <1>3
  <2>3. SumFunctionOnSet(G, M) = SumFunctionOnSet(G, 1..(m + n))
    <3>1. M \in SUBSET (1..(m + n)) /\ IsFiniteSet(1..(m + n))
      BY <1>3
    <3> HIDE DEF G, M
    <3>2. QED
      BY <2>1, <2>2, <3>1, SumOfNonzero
  <2>4. ASSUME NEW j \in 1..n PROVE f[j] = SumFunctionOnSet(G, {k \in M : back[k] = j})
    <3> DEFINE k == j + m
               group == {i \in M : back[i] = j}
    <3>1. k \in M /\ group = {} \cup {k}
      BY <1>3
    <3>2. G[k] = f[j] /\ f[j] \in Int
      <4>1. r[k] = f[k - m]
        BY <1>2, <3>1 DEF r
      <4>2. k \notin 1..m /\ k \in 1..(m + n) /\ k - m = j
        BY <1>3, <3>1
      <4>3. QED
        BY <4>1, <4>2
    <3> HIDE DEF k, G, M, group
    <3>3. SumFunctionOnSet(G, {} \cup {k}) = G[k] + SumFunctionOnSet(G, {})
      <4>1. IsFiniteSet({}) /\ k \notin {} /\ \A i \in {} \cup {k} : G[i] \in Int
        BY <3>2, FS_EmptySet
      <4>2. QED
        BY <4>1, SumAdds
    <3>4. SumFunctionOnSet(G, {}) = 0
      BY SumEmpty
    <3>5. f[j] = SumFunctionOnSet(G, group)
      BY <3>1, <3>2, <3>3, <3>4
    <3>6. QED
      BY <3>5 DEF group
  <2>5. \A k \in M : G[k] \in Int /\ back[k] \in 1..n
    BY <1>3, <2>1
  <2>6. IsFiniteSet(M) /\ IsFiniteSet(1..n)
    BY <1>3
  <2> HIDE DEF G, M, back
  <2>7. Grouped(G, M, back, 1..n, f)
    BY <2>4, <2>5, <2>6 DEF Grouped
  <2>8. SumFunctionOnSet(f, 1..n) = SumFunctionOnSet(G, M)
    BY <2>7, SumRegrouped
  <2>9. QED
    BY <2>3, <2>8
<1>8. QED
  BY <1>2, <1>5, <1>6, <1>7 DEF r, m

Tickets0 == [side : {-1, 1}, quantity : Nat, entry : Nat, stop : Nat, target : Nat]

IsDeal(h) == h.ticket \in Tickets0 /\ h.left \in Nat /\ h.filled \in Nat /\ h.gain \in Int

\* What was paid for the open part of a position.
CostOfDeal(h) == IF h.status = "OPEN" THEN h.ticket.side * h.left * h.ticket.entry ELSE 0
DealCosts == [i \in DeskIds |-> CostOfDeal(holdings[i])]
DealCost == SumFunctionOnSet(DealCosts, DeskIds)

MoneyTypes ==
  /\ \A i \in DeskIds : IsDeal(holdings[i])
  /\ \A w \in DeskThreads : /\ task[w].ticket \in Tickets0 /\ task[w].gain \in Int
                            /\ task[w].kind # "recording" => task[w].gain = 0
  /\ earnings \in Int /\ cash \in Int /\ fees \in Int /\ tradeRows \in Seq(Int)

\* What the trades earned, less the entry fees, is what came in and what is in positions.
Balanced == paperDesk \in Deals => earnings - fees = cash + DealCost

Journaled == paperDesk \in {"execution", "portfolio"} => JournalNet + Recording = earnings

InOrder == paperDesk = "lifecycle" => \A i \in DeskIds : Reconciled(holdings[i])

MoneyInv == LimitInv /\ MoneyTypes /\ Balanced /\ Journaled /\ InOrder

LEMMA DealMoney ==
  ASSUME NEW t \in Tickets0, NEW price \in Int, NEW q \in Int
  PROVE  /\ Paid(t, price, q) \in Int /\ Earned(t, price, q) \in Int
         /\ t.side * q * t.entry \in Int
         /\ Paid(t, price, q) = Earned(t, price, q) + t.side * q * t.entry
         /\ Paid(t, t.entry, q) = t.side * q * t.entry
<1> DEFINE e == t.entry
           d == t.side
<1>1. e \in Int /\ d \in {-1, 1}
  BY DEF Tickets0
<1>2. Paid(t, price, q) = d * q * price /\ Earned(t, price, q) = (price - e) * q * d
      /\ Paid(t, t.entry, q) = d * q * e
  BY DEF Paid, Earned
<1> HIDE DEF e, d
<1>3. /\ d * q * price \in Int /\ (price - e) * q * d \in Int /\ d * q * e \in Int
      /\ d * q * price = (price - e) * q * d + d * q * e
  <2>1. CASE d = 1
    BY <1>1, <2>1
  <2>2. CASE d = -1
    BY <1>1, <2>2
  <2>3. QED
    BY <1>1, <2>1, <2>2
<1>4. t.side * q * t.entry = d * q * e
  BY DEF d, e
<1>5. QED
  BY <1>2, <1>3, <1>4

LEMMA CostType ==
  ASSUME NEW h, IsDeal(h) PROVE CostOfDeal(h) \in Int
<1>1. h.ticket.side * h.left * h.ticket.entry \in Int
  <2>1. h.ticket \in Tickets0 /\ h.left \in Int /\ 0 \in Int
    BY DEF IsDeal
  <2>2. QED
    BY <2>1, DealMoney
<1>2. QED
  BY <1>1 DEF CostOfDeal

LEMMA MoneyTypesAfter ==
  ASSUME \A k \in DeskIds : IsDeal(holdings'[k]),
         \A v \in DeskThreads : /\ task'[v].ticket \in Tickets0 /\ task'[v].gain \in Int
                                /\ task'[v].kind # "recording" => task'[v].gain = 0,
         earnings' \in Int, cash' \in Int, fees' \in Int, tradeRows' \in Seq(Int)
  PROVE  MoneyTypes'
BY DEF MoneyTypes

\* One position changes.
LEMMA OneDeal ==
  ASSUME MoneyInv, NEW i \in DeskIds, NEW h, IsDeal(h), holdings' = [holdings EXCEPT ![i] = h]
  PROVE  /\ \A k \in DeskIds : IsDeal(holdings'[k])
         /\ holdings'[i] = h /\ \A k \in DeskIds \ {i} : holdings'[k] = holdings[k]
         /\ DealCost \in Int
         /\ CostOfDeal(holdings[i]) \in Int /\ CostOfDeal(h) \in Int
         /\ DealCost' = DealCost - CostOfDeal(holdings[i]) + CostOfDeal(h)
<1>1. holdings' = [k \in DeskIds |-> IF k = i THEN h ELSE holdings[k]]
  BY DEF MoneyInv, LimitInv, LimitTypes
<1>2. holdings'[i] = h /\ \A k \in DeskIds \ {i} : holdings'[k] = holdings[k]
  BY <1>1
<1>3. \A k \in DeskIds : IsDeal(holdings[k]) /\ IsDeal(holdings'[k])
  BY <1>2 DEF MoneyInv, MoneyTypes
<1> DEFINE f == DealCosts
           g == DealCosts'
<1>4. /\ \A k \in DeskIds : f[k] \in Int /\ g[k] \in Int
      /\ \A k \in DeskIds \ {i} : g[k] = f[k]
      /\ f[i] = CostOfDeal(holdings[i]) /\ g[i] = CostOfDeal(h)
  <2>1. \A k \in DeskIds : f[k] = CostOfDeal(holdings[k]) /\ g[k] = CostOfDeal(holdings'[k])
    BY DEF DealCosts, CostOfDeal
  <2>2. \A k \in DeskIds : f[k] \in Int /\ g[k] \in Int
    BY <1>3, <2>1, CostType
  <2> HIDE DEF f, g
  <2>3. QED
    BY <1>2, <2>1, <2>2
<1>5. DealCost = SumFunctionOnSet(f, DeskIds) /\ DealCost' = SumFunctionOnSet(g, DeskIds)
  BY DEF DealCost
<1>6. IsFiniteSet(DeskIds)
  OBVIOUS
<1> HIDE DEF f, g
<1>7. /\ SumFunctionOnSet(g, DeskIds) = SumFunctionOnSet(f, DeskIds) - f[i] + g[i]
      /\ SumFunctionOnSet(f, DeskIds) \in Int
  <2> HIDE DeskAssumption
  <2>1. \A k \in DeskIds : f[k] \in Int /\ g[k] \in Int
    BY <1>4
  <2>2. \A k \in DeskIds \ {i} : g[k] = f[k]
    BY <1>4
  <2>3. \A k \in DeskIds : f[k] \in Int
    BY <1>4
  <2>4. SumFunctionOnSet(f, DeskIds) \in Int
    BY <1>6, <2>3, SumType
  <2>5. SumFunctionOnSet(g, DeskIds) = SumFunctionOnSet(f, DeskIds) - f[i] + g[i]
    BY <1>6, <2>1, <2>2, SumChanges
  <2>6. QED
    BY <2>4, <2>5
<1>8. CostOfDeal(holdings[i]) \in Int /\ CostOfDeal(h) \in Int
  BY <1>4
<1>9. QED
  BY <1>2, <1>3, <1>4, <1>5, <1>7, <1>8

\* One thread changes.
LEMMA OneTask ==
  ASSUME MoneyInv, NEW w \in DeskThreads, NEW t, t.gain \in Int, t.ticket \in Tickets0,
         t.kind # "recording" => t.gain = 0, task' = [task EXCEPT ![w] = t]
  PROVE  /\ \A v \in DeskThreads : /\ task'[v].ticket \in Tickets0 /\ task'[v].gain \in Int
                                   /\ task'[v].kind # "recording" => task'[v].gain = 0
         /\ Recording \in Int /\ task[w].gain \in Int
         /\ Recording' = Recording - task[w].gain + t.gain
<1>1. task' = [v \in DeskThreads |-> IF v = w THEN t ELSE task[v]]
  BY DEF MoneyInv, LimitInv, LimitTypes
<1>2. \A v \in DeskThreads : /\ task'[v].ticket \in Tickets0 /\ task'[v].gain \in Int
                             /\ task'[v].kind # "recording" => task'[v].gain = 0
                             /\ task[v].gain \in Int
  BY <1>1 DEF MoneyInv, MoneyTypes
<1> DEFINE f == [v \in DeskThreads |-> task[v].gain]
           g == [v \in DeskThreads |-> task'[v].gain]
<1>3. /\ \A v \in DeskThreads : f[v] \in Int /\ g[v] \in Int
      /\ \A v \in DeskThreads \ {w} : g[v] = f[v]
      /\ f[w] = task[w].gain /\ g[w] = t.gain
  BY <1>1, <1>2
<1>4. Recording = SumFunctionOnSet(f, DeskThreads) /\ Recording' = SumFunctionOnSet(g, DeskThreads)
  BY DEF Recording
<1>5. IsFiniteSet(DeskThreads)
  OBVIOUS
<1> HIDE DEF f, g
<1>6. /\ SumFunctionOnSet(g, DeskThreads) = SumFunctionOnSet(f, DeskThreads) - f[w] + g[w]
      /\ SumFunctionOnSet(f, DeskThreads) \in Int
  <2> HIDE DeskAssumption
  <2>1. \A v \in DeskThreads : f[v] \in Int /\ g[v] \in Int
    BY <1>3
  <2>2. \A v \in DeskThreads \ {w} : g[v] = f[v]
    BY <1>3
  <2>3. \A v \in DeskThreads : f[v] \in Int
    BY <1>3
  <2>4. SumFunctionOnSet(f, DeskThreads) \in Int
    BY <1>5, <2>3, SumType
  <2>5. SumFunctionOnSet(g, DeskThreads) = SumFunctionOnSet(f, DeskThreads) - f[w] + g[w]
    BY <1>5, <2>1, <2>2, SumChanges
  <2>6. QED
    BY <2>4, <2>5
<1>7. QED
  BY <1>2, <1>3, <1>4, <1>6

LEMMA JournalType ==
  ASSUME MoneyTypes PROVE JournalNet \in Int
<1>1. tradeRows \in Seq(Int)
  BY DEF MoneyTypes
<1>2. /\ \A k \in 1..Len(tradeRows) : tradeRows[k] \in Int
      /\ Len(tradeRows) \in Int
  BY <1>1
<1>3. IsFiniteSet(1..Len(tradeRows))
  <2>1. 1 \in Int /\ Len(tradeRows) \in Int
    BY <1>2
  <2>2. QED
    BY <2>1, FS_Interval
<1>4. QED
  BY <1>2, <1>3, SumType DEF JournalNet

LEMMA TicketTypes ==
  /\ NoDeal \in Tickets0 /\ AtRest.ticket = NoDeal /\ AtRest.gain = 0 /\ AtRest.kind = "none"
  /\ \A t \in DeskTickets : t \in Tickets0
  /\ IsDeal(NoPosition) /\ NoPosition.status = "NONE"
<1>1. NoDeal \in Tickets0
  BY DEF NoDeal, Tickets0
<1>2. AtRest.ticket = NoDeal /\ AtRest.gain = 0 /\ AtRest.kind = "none"
  BY DEF AtRest
<1>3. \A t \in DeskTickets : t \in Tickets0
  BY DEF Tickets0
<1>4. /\ NoPosition.ticket = NoDeal /\ NoPosition.left = 0 /\ NoPosition.filled = 0
      /\ NoPosition.gain = 0 /\ NoPosition.status = "NONE"
  BY DEF NoPosition
<1>5. QED
  BY <1>1, <1>2, <1>3, <1>4 DEF IsDeal

LEMMA OpenedDeal ==
  ASSUME NEW t \in Tickets0, NEW given
  PROVE  /\ IsDeal(Opened(t, given))
         /\ CostOfDeal(Opened(t, given)) = Paid(t, t.entry, t.quantity)
<1> DEFINE h == Opened(t, given)
<1>1. /\ h.ticket = t /\ h.status = "OPEN" /\ h.left = t.quantity /\ h.filled = 0 /\ h.gain = 0
  BY DEF Opened, NoPosition
<1>2. t.quantity \in Nat
  BY DEF Tickets0
<1> HIDE DEF h
<1>3. IsDeal(h)
  BY <1>1, <1>2 DEF IsDeal
<1>4. CostOfDeal(h) = t.side * t.quantity * t.entry
  BY <1>1 DEF CostOfDeal
<1>5. t.quantity \in Int /\ 0 \in Int
  BY <1>2
<1>6. CostOfDeal(h) = Paid(t, t.entry, t.quantity)
  BY <1>4, <1>5, DealMoney
<1>7. QED
  BY <1>3, <1>6 DEF h

LEMMA BooksStart == DeskInit => MoneyInv
<1> SUFFICES ASSUME DeskInit PROVE MoneyInv
  OBVIOUS
<1>1. LimitInv
  BY LimitStarts
<1>2. /\ \A i \in DeskIds : holdings[i] = NoPosition
      /\ \A w \in DeskThreads : task[w] = AtRest
      /\ earnings = 0 /\ cash = 0 /\ fees = 0 /\ tradeRows = << >>
  BY DEF DeskInit
<1>3. MoneyTypes
  BY <1>2, TicketTypes DEF MoneyTypes
<1>4. DealCost = 0
  <2>1. \A i \in DeskIds : CostOfDeal(holdings[i]) = 0
    BY <1>2, TicketTypes DEF CostOfDeal
  <2>2. DealCosts = [i \in DeskIds |-> 0]
    BY <2>1 DEF DealCosts
  <2>3. QED
    BY <2>2, SumOfNone DEF DealCost
<1>5. Recording = 0
  <2>1. [w \in DeskThreads |-> task[w].gain] = [w \in DeskThreads |-> 0]
    BY <1>2, TicketTypes
  <2>2. QED
    BY <2>1, SumOfNone DEF Recording
<1>6. JournalNet = 0
  <2>1. 1..Len(tradeRows) = {}
    BY <1>2
  <2>2. QED
    BY <2>1, SumEmpty DEF JournalNet
<1>7. Balanced /\ Journaled
  BY <1>2, <1>4, <1>5, <1>6 DEF Balanced, Journaled
<1>8. InOrder
  <2>1. \A i \in DeskIds : holdings[i].filled = 0 /\ holdings[i].status = "NONE"
                           /\ holdings[i].ticket.quantity = 0
    BY <1>2 DEF NoPosition, NoDeal
  <2>2. QED
    BY <2>1 DEF InOrder, Reconciled
<1>9. QED
  BY <1>1, <1>3, <1>7, <1>8 DEF MoneyInv

LEMMA AdmitsMoney ==
  ASSUME MoneyInv, NEW w \in DeskThreads, NEW t \in DeskTickets, NEW given \in BOOLEAN,
         DeskAdmits(w, t, given)
  PROVE  MoneyInv'
<1> DEFINE new == [AtRest EXCEPT !.kind = "opening", !.ticket = t, !.checked = given]
<1>1. /\ UNCHANGED <<paperDesk, holdings, earnings, fees, tradeRows, cash>>
      /\ paperDesk = "execution" /\ task[w] = AtRest /\ task' = [task EXCEPT ![w] = new]
  BY DEF DeskAdmits
<1>2. new.gain = 0 /\ new.ticket = t /\ new.kind = "opening"
  BY DEF AtRest
<1> HIDE DEF new
<1>3. /\ \A v \in DeskThreads : /\ task'[v].ticket \in Tickets0 /\ task'[v].gain \in Int
                                /\ task'[v].kind # "recording" => task'[v].gain = 0
      /\ Recording \in Int /\ Recording' = Recording - task[w].gain + new.gain
  <2>1. new.gain \in Int /\ new.ticket \in Tickets0 /\ (new.kind # "recording" => new.gain = 0)
    BY <1>2, TicketTypes
  <2>2. QED
    BY <1>1, <2>1, OneTask
<1>4. Recording' = Recording
  BY <1>1, <1>2, <1>3, TicketTypes
<1>5. MoneyTypes'
  BY <1>1, <1>3 DEF MoneyInv, MoneyTypes, IsDeal
<1>6. Balanced' /\ Journaled' /\ InOrder'
  BY <1>1, <1>4 DEF MoneyInv, Balanced, Journaled, InOrder, DealCost, DealCosts, JournalNet
<1>7. LimitInv'
  BY AdmitsLimit DEF MoneyInv
<1>8. QED
  BY <1>5, <1>6, <1>7 DEF MoneyInv

LEMMA InsertsMoney ==
  ASSUME MoneyInv, NEW w \in DeskThreads, DeskInserts(w) PROVE MoneyInv'
<1> DEFINE t == task[w].ticket
<1>1. PICK i \in Fresh : holdings' = [holdings EXCEPT ![i] = Opened(t, task[w].checked)]
  BY DEF DeskInserts
<1>2. /\ task[w].kind = "opening" /\ task' = [task EXCEPT ![w] = AtRest]
      /\ cash' = cash - Paid(t, t.entry, t.quantity)
      /\ UNCHANGED <<paperDesk, earnings, fees, tradeRows>>
  BY DEF DeskInserts
<1>3. t \in Tickets0 /\ task[w].gain = 0 /\ cash \in Int /\ earnings \in Int /\ fees \in Int
  BY <1>2 DEF MoneyInv, MoneyTypes
<1>4. i \in DeskIds /\ holdings[i].status = "NONE"
  BY <1>1 DEF Fresh, Having
<1>5. paperDesk = "execution"
  BY <1>2, TicketTypes DEF MoneyInv, LimitInv, Unchecked
<1> DEFINE h == Opened(t, task[w].checked)
           paid == Paid(t, t.entry, t.quantity)
<1>6. IsDeal(h) /\ CostOfDeal(h) = paid /\ paid \in Int
  <2>1. t.quantity \in Int /\ t.entry \in Int
    BY <1>3 DEF Tickets0
  <2>2. QED
    BY <1>3, <2>1, OpenedDeal, DealMoney
<1>7. CostOfDeal(holdings[i]) = 0
  BY <1>4 DEF CostOfDeal
<1> HIDE DEF t, h, paid
<1>8. /\ \A k \in DeskIds : IsDeal(holdings'[k])
      /\ DealCost \in Int /\ DealCost' = DealCost - CostOfDeal(holdings[i]) + CostOfDeal(h)
  BY <1>1, <1>4, <1>6, OneDeal DEF h
<1>9. /\ \A v \in DeskThreads : /\ task'[v].ticket \in Tickets0 /\ task'[v].gain \in Int
                                /\ task'[v].kind # "recording" => task'[v].gain = 0
      /\ Recording \in Int /\ Recording' = Recording - task[w].gain + AtRest.gain
  <2>1. AtRest.gain \in Int /\ AtRest.ticket \in Tickets0
        /\ (AtRest.kind # "recording" => AtRest.gain = 0)
    BY TicketTypes
  <2>2. QED
    BY <1>2, <2>1, OneTask
<1>10. Recording' = Recording
  BY <1>3, <1>9, TicketTypes
<1>11. cash' = cash - paid
  BY <1>2 DEF paid
<1>12. MoneyTypes'
  <2>1. cash' \in Int
    BY <1>3, <1>6, <1>11
  <2>2. earnings' \in Int /\ fees' \in Int /\ tradeRows' \in Seq(Int)
    BY <1>2, <1>3, Zenon DEF MoneyInv, MoneyTypes
  <2>3. QED
    BY <1>8, <1>9, <2>1, <2>2, Zenon DEF MoneyTypes
<1>13. Balanced'
  BY <1>2, <1>3, <1>5, <1>6, <1>7, <1>8, <1>11 DEF MoneyInv, Balanced
<1>14. Journaled'
  BY <1>2, <1>10 DEF MoneyInv, Journaled, JournalNet
<1>15. InOrder'
  BY <1>2, <1>5 DEF InOrder
<1>16. LimitInv'
  BY InsertsLimit DEF MoneyInv
<1>17. QED
  BY <1>12, <1>13, <1>14, <1>15, <1>16 DEF MoneyInv

LEMMA ClosesMoney ==
  ASSUME MoneyInv, NEW w \in DeskThreads, NEW i \in DeskIds, NEW price \in DeskPrices,
         DeskCloses(w, i, price)
  PROVE  MoneyInv'
<1> DEFINE t == holdings[i].ticket
           left == holdings[i].left
           gain == Earned(t, price, left)
           paid == Paid(t, price, left)
           h == [holdings[i] EXCEPT !.status = "CLOSED", !.gain = gain, !.left = 0]
           new == [AtRest EXCEPT !.kind = "recording", !.gain = gain]
<1>1. /\ paperDesk = "execution" /\ task[w] = AtRest /\ holdings[i].status = "OPEN"
      /\ holdings' = [holdings EXCEPT ![i].status = "CLOSED", ![i].gain = gain, ![i].left = 0]
      /\ earnings' = earnings + gain /\ cash' = cash + paid
      /\ task' = [task EXCEPT ![w] = new]
      /\ UNCHANGED <<paperDesk, fees, tradeRows>>
  BY DEF DeskCloses
<1>2. /\ IsDeal(holdings[i]) /\ IsPosition(holdings[i])
      /\ holdings = [k \in DeskIds |-> holdings[k]]
  BY DEF MoneyInv, MoneyTypes, LimitInv, LimitTypes
<1>3. t \in Tickets0 /\ left \in Int /\ price \in Int
  BY <1>2 DEF IsDeal
<1>4. /\ gain \in Int /\ paid \in Int /\ paid = gain + CostOfDeal(holdings[i])
      /\ CostOfDeal(holdings[i]) \in Int
  <2>1. CostOfDeal(holdings[i]) = t.side * left * t.entry
    BY <1>1 DEF CostOfDeal
  <2> HIDE DEF t, left
  <2>2. QED
    BY <1>3, <2>1, DealMoney
<1> HIDE DEF gain, paid
<1>5. holdings' = [holdings EXCEPT ![i] = h]
  BY <1>1, <1>2
<1>6. /\ h.status = "CLOSED" /\ h.gain = gain /\ h.left = 0
      /\ h.ticket = t /\ h.filled = holdings[i].filled
  BY <1>2 DEF IsPosition
<1>7. new.kind = "recording" /\ new.gain = gain /\ new.ticket = NoDeal
  BY DEF AtRest
<1> HIDE DEF h, new
<1>8. IsDeal(h) /\ CostOfDeal(h) = 0
  BY <1>2, <1>4, <1>6 DEF IsDeal, CostOfDeal
<1> HIDE DEF t, left
<1>9. /\ \A k \in DeskIds : IsDeal(holdings'[k])
      /\ DealCost \in Int /\ DealCost' = DealCost - CostOfDeal(holdings[i]) + CostOfDeal(h)
  BY <1>5, <1>8, OneDeal
<1>10. /\ \A v \in DeskThreads : /\ task'[v].ticket \in Tickets0 /\ task'[v].gain \in Int
                                 /\ task'[v].kind # "recording" => task'[v].gain = 0
       /\ Recording \in Int /\ Recording' = Recording - task[w].gain + new.gain
  <2>1. new.gain \in Int /\ new.ticket \in Tickets0 /\ (new.kind # "recording" => new.gain = 0)
    BY <1>4, <1>7, TicketTypes
  <2>2. QED
    BY <1>1, <2>1, OneTask
<1>11. Recording' = Recording + gain
  BY <1>1, <1>4, <1>7, <1>10, TicketTypes
<1>12. earnings \in Int /\ cash \in Int /\ fees \in Int /\ JournalNet \in Int
  BY JournalType DEF MoneyInv, MoneyTypes
<1>13. MoneyTypes'
  <2>1. earnings' \in Int /\ cash' \in Int /\ fees' \in Int
    BY <1>1, <1>4, <1>12
  <2>2. tradeRows' \in Seq(Int)
    BY <1>1 DEF MoneyInv, MoneyTypes
  <2>3. QED
    BY <1>9, <1>10, <2>1, <2>2 DEF MoneyTypes
<1>14. Balanced'
  BY <1>1, <1>4, <1>8, <1>9, <1>12 DEF MoneyInv, Balanced
<1>15. Journaled'
  <2>1. JournalNet' = JournalNet
    BY <1>1 DEF JournalNet
  <2>2. JournalNet + Recording = earnings
    BY <1>1 DEF MoneyInv, Journaled
  <2>3. JournalNet' + Recording' = earnings'
    BY <1>1, <1>4, <1>10, <1>11, <1>12, <2>1, <2>2
  <2>4. QED
    BY <2>3 DEF Journaled
<1>16. InOrder'
  BY <1>1 DEF InOrder
<1>17. LimitInv'
  BY ClosesLimit DEF MoneyInv
<1>18. QED
  BY <1>13, <1>14, <1>15, <1>16, <1>17 DEF MoneyInv

LEMMA RecordsMoney ==
  ASSUME MoneyInv, NEW w \in DeskThreads, DeskRecords(w) PROVE MoneyInv'
<1> DEFINE gain == task[w].gain
<1>1. /\ task[w].kind = "recording" /\ tradeRows' = Append(tradeRows, gain)
      /\ task' = [task EXCEPT ![w] = AtRest]
      /\ UNCHANGED <<paperDesk, holdings, earnings, fees, cash>>
  BY DEF DeskRecords
<1>2. gain \in Int /\ tradeRows \in Seq(Int)
  BY DEF MoneyInv, MoneyTypes
<1>3. paperDesk = "execution"
  BY <1>1, TicketTypes DEF MoneyInv, LimitInv, Unchecked
<1>4. /\ \A v \in DeskThreads : /\ task'[v].ticket \in Tickets0 /\ task'[v].gain \in Int
                                /\ task'[v].kind # "recording" => task'[v].gain = 0
      /\ Recording \in Int /\ Recording' = Recording - gain + AtRest.gain
  <2>1. AtRest.gain \in Int /\ AtRest.ticket \in Tickets0
        /\ (AtRest.kind # "recording" => AtRest.gain = 0)
    BY TicketTypes
  <2>2. QED
    BY <1>1, <2>1, OneTask
<1> HIDE DEF gain
<1>5. tradeRows' \in Seq(Int) /\ JournalNet' = JournalNet + gain /\ JournalNet \in Int
  <2>1. tradeRows' \in Seq(Int)
    BY <1>1, <1>2
  <2>2. JournalNet' = JournalNet + gain
    BY <1>1, <1>2, SumOfAppended DEF JournalNet
  <2>3. QED
    BY <2>1, <2>2, JournalType DEF MoneyInv
<1>6. MoneyTypes'
  BY <1>1, <1>4, <1>5 DEF MoneyInv, MoneyTypes
<1>7. Balanced'
  BY <1>1 DEF MoneyInv, Balanced, DealCost, DealCosts
<1>8. Journaled'
  <2>1. JournalNet + Recording = earnings
    BY <1>3 DEF MoneyInv, Journaled
  <2>2. JournalNet' + Recording' = earnings'
    BY <1>1, <1>2, <1>4, <1>5, <2>1, TicketTypes
  <2>3. QED
    BY <2>2 DEF Journaled
<1>9. InOrder'
  BY <1>1, <1>3 DEF InOrder
<1>10. LimitInv'
  BY RecordsLimit DEF MoneyInv
<1>11. QED
  BY <1>6, <1>7, <1>8, <1>9, <1>10 DEF MoneyInv

\* The manager opens and leaves positions; its P&L is in its metrics alone.
LEMMA ManagerMoney ==
  ASSUME MoneyInv,
         \/ \E i \in DeskIds, t \in DeskTickets : ManagerOpens(i, t)
         \/ \E i \in DeskIds, price \in DeskPrices :
              \E quantity \in 1..holdings[i].left : ManagerExits(i, quantity, price)
  PROVE  MoneyInv'
<1>1. LimitInv'
  BY ManagerLimit DEF MoneyInv
<1>2. earnings \in Int /\ cash \in Int /\ fees \in Int
  BY DEF MoneyInv, MoneyTypes
<1>3. ASSUME NEW i \in DeskIds, NEW h, IsDeal(h), holdings' = [holdings EXCEPT ![i] = h],
             NEW gain \in Int, NEW paid \in Int, earnings' = earnings + gain,
             cash' = cash + paid,
             paid = gain + CostOfDeal(holdings[i]) - CostOfDeal(h),
             paperDesk = "manager", UNCHANGED <<paperDesk, fees, tradeRows, task>>
      PROVE  MoneyInv'
  <2>1. /\ \A k \in DeskIds : IsDeal(holdings'[k])
        /\ DealCost \in Int /\ DealCost' = DealCost - CostOfDeal(holdings[i]) + CostOfDeal(h)
        /\ CostOfDeal(holdings[i]) \in Int /\ CostOfDeal(h) \in Int
    BY <1>3, OneDeal
  <2>2. MoneyTypes'
    <3>1. earnings' \in Int /\ cash' \in Int /\ fees' \in Int
      BY <1>2, <1>3
    <3>2. /\ tradeRows' \in Seq(Int)
          /\ \A v \in DeskThreads : /\ task'[v].ticket \in Tickets0 /\ task'[v].gain \in Int
                                    /\ task'[v].kind # "recording" => task'[v].gain = 0
      BY <1>3 DEF MoneyInv, MoneyTypes
    <3>3. \A k \in DeskIds : IsDeal(holdings'[k])
      BY <2>1
    <3>4. QED
      BY <3>1, <3>2, <3>3, MoneyTypesAfter
  <2>3. Balanced'
    <3>1. earnings - fees = cash + DealCost
      BY <1>3 DEF MoneyInv, Balanced, Deals
    <3>2. earnings' - fees' = cash' + DealCost'
      BY <1>2, <1>3, <2>1, <3>1
    <3>3. QED
      BY <3>2 DEF Balanced
  <2>4. Journaled' /\ InOrder'
    BY <1>3 DEF Journaled, InOrder
  <2>5. QED
    BY <1>1, <2>2, <2>3, <2>4 DEF MoneyInv
<1>4. ASSUME NEW i \in DeskIds, NEW t \in DeskTickets, ManagerOpens(i, t) PROVE MoneyInv'
  <2> DEFINE h == Opened(t, FALSE)
             paid == -Paid(t, t.entry, t.quantity)
  <2>1. /\ paperDesk = "manager" /\ holdings[i].status # "OPEN"
        /\ holdings' = [holdings EXCEPT ![i] = h]
        /\ cash' = cash - Paid(t, t.entry, t.quantity)
        /\ UNCHANGED <<paperDesk, earnings, fees, tradeRows, task>>
    BY <1>4 DEF ManagerOpens
  <2>2. /\ IsDeal(h) /\ CostOfDeal(h) = Paid(t, t.entry, t.quantity)
        /\ Paid(t, t.entry, t.quantity) \in Int
    <3>1. t \in Tickets0 /\ t.quantity \in Int /\ t.entry \in Int
      BY TicketTypes
    <3>2. QED
      BY <3>1, OpenedDeal, DealMoney
  <2>3. CostOfDeal(holdings[i]) = 0
    BY <2>1 DEF CostOfDeal
  <2> HIDE DEF h
  <2>4. /\ paid \in Int /\ cash' = cash + paid /\ earnings' = earnings + 0 /\ 0 \in Int
        /\ paid = 0 + CostOfDeal(holdings[i]) - CostOfDeal(h)
    BY <1>2, <2>1, <2>2, <2>3
  <2> HIDE DEF paid
  <2>5. QED
    BY <1>3, <2>1, <2>2, <2>4
<1>5. ASSUME NEW i \in DeskIds, NEW price \in DeskPrices, NEW quantity \in 1..holdings[i].left,
             ManagerExits(i, quantity, price)
      PROVE  MoneyInv'
  <2> DEFINE t == holdings[i].ticket
             left == holdings[i].left - quantity
             earned == Earned(t, price, quantity)
             paid == Paid(t, price, quantity)
             gain == holdings[i].gain + earned
             status == IF left = 0 THEN "CLOSED" ELSE "OPEN"
             h == [holdings[i] EXCEPT !.left = left, !.gain = gain, !.status = status]
  <2>1. /\ paperDesk = "manager" /\ holdings[i].status = "OPEN"
        /\ holdings' = [holdings EXCEPT ![i].left = left, ![i].gain = @ + earned,
                                        ![i].status = status]
        /\ earnings' = earnings + earned /\ cash' = cash + paid
        /\ UNCHANGED <<paperDesk, fees, tradeRows, task>>
    BY <1>5 DEF ManagerExits
  <2>2. /\ IsDeal(holdings[i]) /\ IsPosition(holdings[i])
        /\ holdings = [k \in DeskIds |-> holdings[k]]
    BY DEF MoneyInv, MoneyTypes, LimitInv, LimitTypes
  <2>3. t \in Tickets0 /\ holdings[i].left \in Nat /\ quantity \in Int /\ price \in Int
        /\ left \in Nat /\ holdings[i].gain \in Int
    BY <2>2 DEF IsDeal
  <2>4. /\ earned \in Int /\ paid \in Int /\ t.side * quantity * t.entry \in Int
        /\ paid = earned + t.side * quantity * t.entry
    BY <2>3, DealMoney
  <2>5. gain \in Int
    BY <2>3, <2>4
  <2> HIDE DEF earned, paid, status
  <2>6. holdings' = [holdings EXCEPT ![i] = h]
    <3> HIDE DEF left
    <3>1. QED
      BY <2>1, <2>2 DEF IsPosition
  <2> HIDE DEF gain
  <2>7. /\ h.left = left /\ h.gain = gain /\ h.status = status /\ h.ticket = t
        /\ h.filled = holdings[i].filled
    <3> HIDE DEF left
    <3>1. QED
      BY <2>2 DEF IsPosition
  <2> HIDE DEF h
  <2>8. IsDeal(h)
    BY <2>2, <2>3, <2>5, <2>7 DEF IsDeal
  <2>9. CostOfDeal(h) = t.side * left * t.entry
    <3>1. CASE left = 0
      <4>1. CostOfDeal(h) = 0
        BY <2>7, <3>1 DEF CostOfDeal, status
      <4>2. t.side * 0 * t.entry = 0
        <5>1. t.side \in Int /\ t.entry \in Int
          BY <2>3 DEF Tickets0
        <5> DEFINE a == t.side
                   b == t.entry
        <5> HIDE DEF a, b, t
        <5>2. a * 0 * b = 0
          BY <5>1 DEF a, b
        <5>3. QED
          BY <5>2 DEF a, b
      <4>3. QED
        BY <3>1, <4>1, <4>2
    <3>2. CASE left # 0
      BY <2>7, <3>2 DEF CostOfDeal, status
    <3>3. QED
      BY <3>1, <3>2
  <2>10. CostOfDeal(holdings[i]) = t.side * holdings[i].left * t.entry
    BY <2>1 DEF CostOfDeal
  <2>11. paid = earned + CostOfDeal(holdings[i]) - CostOfDeal(h)
    <3> DEFINE a == t.side
               b == t.entry
               n == holdings[i].left
    <3>1. a \in {-1, 1} /\ b \in Int /\ n \in Int /\ quantity \in Int /\ left = n - quantity
      BY <2>3 DEF Tickets0
    <3>2. /\ paid = earned + a * quantity * b
          /\ CostOfDeal(holdings[i]) = a * n * b /\ CostOfDeal(h) = a * left * b
      BY <2>4, <2>9, <2>10
    <3> HIDE DEF a, b, n, left
    <3>3. a * quantity * b = a * n * b - a * (n - quantity) * b
      <4>1. CASE a = 1
        BY <3>1, <4>1
      <4>2. CASE a = -1
        BY <3>1, <4>2
      <4>3. QED
        BY <3>1, <4>1, <4>2
    <3>4. a * n * b \in Int /\ a * (n - quantity) * b \in Int /\ a * left * b = a * (n - quantity) * b
      BY <3>1
    <3>5. QED
      BY <2>4, <3>2, <3>3, <3>4
  <2> HIDE DEF t, left
  <2>12. QED
    BY <1>3, <2>1, <2>4, <2>6, <2>8, <2>11
<1>6. QED
  BY <1>4, <1>5

\* The portfolio pays the fee of an entry out of its cash.
LEMMA PortfolioOpensMoney ==
  ASSUME MoneyInv, NEW t \in DeskTickets, PortfolioOpens(t) PROVE MoneyInv'
<1>1. PICK i \in Fresh : holdings' = [holdings EXCEPT ![i] = Opened(t, FALSE)]
  BY DEF PortfolioOpens
<1> DEFINE h == Opened(t, FALSE)
           paid == Paid(t, t.entry, t.quantity)
<1>2. /\ paperDesk = "portfolio" /\ fees' = fees + DeskFee /\ cash' = cash - paid - DeskFee
      /\ UNCHANGED <<paperDesk, earnings, tradeRows, task>>
  BY DEF PortfolioOpens
<1>3. i \in DeskIds /\ CostOfDeal(holdings[i]) = 0
  BY <1>1 DEF Fresh, Having, CostOfDeal
<1>4. IsDeal(h) /\ CostOfDeal(h) = paid /\ paid \in Int
  <2>1. t \in Tickets0 /\ t.quantity \in Int /\ t.entry \in Int
    BY TicketTypes
  <2>2. QED
    BY <2>1, OpenedDeal, DealMoney
<1>5. earnings \in Int /\ cash \in Int /\ fees \in Int /\ DeskFee \in Int
  BY DEF MoneyInv, MoneyTypes
<1> HIDE DEF h, paid
<1>6. /\ \A k \in DeskIds : IsDeal(holdings'[k])
      /\ DealCost \in Int /\ DealCost' = DealCost - CostOfDeal(holdings[i]) + CostOfDeal(h)
  BY <1>1, <1>3, <1>4, OneDeal DEF h
<1>7. MoneyTypes'
  <2>1. earnings' \in Int /\ cash' \in Int /\ fees' \in Int
    BY <1>2, <1>4, <1>5
  <2>2. /\ tradeRows' \in Seq(Int)
        /\ \A v \in DeskThreads : /\ task'[v].ticket \in Tickets0 /\ task'[v].gain \in Int
                                  /\ task'[v].kind # "recording" => task'[v].gain = 0
    BY <1>2 DEF MoneyInv, MoneyTypes
  <2>3. \A k \in DeskIds : IsDeal(holdings'[k])
    BY <1>6
  <2>4. QED
    BY <2>1, <2>2, <2>3, MoneyTypesAfter
<1>8. Balanced'
  <2>1. earnings - fees = cash + DealCost
    BY <1>2 DEF MoneyInv, Balanced, Deals
  <2>2. earnings' - fees' = cash' + DealCost'
    BY <1>2, <1>3, <1>4, <1>5, <1>6, <2>1
  <2>3. QED
    BY <2>2 DEF Balanced
<1>9. Journaled' /\ InOrder'
  BY <1>2 DEF MoneyInv, Journaled, InOrder, JournalNet, Recording
<1>10. LimitInv'
  BY PortfolioLimit DEF MoneyInv
<1>11. QED
  BY <1>7, <1>8, <1>9, <1>10 DEF MoneyInv

\* A quote closes positions: their gains, the money they bring and the rows of the trades.
LEMMA PortfolioUpdatesMoney ==
  ASSUME MoneyInv, NEW price \in DeskPrices, PortfolioUpdates(price) PROVE MoneyInv'
<1> DEFINE L == Leaving(price)
           gains == [i \in DeskIds |-> PortfolioGain(i, price)]
           brings == [i \in DeskIds |-> PortfolioBrings(i, price)]
           rows == [k \in 1..Cardinality(L) |-> PortfolioGain(SetToSeq(L)[k], price)]
           Closed(i) == [holdings[i] EXCEPT !.status = "CLOSED", !.left = 0,
                                            !.gain = PortfolioGain(i, price)]
<1>1. /\ paperDesk = "portfolio"
      /\ holdings' = [i \in DeskIds |-> IF i \in L THEN Closed(i) ELSE holdings[i]]
      /\ earnings' = earnings + SumFunctionOnSet(gains, L)
      /\ tradeRows' = tradeRows \o rows
      /\ cash' = cash + SumFunctionOnSet(brings, L)
      /\ UNCHANGED <<paperDesk, fees, task>>
  BY DEF PortfolioUpdates
<1> DEFINE gain == SumFunctionOnSet(gains, L)
           brought == SumFunctionOnSet(brings, L)
           cost == SumFunctionOnSet(DealCosts, L)
<1>0a. earnings' = earnings + gain /\ cash' = cash + brought /\ fees' = fees
  BY <1>1
<1>2. /\ L \in SUBSET DeskIds /\ IsFiniteSet(L) /\ IsFiniteSet(DeskIds)
      /\ \A i \in L : holdings[i].status = "OPEN"
  <2>1. L \in SUBSET DeskIds /\ \A i \in L : holdings[i].status = "OPEN"
    BY DEF Leaving, Having
  <2>2. IsFiniteSet(DeskIds)
    OBVIOUS
  <2> HIDE DEF L
  <2>3. QED
    BY <2>1, <2>2, FS_Subset
<1>3. ASSUME NEW i \in L
      PROVE  /\ gains[i] \in Int /\ brings[i] \in Int
             /\ brings[i] = gains[i] + DealCosts[i] /\ DealCosts[i] \in Int
             /\ gains[i] = PortfolioGain(i, price)
  <2> DEFINE t == holdings[i].ticket
             left == holdings[i].left
             level == ExitPrice(t, price)
  <2>1. i \in DeskIds /\ holdings[i].status = "OPEN" /\ IsDeal(holdings[i])
    BY <1>2 DEF MoneyInv, MoneyTypes
  <2>2. t \in Tickets0 /\ left \in Int /\ DeskFee \in Int /\ DeskSlip \in Int
    BY <2>1 DEF IsDeal
  <2>3. level \in Int
    <3>1. t.side \in {-1, 1} /\ t.stop \in Int /\ t.target \in Int
      BY <2>2 DEF Tickets0
    <3> HIDE DEF t
    <3>2. t.side * DeskSlip \in Int
      BY <2>2, <3>1
    <3>3. QED
      BY <3>1, <3>2 DEF ExitPrice
  <2>4. /\ gains[i] = Earned(t, level, left) - DeskFee
        /\ brings[i] = Paid(t, level, left) - DeskFee
        /\ gains[i] = PortfolioGain(i, price)
    BY <2>1 DEF PortfolioGain, PortfolioBrings
  <2>5. DealCosts[i] = t.side * left * t.entry
    BY <2>1 DEF DealCosts, CostOfDeal
  <2> HIDE DEF t, left, level, gains, brings
  <2>6. /\ Paid(t, level, left) \in Int /\ Earned(t, level, left) \in Int
        /\ t.side * left * t.entry \in Int
        /\ Paid(t, level, left) = Earned(t, level, left) + t.side * left * t.entry
    BY <2>2, <2>3, DealMoney
  <2>7. QED
    BY <2>2, <2>4, <2>5, <2>6
<1>4. /\ SumFunctionOnSet(brings, L)
           = SumFunctionOnSet(gains, L) + SumFunctionOnSet(DealCosts, L)
      /\ SumFunctionOnSet(gains, L) \in Int /\ SumFunctionOnSet(DealCosts, L) \in Int
  <2> HIDE DEF L, gains, brings
  <2>1. \A i \in L : gains[i] \in Int /\ DealCosts[i] \in Int
                    /\ brings[i] = gains[i] + DealCosts[i]
    BY <1>3
  <2>2. \A i \in L : gains[i] \in Int
    BY <1>3
  <2>3. \A i \in L : DealCosts[i] \in Int
    BY <1>3
  <2> HIDE DeskAssumption
  <2>4. SumFunctionOnSet(brings, L)
          = SumFunctionOnSet(gains, L) + SumFunctionOnSet(DealCosts, L)
    BY <1>2, <2>1, SumOfSums
  <2>5. SumFunctionOnSet(gains, L) \in Int
    BY <1>2, <2>2, SumType
  <2>6. SumFunctionOnSet(DealCosts, L) \in Int
    BY <1>2, <2>3, SumType
  <2>7. QED
    BY <2>4, <2>5, <2>6
<1>4a. brought = gain + cost /\ gain \in Int /\ cost \in Int /\ brought \in Int
  <2> DEFINE a == SumFunctionOnSet(brings, L)
             b == SumFunctionOnSet(gains, L)
             c == SumFunctionOnSet(DealCosts, L)
  <2>1. a = b + c /\ b \in Int /\ c \in Int
    BY <1>4
  <2> HIDE DEF a, b, c
  <2>2. a \in Int
    BY <2>1
  <2>3. QED
    BY <2>1, <2>2 DEF a, b, c
<1>5. ASSUME NEW i \in DeskIds
      PROVE  /\ IsDeal(holdings'[i])
             /\ DealCosts[i] \in Int /\ DealCosts'[i] \in Int
             /\ i \in L => DealCosts'[i] = 0
             /\ i \notin L => DealCosts'[i] = DealCosts[i]
  <2>1. IsDeal(holdings[i]) /\ IsPosition(holdings[i]) /\ DealCosts[i] = CostOfDeal(holdings[i])
    BY DEF MoneyInv, MoneyTypes, LimitInv, LimitTypes, DealCosts
  <2>2. DealCosts'[i] = CostOfDeal(holdings'[i])
    BY DEF DealCosts, CostOfDeal
  <2>3. CASE i \in L
    <3> DEFINE h == Closed(i)
    <3>1. /\ h.ticket = holdings[i].ticket /\ h.left = 0 /\ h.filled = holdings[i].filled
          /\ h.gain = PortfolioGain(i, price) /\ h.status = "CLOSED"
      BY <2>1 DEF IsPosition
    <3>2. holdings'[i] = h
      BY <1>1, <2>3
    <3> HIDE DEF h
    <3>3. IsDeal(h) /\ CostOfDeal(h) = 0
      <4>1. PortfolioGain(i, price) \in Int
        BY <1>3, <2>3
      <4>2. QED
        BY <2>1, <3>1, <4>1 DEF IsDeal, CostOfDeal
    <3>4. QED
      BY <2>1, <2>2, <2>3, <3>2, <3>3, CostType
  <2>4. CASE i \notin L
    <3>1. holdings'[i] = holdings[i]
      BY <1>1, <2>4
    <3>2. QED
      BY <2>1, <2>2, <2>4, <3>1, CostType
  <2>5. QED
    BY <2>3, <2>4
<1> DEFINE old == DealCosts
           new == DealCosts'
           closed == [i \in DeskIds |-> IF i \in L THEN DealCosts[i] ELSE 0]
<1>6. SumFunctionOnSet(old, DeskIds)
        = SumFunctionOnSet(new, DeskIds) + SumFunctionOnSet(old, L)
  <2>1. /\ \A i \in DeskIds : closed[i] \in Int
        /\ \A i \in DeskIds \ L : closed[i] = 0
        /\ \A i \in L : closed[i] = old[i] /\ old[i] \in Int
        /\ \A i \in DeskIds : new[i] \in Int /\ closed[i] \in Int
                             /\ old[i] = new[i] + closed[i]
    <3>1. \A i \in DeskIds : closed[i] = IF i \in L THEN old[i] ELSE 0
      OBVIOUS
    <3>2. \A i \in DeskIds : /\ old[i] \in Int /\ new[i] \in Int
                             /\ i \in L => new[i] = 0
                             /\ i \notin L => new[i] = old[i]
      BY <1>5
    <3> HIDE DEF L, old, new, closed
    <3>3. QED
      BY <1>2, <3>1, <3>2
  <2> HIDE DEF L, old, new, closed
  <2>2. \A i \in DeskIds : closed[i] \in Int
    BY <2>1
  <2>3. \A i \in DeskIds \ L : closed[i] = 0
    BY <2>1
  <2>4. \A i \in L : old[i] \in Int /\ closed[i] = old[i]
    BY <2>1
  <2>5. \A i \in DeskIds : new[i] \in Int /\ closed[i] \in Int /\ old[i] = new[i] + closed[i]
    BY <2>1
  <2> HIDE DeskAssumption
  <2>6. SumFunctionOnSet(old, DeskIds)
          = SumFunctionOnSet(new, DeskIds) + SumFunctionOnSet(closed, DeskIds)
    BY <1>2, <2>5, SumOfSums
  <2>7. SumFunctionOnSet(closed, L) = SumFunctionOnSet(closed, DeskIds)
    BY <1>2, <2>2, <2>3, SumOfNonzero
  <2>8. SumFunctionOnSet(closed, L) = SumFunctionOnSet(old, L)
    BY <1>2, <2>4, SumOfEqual
  <2>9. QED
    BY <2>6, <2>7, <2>8
<1>7. /\ DealCost = DealCost' + SumFunctionOnSet(DealCosts, L)
      /\ DealCost' \in Int /\ DealCost \in Int
  <2>1. DealCost = SumFunctionOnSet(old, DeskIds) /\ DealCost' = SumFunctionOnSet(new, DeskIds)
    BY DEF DealCost
  <2>2. \A i \in DeskIds : new[i] \in Int
    BY <1>5
  <2>3. \A i \in DeskIds : old[i] \in Int
    BY <1>5
  <2> HIDE DEF new, L
  <2> HIDE DeskAssumption
  <2>4. SumFunctionOnSet(new, DeskIds) \in Int
    BY <1>2, <2>2, SumType
  <2>5. SumFunctionOnSet(old, DeskIds) \in Int
    BY <1>2, <2>3, SumType
  <2>6. QED
    BY <1>6, <2>1, <2>4, <2>5
<1>8. /\ tradeRows' \in Seq(Int) /\ JournalNet \in Int
      /\ JournalNet' = JournalNet + SumFunctionOnSet(gains, L)
  <2> DEFINE n == Cardinality(L)
  <2>1. n \in Nat
    BY <1>2, FS_CardinalityType
  <2>2. /\ SetToSeq(L) \in [1..n -> L]
        /\ SumFunctionOnSet([k \in 1..n |-> gains[SetToSeq(L)[k]]], 1..n)
             = SumFunctionOnSet(gains, L)
    <3>1. \A i \in L : gains[i] \in Int
      BY <1>3
    <3> HIDE DEF L, gains
    <3>2. QED
      BY <1>2, <3>1, Listing, SumOfListing DEF n
  <2>3. rows = [k \in 1..n |-> gains[SetToSeq(L)[k]]]
    <3>1. \A i \in L : gains[i] = PortfolioGain(i, price)
      BY <1>3
    <3> HIDE DEF L, gains
    <3>2. QED
      BY <2>2, <3>1
  <2>4. rows \in [1..n -> Int]
    <3>1. \A i \in L : gains[i] \in Int
      BY <1>3
    <3> HIDE DEF L, gains, rows
    <3>2. QED
      BY <2>2, <2>3, <3>1
  <2>5. tradeRows \in Seq(Int)
    BY DEF MoneyInv, MoneyTypes
  <2> HIDE DEF L, gains, rows, n
  <2>6. /\ tradeRows \o rows \in Seq(Int)
        /\ SumFunctionOnSet(tradeRows \o rows, 1..Len(tradeRows \o rows))
             = SumFunctionOnSet(tradeRows, 1..Len(tradeRows)) + SumFunctionOnSet(rows, 1..n)
    BY <2>1, <2>4, <2>5, SumOfConcat
  <2>7. QED
    BY <1>1, <2>2, <2>3, <2>6, JournalType DEF JournalNet, MoneyInv
<1>9. earnings \in Int /\ cash \in Int /\ fees \in Int
  BY DEF MoneyInv, MoneyTypes
<1>10. MoneyTypes'
  <2>1. earnings' \in Int /\ cash' \in Int /\ fees' \in Int
    <3> HIDE DEF gain, brought, cost
    <3>1. QED
      BY <1>0a, <1>4a, <1>9
  <2>2. \A v \in DeskThreads : /\ task'[v].ticket \in Tickets0 /\ task'[v].gain \in Int
                               /\ task'[v].kind # "recording" => task'[v].gain = 0
    BY <1>1 DEF MoneyInv, MoneyTypes
  <2>3. \A k \in DeskIds : IsDeal(holdings'[k])
    BY <1>5
  <2>4. QED
    BY <1>8, <2>1, <2>2, <2>3, MoneyTypesAfter
<1>11. Balanced'
  <2>1. earnings - fees = cash + DealCost
    BY <1>1 DEF MoneyInv, Balanced, Deals
  <2>2. DealCost = DealCost' + cost /\ DealCost' \in Int /\ DealCost \in Int
    BY <1>7
  <2> DEFINE before == DealCost
             after == DealCost'
  <2> HIDE DEF gain, brought, cost, before, after
  <2> HIDE DeskAssumption
  <2>3. earnings - fees = cash + before /\ before = after + cost /\ after \in Int
    BY <2>1, <2>2 DEF before, after
  <2>4. earnings' - fees' = cash' + after
    BY <1>0a, <1>4a, <1>9, <2>3
  <2>5. QED
    BY <2>4 DEF Balanced, after
<1>12. Journaled'
  <2>1. JournalNet + Recording = earnings /\ Recording' = Recording
    BY <1>1 DEF MoneyInv, Journaled, Recording
  <2>2. Recording = 0
    <3>1. \A w \in DeskThreads : task[w] = AtRest
      BY <1>1 DEF MoneyInv, LimitInv, Unchecked
    <3>2. [w \in DeskThreads |-> task[w].gain] = [w \in DeskThreads |-> 0]
      BY <3>1, TicketTypes
    <3>3. QED
      BY <3>2, SumOfNone DEF Recording
  <2>3. JournalNet' = JournalNet + gain /\ JournalNet \in Int
    BY <1>8
  <2> HIDE DEF gain, brought, cost
  <2>4. JournalNet' + Recording' = earnings'
    BY <1>0a, <1>4a, <1>9, <2>1, <2>2, <2>3
  <2>5. QED
    BY <2>4 DEF Journaled
<1>13. InOrder'
  BY <1>1 DEF InOrder
<1>14. LimitInv'
  BY PortfolioLimit DEF MoneyInv
<1>15. QED
  BY <1>10, <1>11, <1>12, <1>13, <1>14 DEF MoneyInv

\* The order book: no money moves, and every order stays reconciled.
LEMMA LifecycleMoney ==
  ASSUME MoneyInv,
         \/ \E t \in DeskTickets : LifecycleSubmits(t)
         \/ \E i \in DeskIds, price \in DeskPrices :
              \E quantity \in 1..holdings[i].ticket.quantity : LifecycleFills(i, quantity, price)
         \/ \E i \in DeskIds : LifecycleCancels(i)
  PROVE  MoneyInv'
<1>1. LimitInv'
  BY LifecycleLimit DEF MoneyInv
<1>2. ASSUME NEW i \in DeskIds, NEW h, IsDeal(h), Reconciled(h),
             holdings' = [holdings EXCEPT ![i] = h], paperDesk = "lifecycle",
             UNCHANGED <<paperDesk, earnings, fees, tradeRows, task, cash>>
      PROVE  MoneyInv'
  <2>1. \A k \in DeskIds : /\ IsDeal(holdings'[k])
                           /\ k = i => holdings'[k] = h
                           /\ k # i => holdings'[k] = holdings[k]
    BY <1>2, OneDeal
  <2>2. MoneyTypes'
    <3>1. /\ \A w \in DeskThreads : /\ task'[w].ticket \in Tickets0 /\ task'[w].gain \in Int
                                    /\ task'[w].kind # "recording" => task'[w].gain = 0
          /\ earnings' \in Int /\ cash' \in Int /\ fees' \in Int /\ tradeRows' \in Seq(Int)
      BY <1>2 DEF MoneyInv, MoneyTypes
    <3>2. QED
      BY <2>1, <3>1, MoneyTypesAfter
  <2>3. InOrder'
    <3>1. \A k \in DeskIds : Reconciled(holdings'[k])
      BY <1>2, <2>1 DEF MoneyInv, InOrder
    <3>2. QED
      BY <3>1 DEF InOrder, Reconciled
  <2>4. Balanced' /\ Journaled'
    BY <1>2 DEF Balanced, Journaled, Deals
  <2>5. QED
    BY <1>1, <2>2, <2>3, <2>4 DEF MoneyInv
<1>3. ASSUME NEW t \in DeskTickets, LifecycleSubmits(t) PROVE MoneyInv'
  <2> DEFINE h == [NoPosition EXCEPT !.ticket = t, !.status = "PENDING"]
  <2>1. PICK i \in Fresh : holdings' = [holdings EXCEPT ![i] = h]
    BY <1>3 DEF LifecycleSubmits
  <2>2. /\ i \in DeskIds /\ paperDesk = "lifecycle"
        /\ UNCHANGED <<paperDesk, earnings, fees, tradeRows, task, cash>>
    BY <1>3, <2>1 DEF LifecycleSubmits, Fresh, Having
  <2>3. /\ h.ticket = t /\ h.status = "PENDING" /\ h.left = 0 /\ h.filled = 0 /\ h.gain = 0
    BY DEF NoPosition
  <2> HIDE DEF h
  <2>4. t \in Tickets0 /\ t.quantity \in Nat
    BY TicketTypes DEF Tickets0
  <2>5. IsDeal(h) /\ Reconciled(h)
    BY <2>3, <2>4 DEF IsDeal, Reconciled
  <2>6. QED
    BY <1>2, <2>1, <2>2, <2>5
<1>4. ASSUME NEW i \in DeskIds, NEW price \in DeskPrices,
             NEW quantity \in 1..holdings[i].ticket.quantity, LifecycleFills(i, quantity, price)
      PROVE  MoneyInv'
  <2> DEFINE filled == holdings[i].filled + quantity
             status == IF filled = holdings[i].ticket.quantity THEN "FILLED" ELSE "PARTIAL"
             ticket == [holdings[i].ticket EXCEPT !.entry = price]
             h == [holdings[i] EXCEPT !.filled = filled, !.ticket = ticket, !.status = status]
  <2>1. /\ paperDesk = "lifecycle" /\ quantity > 0 /\ filled <= holdings[i].ticket.quantity
        /\ holdings' = [holdings EXCEPT ![i].filled = filled, ![i].ticket.entry = price,
                                        ![i].status = status]
        /\ UNCHANGED <<paperDesk, earnings, fees, tradeRows, task, cash>>
    BY <1>4 DEF LifecycleFills
  <2>2. IsDeal(holdings[i]) /\ IsPosition(holdings[i]) /\ holdings = [k \in DeskIds |-> holdings[k]]
    BY DEF MoneyInv, MoneyTypes, LimitInv, LimitTypes
  <2>3. ticket \in Tickets0 /\ ticket.quantity = holdings[i].ticket.quantity
    <3>1. holdings[i].ticket \in Tickets0 /\ price \in Nat
      BY <2>2 DEF IsDeal
    <3>2. QED
      BY <3>1 DEF Tickets0
  <2>4. filled \in Nat
    <3>1. holdings[i].filled \in Nat /\ holdings[i].ticket.quantity \in Nat
      BY <2>2 DEF IsDeal, Tickets0
    <3>2. quantity \in Nat
      BY <3>1
    <3>3. QED
      BY <3>1, <3>2
  <2> HIDE DEF filled
  <2>5. holdings' = [holdings EXCEPT ![i] = h]
    <3> HIDE DEF status
    <3>1. QED
      BY <2>1, <2>2 DEF IsPosition
  <2>6. /\ h.filled = filled /\ h.ticket = ticket /\ h.status = status
        /\ h.left = holdings[i].left /\ h.gain = holdings[i].gain
    <3> HIDE DEF status, ticket
    <3>1. QED
      BY <2>2 DEF IsPosition
  <2> HIDE DEF h
  <2>7. IsDeal(h)
    <3> HIDE DEF status, ticket
    <3>1. QED
      BY <2>2, <2>3, <2>4, <2>6 DEF IsDeal
  <2>8. Reconciled(h)
    <3>1. /\ status \in {"FILLED", "PARTIAL"}
          /\ status = "FILLED" => filled = holdings[i].ticket.quantity
      OBVIOUS
    <3> HIDE DEF status, ticket
    <3>2. QED
      BY <2>1, <2>3, <2>6, <3>1 DEF Reconciled
  <2> HIDE DEF status, ticket
  <2>9. QED
    BY <1>2, <2>1, <2>5, <2>7, <2>8
<1>5. ASSUME NEW i \in DeskIds, LifecycleCancels(i) PROVE MoneyInv'
  <2> DEFINE h == [holdings[i] EXCEPT !.status = "CANCELLED"]
  <2>1. /\ paperDesk = "lifecycle"
        /\ holdings' = [holdings EXCEPT ![i].status = "CANCELLED"]
        /\ UNCHANGED <<paperDesk, earnings, fees, tradeRows, task, cash>>
    BY <1>5 DEF LifecycleCancels
  <2>2. /\ IsDeal(holdings[i]) /\ IsPosition(holdings[i]) /\ Reconciled(holdings[i])
        /\ holdings = [k \in DeskIds |-> holdings[k]]
    BY <2>1 DEF MoneyInv, MoneyTypes, LimitInv, LimitTypes, InOrder
  <2>3. holdings' = [holdings EXCEPT ![i] = h]
    BY <2>1, <2>2
  <2>4. /\ h.filled = holdings[i].filled /\ h.ticket = holdings[i].ticket
        /\ h.left = holdings[i].left /\ h.gain = holdings[i].gain /\ h.status = "CANCELLED"
    BY <2>2 DEF IsPosition
  <2> HIDE DEF h
  <2>5. IsDeal(h) /\ Reconciled(h)
    BY <2>2, <2>4 DEF IsDeal, Reconciled
  <2>6. QED
    BY <1>2, <2>1, <2>3, <2>5
<1>6. QED
  BY <1>3, <1>4, <1>5

LEMMA BooksPreserved ==
  ASSUME MoneyInv, DeskNext PROVE MoneyInv'
<1>1. ASSUME NEW w \in DeskThreads, NEW t \in DeskTickets, NEW given \in BOOLEAN,
             DeskAdmits(w, t, given)
      PROVE  MoneyInv'
  BY <1>1, AdmitsMoney
<1>2. ASSUME NEW w \in DeskThreads, DeskInserts(w) \/ DeskRecords(w) PROVE MoneyInv'
  BY <1>2, InsertsMoney, RecordsMoney
<1>3. ASSUME NEW w \in DeskThreads, NEW i \in DeskIds, NEW price \in DeskPrices,
             DeskCloses(w, i, price)
      PROVE  MoneyInv'
  BY <1>3, ClosesMoney
<1>4. ASSUME \/ \E i \in DeskIds, t \in DeskTickets : ManagerOpens(i, t)
             \/ \E i \in DeskIds, price \in DeskPrices :
                  \E quantity \in 1..holdings[i].left : ManagerExits(i, quantity, price)
      PROVE  MoneyInv'
  BY <1>4, ManagerMoney
<1>5. ASSUME NEW t \in DeskTickets, PortfolioOpens(t) PROVE MoneyInv'
  BY <1>5, PortfolioOpensMoney
<1>6. ASSUME NEW price \in DeskPrices, PortfolioUpdates(price) PROVE MoneyInv'
  BY <1>6, PortfolioUpdatesMoney
<1>7. ASSUME \/ \E t \in DeskTickets : LifecycleSubmits(t)
             \/ \E i \in DeskIds, price \in DeskPrices :
                  \E quantity \in 1..holdings[i].ticket.quantity :
                    LifecycleFills(i, quantity, price)
             \/ \E i \in DeskIds : LifecycleCancels(i)
      PROVE  MoneyInv'
  BY <1>7, LifecycleMoney
<1>8. QED
  <2>1. \/ \E w \in DeskThreads, t \in DeskTickets, given \in BOOLEAN : DeskAdmits(w, t, given)
        \/ \E w \in DeskThreads : DeskInserts(w) \/ DeskRecords(w)
        \/ \E w \in DeskThreads, i \in DeskIds, price \in DeskPrices : DeskCloses(w, i, price)
        \/ \E i \in DeskIds, t \in DeskTickets : ManagerOpens(i, t)
        \/ \E i \in DeskIds, price \in DeskPrices :
             \E quantity \in 1..holdings[i].left : ManagerExits(i, quantity, price)
        \/ \E t \in DeskTickets : PortfolioOpens(t)
        \/ \E t \in DeskTickets : LifecycleSubmits(t)
        \/ \E price \in DeskPrices : PortfolioUpdates(price)
        \/ \E i \in DeskIds, price \in DeskPrices :
             \E quantity \in 1..holdings[i].ticket.quantity : LifecycleFills(i, quantity, price)
        \/ \E i \in DeskIds : LifecycleCancels(i)
    BY DEF DeskNext
  <2>2. QED
    BY <1>1, <1>2, <1>3, <1>4, <1>5, <1>6, <1>7, <2>1

\* What the open positions would bring at a price is what was paid for them and their
\* unrealized P&L.
LEMMA WorthOfDeals ==
  ASSUME MoneyInv, NEW price \in DeskPrices
  PROVE  /\ Worth(price) = Unrealized(price) + DealCost
         /\ Unrealized(price) \in Int /\ DealCost \in Int
<1> DEFINE O == Having("OPEN")
           worth == [i \in DeskIds |-> Paid(holdings[i].ticket, price, holdings[i].left)]
           gain == [i \in DeskIds |-> Earned(holdings[i].ticket, price, holdings[i].left)]
<1>1. O \in SUBSET DeskIds /\ IsFiniteSet(DeskIds) /\ IsFiniteSet(O)
  <2>1. O \in SUBSET DeskIds
    BY DEF Having
  <2>2. IsFiniteSet(DeskIds)
    OBVIOUS
  <2> HIDE DEF O
  <2>3. QED
    BY <2>1, <2>2, FS_Subset
<1>2. ASSUME NEW i \in DeskIds
      PROVE  /\ gain[i] \in Int /\ DealCosts[i] \in Int
             /\ i \in O => worth[i] = gain[i] + DealCosts[i]
             /\ i \notin O => DealCosts[i] = 0
  <2> DEFINE t == holdings[i].ticket
             left == holdings[i].left
  <2>1. t \in Tickets0 /\ left \in Int /\ price \in Int
    <3>1. IsDeal(holdings[i])
      BY DEF MoneyInv, MoneyTypes
    <3>2. t \in Tickets0 /\ left \in Nat
      BY <3>1 DEF IsDeal
    <3>3. price \in Int
      OBVIOUS
    <3>4. QED
      BY <3>2, <3>3
  <2>2. /\ DealCosts[i] = IF i \in O THEN t.side * left * t.entry ELSE 0
        /\ worth[i] = Paid(t, price, left) /\ gain[i] = Earned(t, price, left)
    BY DEF DealCosts, CostOfDeal, Having
  <2> HIDE DEF t, left, O, worth, gain
  <2>3. /\ Paid(t, price, left) \in Int /\ Earned(t, price, left) \in Int
        /\ t.side * left * t.entry \in Int
        /\ Paid(t, price, left) = Earned(t, price, left) + t.side * left * t.entry
    BY <2>1, DealMoney
  <2>4. QED
    BY <2>2, <2>3
<1>3. /\ Worth(price) = SumFunctionOnSet(worth, O)
      /\ Unrealized(price) = SumFunctionOnSet(gain, O)
      /\ DealCost = SumFunctionOnSet(DealCosts, DeskIds)
  BY DEF Worth, Unrealized, DealCost
<1> HIDE DEF O, worth, gain
<1> HIDE DeskAssumption
<1>4. \A i \in O : gain[i] \in Int /\ DealCosts[i] \in Int /\ worth[i] = gain[i] + DealCosts[i]
  BY <1>1, <1>2
<1>5. SumFunctionOnSet(worth, O) = SumFunctionOnSet(gain, O) + SumFunctionOnSet(DealCosts, O)
  BY <1>1, <1>4, SumOfSums
<1>6. SumFunctionOnSet(DealCosts, O) = SumFunctionOnSet(DealCosts, DeskIds)
  <2>1. \A i \in DeskIds : DealCosts[i] \in Int
    BY <1>2
  <2>2. \A i \in DeskIds \ O : DealCosts[i] = 0
    BY <1>2
  <2>3. QED
    BY <1>1, <2>1, <2>2, SumOfNonzero
<1>7. SumFunctionOnSet(gain, O) \in Int
  <2>1. \A i \in O : gain[i] \in Int
    BY <1>4
  <2>2. QED
    BY <1>1, <2>1, SumType
<1>8. SumFunctionOnSet(DealCosts, DeskIds) \in Int
  <2>1. \A i \in DeskIds : DealCosts[i] \in Int
    BY <1>2
  <2>2. QED
    BY <1>1, <2>1, SumType
<1>9. QED
  BY <1>3, <1>5, <1>6, <1>7, <1>8

LEMMA MoneyStep == MoneyInv /\ [DeskNext]_deskVars => MoneyInv'
<1>1. ASSUME MoneyInv, DeskNext PROVE MoneyInv'
  BY <1>1, BooksPreserved
<1>2. ASSUME MoneyInv, UNCHANGED deskVars PROVE MoneyInv'
  <2>1. UNCHANGED <<paperDesk, holdings, earnings, fees, tradeRows, task, cash>>
    BY <1>2 DEF deskVars
  <2>2. LimitInv'
    BY <1>2, <2>1 DEF MoneyInv, LimitInv, LimitTypes, Unchecked, Having, CheckedOpen, Opening
  <2>3. MoneyTypes'
    BY <1>2, <2>1 DEF MoneyInv, MoneyTypes
  <2>4. Balanced' /\ Journaled' /\ InOrder'
    BY <1>2, <2>1 DEF MoneyInv, Balanced, Journaled, InOrder, DealCost, DealCosts,
                      JournalNet, Recording
  <2>5. QED
    BY <2>2, <2>3, <2>4 DEF MoneyInv
<1>3. QED
  BY <1>1, <1>2

\* In each of the paper books the booked P&L is the money that came in: the equity is the
\* cash and what the open positions are worth, at any price; the journal has every closing
\* but those being recorded; no order needs reconciling (PaperPortfolio.equity,
\* TradeJournal.summary, PaperBroker.reconcile).
THEOREM BooksCorrect == DeskSpec => []PaperBooksBalance
<1>1. DeskInit => MoneyInv
  BY BooksStart
<1>2. MoneyInv /\ [DeskNext]_deskVars => MoneyInv'
  BY MoneyStep
<1>3. MoneyInv => PaperBooksBalance
  <2> SUFFICES ASSUME MoneyInv PROVE PaperBooksBalance
    OBVIOUS
  <2>1. ASSUME paperDesk \in Deals, NEW price \in DeskPrices
        PROVE  DeskEquity(price) = cash + Worth(price)
    <3>1. earnings - fees = cash + DealCost
      BY <2>1 DEF MoneyInv, Balanced
    <3>2. earnings \in Int /\ cash \in Int /\ fees \in Int
      BY DEF MoneyInv, MoneyTypes
    <3>3. /\ Worth(price) = Unrealized(price) + DealCost
          /\ Unrealized(price) \in Int /\ DealCost \in Int
      BY WorthOfDeals
    <3> HIDE DeskAssumption
    <3>4. QED
      BY <3>1, <3>2, <3>3 DEF DeskEquity
  <2>2. QED
    BY <2>1 DEF MoneyInv, Journaled, InOrder, PaperBooksBalance
<1>4. QED
  BY <1>1, <1>2, <1>3, PTL DEF DeskSpec

DealStatuses == {"NONE", "OPEN", "CLOSED", "PENDING", "PARTIAL", "FILLED", "CANCELLED"}
TaskKinds == {"none", "opening", "recording"}

DeskPlaces ==
  /\ paperDesk \in Desks /\ fees \in Nat /\ exits \in Nat
  /\ \A i \in DeskIds : holdings[i].status \in DealStatuses
  /\ \A w \in DeskThreads : task[w].kind \in TaskKinds

LEMMA DeskPlacesStep ==
  ASSUME MoneyInv, DeskPlaces, [DeskNext]_deskVars
  PROVE  DeskPlaces'
<1>1. /\ holdings = [i \in DeskIds |-> holdings[i]] /\ \A i \in DeskIds : IsPosition(holdings[i])
      /\ task = [w \in DeskThreads |-> task[w]]
  BY DEF MoneyInv, LimitInv, LimitTypes
<1>2. ASSUME NEW i \in DeskIds, NEW h, h.status \in DealStatuses,
             holdings' = [holdings EXCEPT ![i] = h]
      PROVE  \A k \in DeskIds : holdings'[k].status \in DealStatuses
  BY <1>1, <1>2 DEF DeskPlaces
<1>3. ASSUME NEW w \in DeskThreads, NEW u, u.kind \in TaskKinds,
             task' = [task EXCEPT ![w] = u]
      PROVE  \A v \in DeskThreads : task'[v].kind \in TaskKinds
  BY <1>1, <1>3 DEF DeskPlaces
<1>4. \A t, given : Opened(t, given).status = "OPEN"
  BY DEF Opened, NoPosition
<1>5. Fresh \subseteq DeskIds
  BY DEF Fresh, Having
<1>6. AtRest.kind = "none" /\ "none" \in TaskKinds /\ {"OPEN", "CLOSED"} \subseteq DealStatuses
  BY DEF AtRest, TaskKinds, DealStatuses
<1>7. ASSUME NEW w \in DeskThreads, NEW t, NEW given, DeskAdmits(w, t, given)
      PROVE  DeskPlaces'
  <2> DEFINE u == [AtRest EXCEPT !.kind = "opening", !.ticket = t, !.checked = given]
  <2>1. task' = [task EXCEPT ![w] = u] /\ UNCHANGED <<paperDesk, holdings, fees, exits>>
    BY <1>7 DEF DeskAdmits
  <2>2. u.kind \in TaskKinds
    BY DEF AtRest, TaskKinds
  <2> HIDE DEF u
  <2>3. QED
    BY <1>3, <2>1, <2>2 DEF DeskPlaces
<1>8. ASSUME NEW w \in DeskThreads, DeskInserts(w)
      PROVE  DeskPlaces'
  <2>1. PICK i \in Fresh :
          holdings' = [holdings EXCEPT ![i] = Opened(task[w].ticket, task[w].checked)]
    BY <1>8 DEF DeskInserts
  <2>2. task' = [task EXCEPT ![w] = AtRest] /\ UNCHANGED <<paperDesk, fees, exits>>
    BY <1>8 DEF DeskInserts
  <2>3. \A k \in DeskIds : holdings'[k].status \in DealStatuses
    BY <1>2, <1>4, <1>5, <1>6, <2>1
  <2>4. QED
    BY <1>3, <1>6, <2>2, <2>3 DEF DeskPlaces
<1>9. ASSUME NEW w \in DeskThreads, DeskRecords(w)
      PROVE  DeskPlaces'
  <2>1. task' = [task EXCEPT ![w] = AtRest] /\ UNCHANGED <<paperDesk, holdings, fees, exits>>
    BY <1>9 DEF DeskRecords
  <2>2. QED
    BY <1>3, <1>6, <2>1 DEF DeskPlaces
<1>10. ASSUME NEW w \in DeskThreads, NEW i \in DeskIds, NEW price, DeskCloses(w, i, price)
       PROVE  DeskPlaces'
  <2> DEFINE gain == Earned(holdings[i].ticket, price, holdings[i].left)
             u == [AtRest EXCEPT !.kind = "recording", !.gain = gain]
             h == [holdings[i] EXCEPT !.status = "CLOSED", !.gain = gain, !.left = 0]
  <2>1. /\ task' = [task EXCEPT ![w] = u] /\ UNCHANGED <<paperDesk, fees, exits>>
        /\ holdings' = [holdings EXCEPT ![i].status = "CLOSED", ![i].gain = gain, ![i].left = 0]
    BY <1>10 DEF DeskCloses
  <2> HIDE DEF gain
  <2>2. holdings' = [holdings EXCEPT ![i] = h]
    BY <1>1, <2>1
  <2>3. u.kind \in TaskKinds
    BY DEF AtRest, TaskKinds
  <2>4. h.status \in DealStatuses
    BY <1>1, <1>6 DEF IsPosition
  <2> HIDE DEF u, h
  <2>5. QED
    BY <1>2, <1>3, <2>1, <2>2, <2>3, <2>4 DEF DeskPlaces
<1>11. ASSUME NEW i \in DeskIds, NEW t, ManagerOpens(i, t)
       PROVE  DeskPlaces'
  <2>1. /\ holdings' = [holdings EXCEPT ![i] = Opened(t, FALSE)]
        /\ UNCHANGED <<paperDesk, task, fees, exits>>
    BY <1>11 DEF ManagerOpens
  <2>2. QED
    BY <1>2, <1>4, <1>6, <2>1 DEF DeskPlaces
<1>12. ASSUME NEW i \in DeskIds, NEW quantity, NEW price, ManagerExits(i, quantity, price)
       PROVE  DeskPlaces'
  <2> DEFINE left == holdings[i].left - quantity
             now == IF left = 0 THEN "CLOSED" ELSE "OPEN"
             gain == holdings[i].gain + Earned(holdings[i].ticket, price, quantity)
             h == [holdings[i] EXCEPT !.left = left, !.gain = gain, !.status = now]
  <2>1. /\ UNCHANGED <<paperDesk, task, fees>> /\ exits' = exits + 1
        /\ holdings' = [holdings EXCEPT ![i].left = left,
                            ![i].gain = @ + Earned(holdings[i].ticket, price, quantity),
                            ![i].status = now]
    BY <1>12 DEF ManagerExits
  <2>2. now \in DealStatuses
    BY <1>6
  <2> HIDE DEF now, left
  <2>3. holdings' = [holdings EXCEPT ![i] = h]
    BY <1>1, <2>1
  <2> HIDE DEF gain
  <2>4. h.status = now
    BY <1>1 DEF IsPosition
  <2> HIDE DEF h
  <2>5. exits' \in Nat
    BY <2>1 DEF DeskPlaces
  <2>6. QED
    BY <1>2, <2>1, <2>2, <2>3, <2>4, <2>5 DEF DeskPlaces
<1>13. ASSUME NEW t, PortfolioOpens(t)
       PROVE  DeskPlaces'
  <2>1. PICK i \in Fresh : holdings' = [holdings EXCEPT ![i] = Opened(t, FALSE)]
    BY <1>13 DEF PortfolioOpens
  <2>2. UNCHANGED <<paperDesk, task, exits>> /\ fees' = fees + DeskFee
    BY <1>13 DEF PortfolioOpens
  <2>3. \A k \in DeskIds : holdings'[k].status \in DealStatuses
    BY <1>2, <1>4, <1>5, <1>6, <2>1
  <2>4. DeskFee \in Nat
    OBVIOUS
  <2>5. QED
    BY <2>2, <2>3, <2>4 DEF DeskPlaces
<1>14. ASSUME NEW price, PortfolioUpdates(price)
       PROVE  DeskPlaces'
  <2> DEFINE new(i) == IF i \in Leaving(price)
                       THEN [holdings[i] EXCEPT !.status = "CLOSED", !.left = 0,
                                                !.gain = PortfolioGain(i, price)]
                       ELSE holdings[i]
  <2>1. /\ holdings' = [i \in DeskIds |-> new(i)]
        /\ UNCHANGED <<paperDesk, task, fees, exits>>
    BY <1>14 DEF PortfolioUpdates
  <2>2. ASSUME NEW i \in DeskIds PROVE new(i).status \in DealStatuses
    <3>1. CASE i \in Leaving(price)
      BY <1>1, <1>6, <3>1 DEF IsPosition
    <3>2. CASE i \notin Leaving(price)
      BY <3>2 DEF DeskPlaces
    <3>3. QED
      BY <3>1, <3>2
  <2> HIDE DEF new
  <2>3. QED
    BY <2>1, <2>2 DEF DeskPlaces
<1>15. ASSUME NEW t, LifecycleSubmits(t)
       PROVE  DeskPlaces'
  <2> DEFINE h == [NoPosition EXCEPT !.ticket = t, !.status = "PENDING"]
  <2>1. PICK i \in Fresh : holdings' = [holdings EXCEPT ![i] = h]
    BY <1>15 DEF LifecycleSubmits
  <2>2. UNCHANGED <<paperDesk, task, fees, exits>>
    BY <1>15 DEF LifecycleSubmits
  <2>3. h.status \in DealStatuses
    BY DEF NoPosition, DealStatuses
  <2> HIDE DEF h
  <2>4. QED
    BY <1>2, <1>5, <2>1, <2>2, <2>3 DEF DeskPlaces
<1>16. ASSUME NEW i \in DeskIds, NEW quantity, NEW price, LifecycleFills(i, quantity, price)
       PROVE  DeskPlaces'
  <2> DEFINE filled == holdings[i].filled + quantity
             now == IF filled = holdings[i].ticket.quantity THEN "FILLED" ELSE "PARTIAL"
             h == [holdings[i] EXCEPT !.filled = filled, !.ticket.entry = price, !.status = now]
  <2>1. /\ UNCHANGED <<paperDesk, task, fees>> /\ exits' = exits + 1
        /\ holdings' = [holdings EXCEPT ![i].filled = filled, ![i].ticket.entry = price,
                                        ![i].status = now]
    BY <1>16 DEF LifecycleFills
  <2>2. now \in DealStatuses
    BY DEF DealStatuses
  <2> HIDE DEF now, filled
  <2>3. holdings' = [holdings EXCEPT ![i] = h]
    BY <1>1, <2>1, ZenonT(40)
  <2>4. h.status = now
    BY <1>1 DEF IsPosition
  <2> HIDE DEF h
  <2>5. exits' \in Nat
    BY <2>1 DEF DeskPlaces
  <2>6. QED
    BY <1>2, <2>1, <2>2, <2>3, <2>4, <2>5 DEF DeskPlaces
<1>17. ASSUME NEW i \in DeskIds, LifecycleCancels(i)
       PROVE  DeskPlaces'
  <2> DEFINE h == [holdings[i] EXCEPT !.status = "CANCELLED"]
  <2>1. /\ UNCHANGED <<paperDesk, task, fees, exits>>
        /\ holdings' = [holdings EXCEPT ![i].status = "CANCELLED"]
    BY <1>17 DEF LifecycleCancels
  <2>2. holdings' = [holdings EXCEPT ![i] = h]
    BY <1>1, <2>1
  <2>3. h.status \in DealStatuses
    BY <1>1 DEF IsPosition, DealStatuses
  <2> HIDE DEF h
  <2>4. QED
    BY <1>2, <2>1, <2>2, <2>3 DEF DeskPlaces
<1>18. CASE UNCHANGED deskVars
  BY <1>18 DEF deskVars, DeskPlaces
<1>19. QED
  BY <1>7, <1>8, <1>9, <1>10, <1>11, <1>12, <1>13, <1>14, <1>15, <1>16, <1>17, <1>18 DEF DeskNext

\* The books, the journal and the threads of the four paper books keep their types, for any
\* tickets, prices and costs (paper_execution.py, position_manager.py, paper_portfolio.py,
\* paper_trading.py).
THEOREM DeskTypeCorrect == DeskSpec => []DeskTypeOK
<1>1. DeskInit => MoneyInv /\ DeskPlaces
  <2> SUFFICES ASSUME DeskInit PROVE MoneyInv /\ DeskPlaces
    OBVIOUS
  <2>1. MoneyInv
    BY BooksStart
  <2>2. DeskPlaces
    BY DEF DeskInit, DeskPlaces, NoPosition, AtRest, DealStatuses, TaskKinds
  <2>3. QED
    BY <2>1, <2>2
<1>2. MoneyInv /\ DeskPlaces /\ [DeskNext]_deskVars => (MoneyInv /\ DeskPlaces)'
  BY MoneyStep, DeskPlacesStep
<1>3. MoneyInv /\ DeskPlaces => DeskTypeOK
  <2> SUFFICES ASSUME MoneyInv, DeskPlaces PROVE DeskTypeOK
    OBVIOUS
  <2>1. MoneyTypes /\ \A i \in DeskIds : IsPosition(holdings[i])
    BY DEF MoneyInv, LimitInv, LimitTypes
  <2>2. \A k \in 1..Len(tradeRows) : tradeRows[k] \in Int
    BY <2>1 DEF MoneyTypes
  <2>3. \A i \in DeskIds :
          /\ {holdings[i].left, holdings[i].filled} \subseteq Nat
          /\ holdings[i].gain \in Int /\ holdings[i].checked \in BOOLEAN
    BY <2>1 DEF MoneyTypes, IsDeal, IsPosition
  <2>4. {earnings, cash} \subseteq Int /\ {fees, exits} \subseteq Nat
    BY <2>1 DEF MoneyTypes, DeskPlaces
  <2>5. QED
    BY <2>2, <2>3, <2>4 DEF DeskPlaces, DeskTypeOK, DealStatuses, TaskKinds
<1>4. QED
  BY <1>1, <1>2, <1>3, PTL DEF DeskSpec

HIDE DeskAssumption

-----------------------------------------------------------------------------
(* The money of the paper backtest.                                         *)

USE PaperAssumption

PositionRecord ==
  [side : {0, 1, -1}, quantity : Nat, entry : Int, stop : Int, target : Int,
   initialStop : Int, partial : BOOLEAN]

Portfolio ==
  [positions : [Symbols -> PositionRecord], realized : Int, entryFees : Int, cash : Int,
   journal : Int]

\* What the open positions cost.
CostOf(p) == p.side * p.quantity * p.entry
Cost(positions) == SumFunctionOnSet([s \in Symbols |-> CostOf(positions[s])], Symbols)

\* The realized result less the fees is the money the fills moved and what is held at cost.
MoneyOK(bk) ==
  /\ bk \in Portfolio /\ bk.journal = bk.realized
  /\ bk.realized - bk.entryFees = bk.cash + Cost(bk.positions)

LEMMA Products ==
  /\ \A a, b \in Int : a * b \in Int
  /\ \A a, b, c \in Int : a * b * c \in Int
  OBVIOUS

LEMMA CostTypes ==
  /\ \A p \in PositionRecord : CostOf(p) \in Int
  /\ \A positions \in [Symbols -> PositionRecord] : Cost(positions) \in Int
<1>1. ASSUME NEW p \in PositionRecord PROVE CostOf(p) \in Int
  <2>1. p.side \in Int /\ p.quantity \in Int /\ p.entry \in Int
    BY DEF PositionRecord
  <2>2. QED
    BY <2>1, Products DEF CostOf
<1>2. ASSUME NEW positions \in [Symbols -> PositionRecord] PROVE Cost(positions) \in Int
  <2> DEFINE f == [s \in Symbols |-> CostOf(positions[s])]
  <2>1. \A s \in Symbols : f[s] \in Int
    BY <1>1
  <2> HIDE DEF f
  <2>2. SumFunctionOnSet(f, Symbols) \in Int
    BY <2>1, SumType
  <2>3. QED
    BY <2>2 DEF Cost, f
<1>3. QED
  BY <1>1, <1>2

\* One position changes.
LEMMA CostChanges ==
  ASSUME NEW positions \in [Symbols -> PositionRecord], NEW s \in Symbols,
         NEW p \in PositionRecord
  PROVE  Cost([positions EXCEPT ![s] = p])
           = Cost(positions) - CostOf(positions[s]) + CostOf(p)
<1> DEFINE after == [positions EXCEPT ![s] = p]
           f == [t \in Symbols |-> CostOf(positions[t])]
           g == [t \in Symbols |-> CostOf(after[t])]
<1>1. after \in [Symbols -> PositionRecord] /\ after[s] = p
      /\ \A t \in Symbols \ {s} : after[t] = positions[t]
  OBVIOUS
<1> HIDE DEF after
<1>2. /\ \A t \in Symbols : f[t] \in Int /\ g[t] \in Int
      /\ \A t \in Symbols \ {s} : g[t] = f[t]
      /\ f[s] = CostOf(positions[s]) /\ g[s] = CostOf(p)
  BY <1>1, CostTypes
<1>3. Cost(positions) = SumFunctionOnSet(f, Symbols) /\ Cost(after) = SumFunctionOnSet(g, Symbols)
  BY DEF Cost
<1> HIDE DEF f, g
<1>4. SumFunctionOnSet(g, Symbols) = SumFunctionOnSet(f, Symbols) - f[s] + g[s]
  BY <1>2, SumChanges
<1>5. QED
  BY <1>2, <1>3, <1>4 DEF after

\* A portfolio in which one position and the money change as much as each other.
LEMMA MoneyStays ==
  ASSUME NEW bk, MoneyOK(bk), NEW s \in Symbols, NEW p \in PositionRecord, NEW after \in Portfolio,
         after.positions = [bk.positions EXCEPT ![s] = p],
         after.journal - bk.journal = after.realized - bk.realized,
         (after.realized - bk.realized) - (after.entryFees - bk.entryFees)
           = (after.cash - bk.cash) + (CostOf(p) - CostOf(bk.positions[s]))
  PROVE  MoneyOK(after)
<1>1. /\ bk.positions \in [Symbols -> PositionRecord] /\ bk.positions[s] \in PositionRecord
      /\ bk.realized \in Int /\ bk.entryFees \in Int /\ bk.cash \in Int /\ bk.journal \in Int
      /\ after.realized \in Int /\ after.entryFees \in Int /\ after.cash \in Int
      /\ after.journal \in Int
  BY DEF MoneyOK, Portfolio
<1>2. /\ CostOf(p) \in Int /\ CostOf(bk.positions[s]) \in Int
      /\ Cost(bk.positions) \in Int
  BY <1>1, CostTypes
<1>3. Cost(after.positions) = Cost(bk.positions) - CostOf(bk.positions[s]) + CostOf(p)
  BY <1>1, CostChanges
<1>4. QED
  BY <1>1, <1>2, <1>3 DEF MoneyOK

LEMMA MaxMinTypes ==
  ASSUME NEW a \in Int, NEW b \in Int PROVE Max({a, b}) \in Int /\ Min({a, b}) \in Int
<1>1. (\E x \in {a, b} : \A y \in {a, b} : x >= y) /\ (\E x \in {a, b} : \A y \in {a, b} : x <= y)
  OBVIOUS
<1>2. Max({a, b}) \in {a, b} /\ Min({a, b}) \in {a, b}
  BY <1>1, Zenon DEF Max, Min
<1>3. QED
  BY <1>2

LEMMA BarTypes ==
  ASSUME NEW bar \in Bars PROVE bar.close \in Int /\ bar.high \in Int /\ bar.low \in Int
BY DEF Bars

LEMMA TrailKeepsMoney ==
  ASSUME NEW bk, MoneyOK(bk), NEW s \in Symbols, NEW bar \in Bars
  PROVE  MoneyOK(Trailed(bk, s, bar))
<1> DEFINE p == bk.positions[s]
           stop == UpdatedStop(p, bar.close)
           q == [p EXCEPT !.stop = stop]
           after == [bk EXCEPT !.positions = [bk.positions EXCEPT ![s] = q]]
<1>1. /\ bk \in Portfolio /\ bk.positions \in [Symbols -> PositionRecord] /\ p \in PositionRecord
  BY DEF MoneyOK, Portfolio
<1>2. p.side \in {0, 1, -1} /\ p.entry \in Int /\ p.initialStop \in Int /\ p.stop \in Int
  BY <1>1 DEF PositionRecord
<1>3. stop \in Int
  <2> DEFINE risk == IF p.entry > p.initialStop THEN p.entry - p.initialStop
                     ELSE p.initialStop - p.entry
             candidate == bar.close - p.side * (risk \div 2)
  <2>1. risk \in Int /\ candidate \in Int
    <3>1. risk \in Int
      BY <1>2
    <3> HIDE DEF risk
    <3>2. risk \div 2 \in Int
      BY <3>1
    <3>3. QED
      BY <1>2, <3>1, <3>2, BarTypes, Products
  <2>2. Max({p.stop, candidate}) \in Int /\ Min({p.stop, candidate}) \in Int
    <3> HIDE DEF candidate, p
    <3>1. QED
      BY <1>2, <2>1, MaxMinTypes
  <2>3. stop \in {p.stop, Max({p.stop, candidate}), Min({p.stop, candidate})}
    BY DEF UpdatedStop
  <2> HIDE DEF candidate, p, stop
  <2>4. QED
    BY <1>2, <2>2, <2>3
<1> HIDE DEF stop
<1>4. q \in PositionRecord /\ CostOf(q) = CostOf(p)
  BY <1>1, <1>3 DEF PositionRecord, CostOf
<1>5. Trailed(bk, s, bar) \in {bk, after}
  BY <1>1 DEF Trailed, stop, Portfolio
<1>6. /\ after \in Portfolio /\ after.positions = [bk.positions EXCEPT ![s] = q]
      /\ after.realized = bk.realized /\ after.entryFees = bk.entryFees
      /\ after.cash = bk.cash /\ after.journal = bk.journal
  BY <1>1, <1>4 DEF Portfolio
<1>7. bk.realized \in Int /\ bk.entryFees \in Int /\ bk.cash \in Int /\ bk.journal \in Int
      /\ CostOf(p) \in Int
  BY <1>1, CostTypes DEF Portfolio
<1> HIDE DEF after, q
<1>8. MoneyOK(after)
  BY <1>4, <1>6, <1>7, MoneyStays DEF p
<1>9. QED
  BY <1>5, <1>8

\* A fill takes what it costs from one book and gives it to the other.
LEMMA FillIsEven ==
  ASSUME NEW side \in {0, 1, -1}, NEW price \in Int, NEW entry \in Int, NEW quantity \in Int
  PROVE  /\ (price - entry) * quantity * side \in Int /\ side * price * quantity \in Int
         /\ side * quantity * entry \in Int
         /\ (price - entry) * quantity * side
              = side * price * quantity - side * quantity * entry
<1>1. /\ (price - entry) * quantity = price * quantity - entry * quantity
      /\ price * quantity \in Int /\ entry * quantity \in Int /\ quantity * entry = entry * quantity
      /\ (price - entry) * quantity \in Int
  OBVIOUS
<1>2. CASE side = 0
  BY <1>1, <1>2
<1>3. CASE side = 1
  BY <1>1, <1>3
<1>4. CASE side = -1
  BY <1>1, <1>4
<1>5. QED
  BY <1>2, <1>3, <1>4

\* A part or the whole of a position is closed: what is left, and the money.
ClosedAs(bk, s, price, quantity, commission, after) ==
  LET p == bk.positions[s]
      gain == (price - p.entry) * quantity * p.side
      left == IF p.quantity - quantity = 0 THEN Flat
              ELSE [p EXCEPT !.quantity = p.quantity - quantity]
  IN  /\ after \in Portfolio /\ left \in PositionRecord
      /\ after.positions = [bk.positions EXCEPT ![s] = left]
      /\ after.realized = bk.realized + gain - commission
      /\ after.journal = bk.journal + gain - commission
      /\ after.cash = bk.cash + p.side * price * quantity - commission
      /\ after.entryFees = bk.entryFees
      /\ CostOf(left) = CostOf(p) - p.side * quantity * p.entry

LEMMA CloseTypes ==
  ASSUME NEW bk, MoneyOK(bk), NEW s \in Symbols, NEW price \in Int, NEW quantity \in Nat,
         NEW commission \in Int, quantity <= bk.positions[s].quantity,
         NEW after, after = ClosePosition(bk, s, price, quantity, commission)
  PROVE  ClosedAs(bk, s, price, quantity, commission, after)
<1> DEFINE p == bk.positions[s]
           gain == (price - p.entry) * quantity * p.side
           took == p.side * price * quantity
           left == IF p.quantity - quantity = 0 THEN Flat
                   ELSE [p EXCEPT !.quantity = p.quantity - quantity]
<1>1. /\ bk \in Portfolio /\ bk.positions \in [Symbols -> PositionRecord] /\ p \in PositionRecord
      /\ bk.realized \in Int /\ bk.entryFees \in Int /\ bk.cash \in Int /\ bk.journal \in Int
  BY DEF MoneyOK, Portfolio
<1>2. p.side \in {0, 1, -1} /\ p.entry \in Int /\ p.quantity \in Nat
  BY <1>1 DEF PositionRecord
<1>3. gain \in Int /\ took \in Int
  BY <1>2, FillIsEven
<1>4. left \in PositionRecord
  BY <1>1, <1>2 DEF PositionRecord, Flat
<1>5. CostOf(left) = CostOf(p) - p.side * quantity * p.entry
  <2>1. CASE p.quantity = quantity
    <3>1. left = Flat
      BY <1>2, <2>1
    <3>2. CostOf(Flat) = 0
      BY DEF CostOf, Flat
    <3>3. CostOf(p) \in Int
      BY <1>1, CostTypes
    <3>4. CostOf(p) = p.side * quantity * p.entry
      BY <2>1 DEF CostOf
    <3>5. QED
      BY <3>1, <3>2, <3>3, <3>4
  <2>2. CASE p.quantity # quantity
    <3>1. /\ left.side = p.side /\ left.quantity = p.quantity - quantity /\ left.entry = p.entry
      BY <1>1, <1>2, <2>2 DEF PositionRecord
    <3>2. \A side \in {0, 1, -1}, a, b, c \in Int :
             side * (a - b) * c = side * a * c - side * b * c
      OBVIOUS
    <3> HIDE DEF left, p
    <3>3. QED
      BY <1>2, <3>1, <3>2 DEF CostOf
  <2>3. QED
    BY <2>1, <2>2
<1>6. after = [bk EXCEPT !.positions = [bk.positions EXCEPT ![s] = left],
                         !.realized = bk.realized + (gain - commission),
                         !.cash = bk.cash + took - commission,
                         !.journal = bk.journal + (gain - commission)]
  <2>1. Gain(p, price, quantity) = gain
    BY DEF Gain
  <2>2. QED
    BY <2>1 DEF ClosePosition
<1>7. bk.realized + (gain - commission) = bk.realized + gain - commission
      /\ bk.journal + (gain - commission) = bk.journal + gain - commission
      /\ bk.realized + gain - commission \in Int /\ bk.journal + gain - commission \in Int
      /\ bk.cash + took - commission \in Int
  <2> HIDE DEF gain, took
  <2>1. QED
    BY <1>1, <1>3
<1> HIDE DEF gain, took, left, p
<1>8. /\ after \in Portfolio
      /\ after.positions = [bk.positions EXCEPT ![s] = left]
      /\ after.realized = bk.realized + gain - commission
      /\ after.journal = bk.journal + gain - commission
      /\ after.cash = bk.cash + took - commission
      /\ after.entryFees = bk.entryFees
  <2> DEFINE positions == [bk.positions EXCEPT ![s] = left]
             realized == bk.realized + gain - commission
             noted == bk.journal + gain - commission
             money == bk.cash + took - commission
  <2>1. after = [bk EXCEPT !.positions = positions, !.realized = realized, !.cash = money,
                           !.journal = noted]
    BY <1>6, <1>7
  <2>2. /\ positions \in [Symbols -> PositionRecord] /\ realized \in Int
        /\ noted \in Int /\ money \in Int
    BY <1>1, <1>4, <1>7
  <2> HIDE DEF positions, realized, noted, money
  <2>3. /\ after \in Portfolio /\ after.positions = positions /\ after.realized = realized
        /\ after.journal = noted /\ after.cash = money /\ after.entryFees = bk.entryFees
    BY <1>1, <2>1, <2>2 DEF Portfolio
  <2>4. QED
    BY <2>3 DEF positions, realized, noted, money
<1>9. QED
  BY <1>4, <1>5, <1>8 DEF gain, took, left, p, ClosedAs

LEMMA PartialKeepsMoney ==
  ASSUME NEW bk, MoneyOK(bk), NEW s \in Symbols, NEW bar \in Bars
  PROVE  MoneyOK(PartlyClosed(bk, s, bar))
<1> DEFINE p == bk.positions[s]
           quantity == PartialQuantity(p, bar)
           price == FillPrice(-p.side, bar.close)
           gain == (price - p.entry) * quantity * p.side
           took == p.side * price * quantity
           closed == ClosePosition(bk, s, price, quantity, Fee)
           left == IF p.quantity - quantity = 0 THEN Flat
                   ELSE [p EXCEPT !.quantity = p.quantity - quantity]
           rest == [left EXCEPT !.stop = p.entry, !.partial = TRUE]
           after == [closed EXCEPT !.positions = [closed.positions EXCEPT ![s] = rest]]
<1>1. /\ bk \in Portfolio /\ bk.positions \in [Symbols -> PositionRecord] /\ p \in PositionRecord
      /\ bk.realized \in Int /\ bk.entryFees \in Int /\ bk.cash \in Int /\ bk.journal \in Int
  BY DEF MoneyOK, Portfolio
<1>2. p.side \in {0, 1, -1} /\ p.entry \in Int /\ p.quantity \in Nat
  BY <1>1 DEF PositionRecord
<1>3. quantity \in Nat /\ quantity <= p.quantity
  <2>1. quantity \in {p.quantity \div 2, 0}
    BY DEF PartialQuantity
  <2> HIDE DEF quantity, p
  <2>2. QED
    BY <1>2, <2>1
<1>4. price \in Int
  BY <1>2, BarTypes DEF FillPrice
<1> HIDE DEF quantity, price
<1>5. /\ closed \in Portfolio /\ left \in PositionRecord
      /\ closed.positions = [bk.positions EXCEPT ![s] = left]
      /\ closed.realized = bk.realized + gain - Fee
      /\ closed.journal = bk.journal + gain - Fee
      /\ closed.cash = bk.cash + took - Fee
      /\ closed.entryFees = bk.entryFees
      /\ CostOf(left) = CostOf(p) - p.side * quantity * p.entry
  <2>1. Fee \in Int /\ closed = ClosePosition(bk, s, price, quantity, Fee)
    OBVIOUS
  <2> HIDE DEF closed
  <2>2. ClosedAs(bk, s, price, quantity, Fee, closed)
    BY <1>3, <1>4, <2>1, CloseTypes
  <2>3. QED
    BY <2>2 DEF ClosedAs
<1>6. gain \in Int /\ took \in Int /\ p.side * quantity * p.entry \in Int
      /\ gain = took - p.side * quantity * p.entry
  BY <1>2, <1>3, <1>4, FillIsEven
<1>7. CostOf(p) \in Int
  BY <1>1, CostTypes
<1>8. PartlyClosed(bk, s, bar) \in {bk, after}
  <2>1. CASE s \notin Open(bk) \/ p.partial \/ quantity = 0
    BY <2>1 DEF PartlyClosed, quantity, price
  <2>2. CASE ~(s \notin Open(bk) \/ p.partial \/ quantity = 0)
    <3>1. PartlyClosed(bk, s, bar)
            = [closed EXCEPT !.positions[s].stop = p.entry, !.positions[s].partial = TRUE]
      BY <2>2 DEF PartlyClosed, quantity, price
    <3>2. closed.positions[s] = left
      BY <1>1, <1>5
    <3> HIDE DEF closed, left
    <3>3. [closed EXCEPT !.positions[s].stop = p.entry, !.positions[s].partial = TRUE] = after
      BY <1>1, <1>5, <3>2 DEF Portfolio
    <3>4. QED
      BY <3>1, <3>3
  <2>3. QED
    BY <2>1, <2>2
<1> HIDE DEF closed, left, gain, took
<1>9. rest \in PositionRecord /\ CostOf(rest) = CostOf(left)
  <2>1. [left EXCEPT !.stop = p.entry] \in PositionRecord
    BY <1>2, <1>5 DEF PositionRecord
  <2>2. rest \in PositionRecord
    BY <2>1 DEF PositionRecord
  <2>3. rest.side = left.side /\ rest.quantity = left.quantity /\ rest.entry = left.entry
    BY <1>5 DEF PositionRecord
  <2>4. QED
    BY <2>2, <2>3 DEF CostOf
<1> HIDE DEF rest
<1>10. after \in Portfolio /\ after.positions = [bk.positions EXCEPT ![s] = rest]
       /\ after.realized = closed.realized /\ after.journal = closed.journal
       /\ after.cash = closed.cash /\ after.entryFees = closed.entryFees
  BY <1>1, <1>5, <1>9 DEF Portfolio
<1> HIDE DEF after
<1>11. /\ after.journal - bk.journal = after.realized - bk.realized
       /\ (after.realized - bk.realized) - (after.entryFees - bk.entryFees)
            = (after.cash - bk.cash) + (CostOf(rest) - CostOf(p))
  <2> HIDE DEF p
  <2>1. QED
    BY <1>1, <1>5, <1>6, <1>7, <1>9, <1>10
<1>12. MoneyOK(after)
  BY <1>9, <1>10, <1>11, MoneyStays DEF p
<1>13. QED
  BY <1>8, <1>12

LEMMA StopKeepsMoney ==
  ASSUME NEW bk, MoneyOK(bk), NEW s \in Symbols, NEW bar \in Bars
  PROVE  MoneyOK(StoppedOut(bk, s, bar))
<1> DEFINE p == bk.positions[s]
           level == IF StopHit(p, bar) THEN p.stop ELSE p.target
           fill == FillPrice(-p.side, level)
           gain == (level - p.entry) * p.quantity * p.side
           slippage == (fill - level) * p.quantity * p.side
           took == p.side * fill * p.quantity
           closed == ClosePosition(bk, s, level, p.quantity, 0)
           left == IF p.quantity - p.quantity = 0 THEN Flat
                   ELSE [p EXCEPT !.quantity = p.quantity - p.quantity]
           moved == [closed EXCEPT !.cash = bk.cash + took - Fee]
           after == Slipped(moved, s, level, p.quantity, p.side)
<1>1. /\ bk \in Portfolio /\ bk.positions \in [Symbols -> PositionRecord] /\ p \in PositionRecord
      /\ bk.realized \in Int /\ bk.entryFees \in Int /\ bk.cash \in Int /\ bk.journal \in Int
  BY DEF MoneyOK, Portfolio
<1>2. /\ p.side \in {0, 1, -1} /\ p.entry \in Int /\ p.quantity \in Nat
      /\ p.stop \in Int /\ p.target \in Int
  BY <1>1 DEF PositionRecord
<1>3. level \in Int /\ fill \in Int
  BY <1>2 DEF FillPrice
<1>4. StoppedOut(bk, s, bar) \in {bk, after}
  BY DEF StoppedOut
<1> HIDE DEF level, fill
<1>5. /\ closed \in Portfolio /\ left \in PositionRecord
      /\ closed.positions = [bk.positions EXCEPT ![s] = left]
      /\ closed.realized = bk.realized + gain - 0
      /\ closed.journal = bk.journal + gain - 0
      /\ closed.entryFees = bk.entryFees
      /\ CostOf(left) = CostOf(p) - p.side * p.quantity * p.entry
  <2>1. 0 \in Int /\ closed = ClosePosition(bk, s, level, p.quantity, 0)
    OBVIOUS
  <2> HIDE DEF closed
  <2>2. ClosedAs(bk, s, level, p.quantity, 0, closed)
    BY <1>2, <1>3, <2>1, CloseTypes
  <2>3. QED
    BY <2>2 DEF ClosedAs
<1>6. /\ gain \in Int /\ slippage \in Int /\ took \in Int /\ p.side * p.quantity * p.entry \in Int
      /\ gain + slippage = took - p.side * p.quantity * p.entry
  <2> DEFINE whole == p.side * level * p.quantity
             owed == p.side * p.quantity * level
  <2>1. /\ gain \in Int /\ whole \in Int /\ p.side * p.quantity * p.entry \in Int
        /\ gain = whole - p.side * p.quantity * p.entry
    <3>1. \A side \in {0, 1, -1}, price, entry, quantity \in Int :
            /\ (price - entry) * quantity * side \in Int /\ side * price * quantity \in Int
            /\ side * quantity * entry \in Int
            /\ (price - entry) * quantity * side
                 = side * price * quantity - side * quantity * entry
      BY FillIsEven
    <3>2. p.side \in {0, 1, -1} /\ level \in Int /\ p.entry \in Int /\ p.quantity \in Int
      BY <1>2, <1>3
    <3> HIDE DEF p
    <3>3. gain \in Int /\ whole \in Int
      BY <3>1, <3>2
    <3>4. p.side * p.quantity * p.entry \in Int
      BY <3>1, <3>2
    <3>5. gain = whole - p.side * p.quantity * p.entry
      BY <3>1, <3>2
    <3>6. QED
      BY <3>3, <3>4, <3>5
  <2>2. /\ slippage \in Int /\ took \in Int /\ owed \in Int /\ slippage = took - owed
    BY <1>2, <1>3, FillIsEven
  <2>3. whole = owed
    BY <1>2, <1>3
  <2> HIDE DEF gain, slippage, took, whole, owed
  <2>4. QED
    BY <2>1, <2>2, <2>3
<1>7. CostOf(p) \in Int
  BY <1>1, CostTypes
<1> DEFINE money == bk.cash + took - Fee
           adjustment == slippage - Fee
<1>8. money \in Int /\ adjustment \in Int
  <2> HIDE DEF took, slippage
  <2>1. QED
    BY <1>1, <1>6
<1>9. /\ after = [moved EXCEPT !.realized = moved.realized + adjustment,
                               !.journal = moved.journal + adjustment]
      /\ moved = [closed EXCEPT !.cash = money]
  BY DEF Slipped, fill
<1> HIDE DEF closed, left, gain, took, slippage, adjustment, money, moved, after
<1>10. /\ moved \in Portfolio /\ moved.positions = closed.positions
       /\ moved.realized = closed.realized /\ moved.journal = closed.journal
       /\ moved.cash = money /\ moved.entryFees = closed.entryFees
       /\ moved.realized \in Int /\ moved.journal \in Int
  BY <1>5, <1>8, <1>9 DEF Portfolio
<1>11. /\ after \in Portfolio /\ after.positions = [bk.positions EXCEPT ![s] = left]
       /\ after.realized = closed.realized + adjustment
       /\ after.journal = closed.journal + adjustment
       /\ after.cash = money /\ after.entryFees = closed.entryFees
  <2> DEFINE realized == moved.realized + adjustment
             noted == moved.journal + adjustment
  <2>1. realized \in Int /\ noted \in Int
    BY <1>8, <1>10
  <2>2. after = [moved EXCEPT !.realized = realized, !.journal = noted]
    BY <1>9
  <2> HIDE DEF realized, noted
  <2>3. /\ after \in Portfolio /\ after.positions = moved.positions /\ after.realized = realized
        /\ after.journal = noted /\ after.cash = moved.cash
        /\ after.entryFees = moved.entryFees
    BY <1>10, <2>1, <2>2 DEF Portfolio
  <2>4. QED
    BY <1>5, <1>10, <2>3 DEF realized, noted
<1>12. /\ after.journal - bk.journal = after.realized - bk.realized
       /\ (after.realized - bk.realized) - (after.entryFees - bk.entryFees)
            = (after.cash - bk.cash) + (CostOf(left) - CostOf(p))
  <2>1. adjustment = slippage - Fee /\ money = bk.cash + took - Fee
    BY DEF adjustment, money
  <2> HIDE DEF p
  <2>2. QED
    BY <1>1, <1>5, <1>6, <1>7, <1>11, <2>1
<1>13. MoneyOK(after)
  BY <1>5, <1>11, <1>12, MoneyStays DEF p
<1>14. QED
  BY <1>4, <1>13

LEMMA EntryKeepsMoney ==
  ASSUME NEW bk, MoneyOK(bk), NEW s \in Symbols, s \notin Open(bk), NEW bar \in Bars,
         NEW e \in Entries(bar)
  PROVE  MoneyOK(Entered(bk, s, bar, e))
<1> DEFINE p == bk.positions[s]
           price == FillPrice(e.side, bar.close)
           q == [side |-> e.side, quantity |-> Quantity, entry |-> price, stop |-> e.stop,
                 target |-> e.target, initialStop |-> e.stop, partial |-> FALSE]
           paid == e.side * price * Quantity
           after == Entered(bk, s, bar, e)
<1>1. /\ bk \in Portfolio /\ bk.positions \in [Symbols -> PositionRecord] /\ p \in PositionRecord
      /\ bk.realized \in Int /\ bk.entryFees \in Int /\ bk.cash \in Int /\ bk.journal \in Int
  BY DEF MoneyOK, Portfolio
<1>2. p.side \in {0, 1, -1} /\ p.quantity \in Nat /\ p.entry \in Int /\ p.quantity = 0
  BY <1>1 DEF PositionRecord, Open
<1>3. e.side \in {1, -1} /\ e.stop \in Int /\ e.target \in Int /\ price \in Int
  BY BarTypes DEF Entries, FillPrice
<1> HIDE DEF price
<1>4. q \in PositionRecord
  BY <1>3 DEF PositionRecord
<1>5. paid \in Int /\ CostOf(q) = paid /\ CostOf(p) = 0
  <2>1. e.side \in {0, 1, -1} /\ Quantity \in Int
    BY <1>3
  <2>2. paid \in Int /\ e.side * Quantity * price = paid
    BY <1>3
  <2>3. q.side = e.side /\ q.quantity = Quantity /\ q.entry = price
    OBVIOUS
  <2> HIDE DEF q, paid, p
  <2>4. QED
    BY <1>2, <2>2, <2>3 DEF CostOf
<1> DEFINE charged == bk.entryFees + Fee
           money == bk.cash - paid - Fee
<1>6. after = [bk EXCEPT !.positions = [bk.positions EXCEPT ![s] = q], !.entryFees = charged,
                         !.cash = money]
  BY DEF Entered, price
<1>7. charged \in Int /\ money \in Int
  BY <1>1, <1>5
<1> HIDE DEF q, paid, charged, money, after
<1>8. /\ after \in Portfolio /\ after.positions = [bk.positions EXCEPT ![s] = q]
      /\ after.realized = bk.realized /\ after.journal = bk.journal
      /\ after.entryFees = charged /\ after.cash = money
  BY <1>1, <1>4, <1>6, <1>7 DEF Portfolio
<1>9. /\ after.journal - bk.journal = after.realized - bk.realized
      /\ (after.realized - bk.realized) - (after.entryFees - bk.entryFees)
           = (after.cash - bk.cash) + (CostOf(q) - CostOf(p))
  <2>1. charged = bk.entryFees + Fee /\ money = bk.cash - paid - Fee
    BY DEF charged, money
  <2> HIDE DEF p
  <2>2. QED
    BY <1>1, <1>5, <1>8, <2>1
<1>10. MoneyOK(after)
  BY <1>4, <1>8, <1>9, MoneyStays DEF p
<1>11. QED
  BY <1>10 DEF after

LEMMA MoneyStarts == PaperInit => MoneyOK(paper)
<1> SUFFICES ASSUME PaperInit PROVE MoneyOK(paper)
  OBVIOUS
<1> DEFINE f == [s \in Symbols |-> CostOf(paper.positions[s])]
           zero == [s \in Symbols |-> 0]
<1>1. Flat \in PositionRecord /\ CostOf(Flat) = 0
  BY DEF Flat, PositionRecord, CostOf
<1>2. /\ paper \in Portfolio /\ paper.journal = paper.realized
      /\ paper.realized = 0 /\ paper.entryFees = 0 /\ paper.cash = 0
      /\ \A s \in Symbols : paper.positions[s] = Flat
  BY <1>1 DEF PaperInit, Portfolio
<1>3. \A s \in Symbols : f[s] = 0
  BY <1>1, <1>2
<1>4. Cost(paper.positions) = SumFunctionOnSet(f, Symbols)
  BY DEF Cost
<1> HIDE DEF f
<1>5. SumFunctionOnSet(f, {}) = SumFunctionOnSet(f, Symbols)
  BY <1>3, SumOfNonzero
<1>6. SumFunctionOnSet(f, {}) = 0
  BY SumEmpty
<1>7. QED
  BY <1>2, <1>4, <1>5, <1>6 DEF MoneyOK

LEMMA MoneyPreserved == MoneyOK(paper) /\ [PaperNext]_paperVars => MoneyOK(paper)'
<1> SUFFICES ASSUME MoneyOK(paper), [PaperNext]_paperVars PROVE MoneyOK(paper')
  BY DEF MoneyOK, Portfolio, Cost, CostOf, PositionRecord
<1>1. CASE UNCHANGED paperVars
  BY <1>1 DEF paperVars
<1>2. ASSUME NEW s \in Symbols, NEW bar \in Bars, Event(s, bar) PROVE MoneyOK(paper')
  <2> DEFINE trailed == Trailed(paper, s, bar)
             partly == PartlyClosed(trailed, s, bar)
             closed == StoppedOut(partly, s, bar)
  <2>1. MoneyOK(trailed)
    BY TrailKeepsMoney
  <2> HIDE DEF trailed
  <2>2. MoneyOK(partly)
    BY <2>1, PartialKeepsMoney
  <2> HIDE DEF partly
  <2>3. MoneyOK(closed)
    BY <2>2, StopKeepsMoney
  <2>4. \/ paper' = closed
        \/ /\ s \notin Open(closed)
           /\ \E e \in Entries(bar) : paper' = Entered(closed, s, bar, e)
    BY <1>2 DEF Event, partly, trailed
  <2> HIDE DEF closed
  <2>5. QED
    BY <2>3, <2>4, EntryKeepsMoney
<1>3. QED
  BY <1>1, <1>2 DEF PaperNext

LEMMA MoneyIsEquity == MoneyOK(paper) => EquityIsTheMoney
<1> SUFFICES ASSUME MoneyOK(paper) PROVE EquityIsTheMoney
  OBVIOUS
<1>1. /\ paper \in Portfolio /\ paper.positions \in [Symbols -> PositionRecord]
      /\ paper.realized \in Int /\ paper.entryFees \in Int /\ paper.cash \in Int
      /\ paper.journal = paper.realized
      /\ paper.realized - paper.entryFees = paper.cash + Cost(paper.positions)
      /\ Cost(paper.positions) \in Int
  BY CostTypes DEF MoneyOK, Portfolio
<1>2. ASSUME NEW price \in Prices
      PROVE  Valuation(paper, [s \in Symbols |-> price]) =
               Capital + paper.cash +
                 SumFunctionOnSet([s \in Symbols |-> paper.positions[s].side
                                                       * paper.positions[s].quantity * price],
                                  Symbols)
  <2> DEFINE held(s) == paper.positions[s]
             gains == [s \in Symbols |-> (price - held(s).entry) * held(s).quantity * held(s).side]
             costs == [s \in Symbols |-> CostOf(held(s))]
             worth == [s \in Symbols |-> held(s).side * held(s).quantity * price]
  <2>1. ASSUME NEW s \in Symbols
        PROVE  /\ gains[s] \in Int /\ costs[s] \in Int /\ worth[s] = gains[s] + costs[s]
               /\ s \notin Open(paper) => gains[s] = 0
    <3>1. held(s).side \in {0, 1, -1} /\ held(s).entry \in Int /\ held(s).quantity \in Nat
      BY <1>1 DEF PositionRecord
    <3> DEFINE p == held(s)
               gain == (price - p.entry) * p.quantity * p.side
               cost == p.side * p.quantity * p.entry
    <3>2. gains[s] = gain /\ costs[s] = cost /\ worth[s] = p.side * p.quantity * price
      BY DEF CostOf
    <3> HIDE DEF gains, costs, worth, p
    <3>3. gain \in Int /\ cost \in Int /\ gain = p.side * price * p.quantity - cost
      BY <3>1, FillIsEven DEF p
    <3>4. p.side * price * p.quantity = p.side * p.quantity * price
          /\ p.side * price * p.quantity \in Int
      BY <3>1 DEF p
    <3>5. p.quantity = 0 => gain = 0
      BY <3>1 DEF p
    <3>6. s \notin Open(paper) => p.quantity = 0
      BY <3>1 DEF Open, p
    <3> HIDE DEF gain, cost
    <3>7. QED
      BY <3>2, <3>3, <3>4, <3>5, <3>6
  <2>2. Valuation(paper, [s \in Symbols |-> price])
          = Equity(paper) + SumFunctionOnSet(gains, Open(paper))
    <3>1. [s \in Symbols |-> Gain(paper.positions[s], [t \in Symbols |-> price][s],
                                  paper.positions[s].quantity)] = gains
      BY DEF Gain
    <3> HIDE DEF gains
    <3>2. QED
      BY <3>1 DEF Valuation
  <2>3. Cost(paper.positions) = SumFunctionOnSet(costs, Symbols)
    BY DEF Cost
  <2>4. Open(paper) \in SUBSET Symbols
    BY DEF Open
  <2> HIDE DEF gains, costs, worth
  <2>5. SumFunctionOnSet(gains, Open(paper)) = SumFunctionOnSet(gains, Symbols)
    BY <2>1, <2>4, SumOfNonzero
  <2>6. SumFunctionOnSet(worth, Symbols)
          = SumFunctionOnSet(gains, Symbols) + SumFunctionOnSet(costs, Symbols)
    BY <2>1, SumOfSums
  <2>7. SumFunctionOnSet(gains, Symbols) \in Int
    BY <2>1, SumType
  <2>8. Valuation(paper, [s \in Symbols |-> price])
          = Capital + paper.cash + SumFunctionOnSet(worth, Symbols)
    BY <1>1, <2>2, <2>3, <2>5, <2>6, <2>7 DEF Equity
  <2>9. QED
    BY <2>8 DEF worth
<1>3. QED
  BY <1>1, <1>2 DEF EquityIsTheMoney

\* After any bars, for any prices, fees and slippage: the equity at any price is the
\* capital, the money the fills moved and what is held is worth; and the journal adds up
\* to the realized result.
THEOREM EquityCorrect == PaperSpec => []EquityIsTheMoney
BY MoneyStarts, MoneyPreserved, MoneyIsEquity, PTL DEF PaperSpec

HIDE PaperAssumption

-----------------------------------------------------------------------------
(* PreTrade: the open risk and its budget.                                  *)

USE PreTradeAssumption

States == [o \in PlanIds |-> placed[o].state]
Live == {"open", "filled"}

\* What a view counts for each order, and for all of them.
Counts(view) ==
  [o \in PlanIds |-> IF view[o] \in Live
                     THEN placed[o].quantity * StopDistance(placed[o].plan) ELSE 0]
LiveRisk(view) == SumFunctionOnSet(Counts(view), PlanIds)

OrderTypes ==
  /\ placed \in [PlanIds -> [plan : Proposals \cup {NoPlan}, quantity : Nat,
                             state : PlanStates]]
  /\ known \in [PlanIds -> PlanStates] /\ snapshot \in [PlanIds -> PlanStates]

\* The orders that a view shows have been recorded.
Recorded(view) == \A o \in PlanIds : view[o] # "none" => placed[o].plan \in Proposals

\* ... and sent.
Sent(view) == \A o \in PlanIds : view[o] # "none" => placed[o].state # "none"

LEMMA DistanceNat ==
  ASSUME NEW a \in Int, NEW b \in Int
  PROVE  Distance(a, b) \in Nat
BY DEF Distance

LEMMA RiskOfOrder ==
  ASSUME OrderTypes, NEW o \in PlanIds
  PROVE  /\ placed[o].quantity \in Nat /\ StopDistance(placed[o].plan) \in Nat
         /\ placed[o].quantity * StopDistance(placed[o].plan) \in Nat
         /\ NetOf(placed[o]) \in Int
<1>1. placed[o].quantity \in Nat /\ placed[o].plan \in Proposals \cup {NoPlan}
  BY DEF OrderTypes
<1>2. placed[o].plan.entry \in Nat /\ placed[o].plan.stop \in Nat
  BY <1>1 DEF NoPlan
<1>3. StopDistance(placed[o].plan) \in Nat
  BY <1>2 DEF StopDistance, Distance
<1>4. NetOf(placed[o]) \in Int
  BY <1>1 DEF NetOf
<1>5. QED
  BY <1>1, <1>3, <1>4

\* A position that is open has the levels of an order that made it.
LEMMA LevelsAre ==
  ASSUME OrderTypes, NEW view \in [PlanIds -> PlanStates], Recorded(view),
         NEW s \in PlanSymbols
  PROVE  /\ Held(view, s) \in Int
         /\ Held(view, s) # 0 =>
              \E o \in In(view, "filled", s) : LevelsOf(view, s) = placed[o].plan
<1> DEFINE net == [o \in PlanIds |-> NetOf(placed[o])]
           I == In(view, "filled", s)
           q == Held(view, s)
           side == IF q > 0 THEN "BUY" ELSE "SELL"
<1>1. I \subseteq PlanIds /\ IsFiniteSet(I)
  BY FS_Subset DEF In
<1>2. \A o \in I : net[o] \in Int
  BY <1>1, RiskOfOrder
<1>3. \A o \in I : placed[o].plan \in Proposals
  BY DEF In, Recorded
<1>4. q = SumFunctionOnSet(net, I)
  BY DEF Held
<1>5. LevelsOf(view, s) = CHOOSE p \in {placed[o].plan : o \in I} : p.side = side
  BY DEF LevelsOf
<1> HIDE DEF I, net
<1>6. q \in Int /\ (q > 0 => \E o \in I : net[o] > 0) /\ (q < 0 => \E o \in I : net[o] < 0)
  BY <1>1, <1>2, <1>4, SumType, SumHasSign
<1>7. \A o \in I : placed[o].quantity \in Nat /\ placed[o].plan.side \in {"BUY", "SELL"}
                  /\ net[o] = NetOf(placed[o])
  BY <1>1, <1>3 DEF OrderTypes, net
<1> HIDE DEF q
<1>8. q # 0 => \E o \in I : placed[o].plan.side = side
  BY <1>6, <1>7 DEF NetOf
<1> HIDE DEF side
<1>9. q # 0 => LevelsOf(view, s) \in {placed[o].plan : o \in I}
  BY <1>5, <1>8, Zenon
<1>10. QED
  BY <1>6, <1>9 DEF q, I

\* All orders of a symbol are on one side, so that its position is at risk for what each
\* of them is.
LEMMA PositionRiskIs ==
  ASSUME OrderedOneWay, OrderTypes, NEW view \in [PlanIds -> PlanStates], Recorded(view),
         Sent(view), NEW s \in PlanSymbols
  PROVE  PositionRisk(view, s) = SumFunctionOnSet(
           [o \in PlanIds |-> placed[o].quantity * StopDistance(placed[o].plan)],
           In(view, "filled", s))
<1> DEFINE I == In(view, "filled", s)
           signed == [o \in PlanIds |-> NetOf(placed[o])]
           sizes == [o \in PlanIds |-> placed[o].quantity]
           risks == [o \in PlanIds |-> placed[o].quantity * StopDistance(placed[o].plan)]
           H == Held(view, s)
           Q == SumFunctionOnSet(sizes, I)
<1>1. I \in SUBSET PlanIds /\ IsFiniteSet(I)
  BY FS_Subset DEF In
<1>2. \A o \in I : /\ signed[o] = NetOf(placed[o]) /\ sizes[o] = placed[o].quantity
                   /\ risks[o] = placed[o].quantity * StopDistance(placed[o].plan)
                   /\ sizes[o] \in Nat /\ signed[o] \in Int /\ risks[o] \in Nat
                   /\ placed[o].plan \in Proposals /\ placed[o].plan.symbol = s
                   /\ placed[o].state # "none"
  BY <1>1, RiskOfOrder DEF Recorded, Sent, In
<1>3. H = SumFunctionOnSet(signed, I)
  BY DEF Held
<1> HIDE DEF I, signed, sizes, risks, H, Q
<1>4. Q \in Nat
  <2>1. Q \in Int
    <3>1. \A o \in I : sizes[o] \in Int
      BY <1>2
    <3>2. QED
      BY <1>1, <3>1, SumType DEF Q
  <2>2. SumFunctionOnSet(sizes, {}) <= Q
    BY <1>1, <1>2, SumOfPart DEF Q
  <2>3. QED
    BY <2>1, <2>2, SumEmpty
<1>5. CASE I = {}
  <2>1. H = 0
    BY <1>3, <1>5, SumEmpty
  <2>2. SumFunctionOnSet(risks, I) = 0
    BY <1>5, SumEmpty
  <2>3. QED
    BY <2>1, <2>2 DEF PositionRisk, H, I, risks
<1>6. CASE I # {}
  <2>1. PICK i \in I : TRUE
    BY <1>6
  <2> DEFINE p == placed[i].plan
             d == StopDistance(placed[i].plan)
             sign == IF placed[i].plan.side = "BUY" THEN 1 ELSE -1
  <2>2. /\ p \in Proposals /\ p.symbol = s /\ d \in Nat /\ d = StopDistance(p)
        /\ sign \in {1, -1} /\ (sign = 1 <=> p.side = "BUY")
    <3>1. i \in PlanIds
      BY <1>1
    <3>2. d \in Nat
      BY <3>1, RiskOfOrder
    <3>3. p \in Proposals /\ p.symbol = s
      BY <1>2
    <3>4. sign \in {1, -1} /\ (sign = 1 <=> p.side = "BUY")
      OBVIOUS
    <3>5. QED
      BY <3>2, <3>3, <3>4
  <2>3. \A o \in I : signed[o] = sign * sizes[o] /\ risks[o] = d * sizes[o]
    <3>1. SUFFICES ASSUME NEW o \in I
                   PROVE  signed[o] = sign * sizes[o] /\ risks[o] = d * sizes[o]
      OBVIOUS
    <3>2. placed[o].plan.side = placed[i].plan.side /\ StopDistance(placed[o].plan) = d
      BY <1>1, <1>2, <2>2 DEF OrderedOneWay
    <3>3. risks[o] = d * sizes[o]
      <4> HIDE DEF d
      <4>1. QED
        BY <1>2, <2>2, <3>2
    <3>4. signed[o] = sign * sizes[o]
      <4>1. CASE placed[i].plan.side = "BUY"
        BY <1>2, <3>2, <4>1 DEF NetOf
      <4>2. CASE placed[i].plan.side # "BUY"
        BY <1>2, <3>2, <4>2 DEF NetOf
      <4>3. QED
        BY <4>1, <4>2
    <3>5. QED
      BY <3>3, <3>4
  <2> HIDE DEF p, d, sign
  <2>4. H = sign * Q
    <3>1. \A o \in I : sizes[o] \in Int /\ signed[o] = sign * sizes[o]
      BY <1>2, <2>3
    <3>2. sign \in Int
      BY <2>2
    <3>3. QED
      BY <1>1, <1>3, <3>1, <3>2, SumScaled DEF Q
  <2>5. SumFunctionOnSet(risks, I) = d * Q
    <3>1. \A o \in I : sizes[o] \in Int /\ risks[o] = d * sizes[o]
      BY <1>2, <2>3
    <3>2. d \in Int
      BY <2>2
    <3>3. QED
      BY <1>1, <3>1, <3>2, SumScaled DEF Q
  <2>6. CASE Q = 0
    <3>1. H = 0 /\ d * Q = 0
      BY <2>2, <2>4, <2>6
    <3>2. QED
      BY <2>5, <3>1 DEF PositionRisk, H, I, risks
  <2>7. CASE Q # 0
    <3>1. H # 0 /\ (H > 0 <=> sign = 1) /\ Distance(H, 0) = Q
      BY <1>4, <2>2, <2>4, <2>7 DEF Distance
    <3>2. PICK o \in I : LevelsOf(view, s) = placed[o].plan
      BY <3>1, LevelsAre DEF H, I
    <3>3. o \in PlanIds /\ i \in PlanIds /\ placed[i].plan.symbol = s
      BY <1>1, <1>2
    <3>4. StopDistance(LevelsOf(view, s)) = d
      BY <1>2, <3>2, <3>3 DEF OrderedOneWay, d
    <3>5. PositionRisk(view, s) = Distance(H, 0) * StopDistance(LevelsOf(view, s))
      BY <3>1 DEF PositionRisk, H
    <3>6. Q * d = d * Q
      BY <1>4, <2>2
    <3>7. SumFunctionOnSet(risks, I) = PositionRisk(view, s)
      BY <2>5, <3>1, <3>4, <3>5, <3>6
    <3>8. QED
      BY <3>7 DEF I, risks
  <2>8. QED
    BY <2>6, <2>7
<1>7. QED
  BY <1>5, <1>6

\* The open risk of a view, order by order.
LEMMA OpenRiskIs ==
  ASSUME OrderedOneWay, OrderTypes, NEW view \in [PlanIds -> PlanStates], Recorded(view),
         Sent(view)
  PROVE  OpenRisk(view) = LiveRisk(view)
<1> DEFINE risks == [o \in PlanIds |-> placed[o].quantity * StopDistance(placed[o].plan)]
           Filled == {o \in PlanIds : view[o] = "filled"}
           symbol == [o \in PlanIds |-> placed[o].plan.symbol]
           bySymbol == [s \in PlanSymbols |-> PositionRisk(view, s)]
           f == [o \in PlanIds |-> IF view[o] = "filled" THEN risks[o] ELSE 0]
           g == [o \in PlanIds |-> IF view[o] = "open" THEN risks[o] ELSE 0]
           h == Counts(view)
<1>1. Filled \in SUBSET PlanIds /\ OpenOrders(view) \in SUBSET PlanIds
      /\ IsFiniteSet(Filled) /\ IsFiniteSet(OpenOrders(view))
  BY FS_Subset DEF OpenOrders
<1>2. \A o \in PlanIds : risks[o] \in Nat
  BY RiskOfOrder
<1>3. \A o \in PlanIds : /\ f[o] \in Int /\ g[o] \in Int /\ h[o] = f[o] + g[o]
                         /\ o \in Filled => f[o] = risks[o]
                         /\ o \notin Filled => f[o] = 0
                         /\ o \in OpenOrders(view) => g[o] = risks[o]
                         /\ o \notin OpenOrders(view) => g[o] = 0
  <2>1. SUFFICES ASSUME NEW o \in PlanIds
                 PROVE  /\ f[o] \in Int /\ g[o] \in Int /\ h[o] = f[o] + g[o]
                        /\ o \in Filled => f[o] = risks[o]
                        /\ o \notin Filled => f[o] = 0
                        /\ o \in OpenOrders(view) => g[o] = risks[o]
                        /\ o \notin OpenOrders(view) => g[o] = 0
    OBVIOUS
  <2>2. h[o] = IF view[o] \in Live THEN risks[o] ELSE 0
    BY DEF Counts
  <2>3. /\ f[o] = IF view[o] = "filled" THEN risks[o] ELSE 0
        /\ g[o] = IF view[o] = "open" THEN risks[o] ELSE 0
        /\ o \in Filled <=> view[o] = "filled"
        /\ o \in OpenOrders(view) <=> view[o] = "open"
    BY DEF OpenOrders
  <2>4. risks[o] \in Nat
    BY <1>2
  <2> HIDE DEF f, g, h, risks, Filled
  <2>5. QED
    BY <2>2, <2>3, <2>4 DEF Live
<1>4. \A s \in PlanSymbols :
        bySymbol[s] = SumFunctionOnSet(risks, {o \in Filled : symbol[o] = s})
  <2>1. SUFFICES ASSUME NEW s \in PlanSymbols
                 PROVE  bySymbol[s] = SumFunctionOnSet(risks, {o \in Filled : symbol[o] = s})
    OBVIOUS
  <2>2. {o \in Filled : symbol[o] = s} = In(view, "filled", s)
    BY DEF In
  <2>3. bySymbol[s] = PositionRisk(view, s)
    OBVIOUS
  <2>4. PositionRisk(view, s) = SumFunctionOnSet(risks, In(view, "filled", s))
    BY PositionRiskIs
  <2>5. QED
    BY <2>2, <2>3, <2>4
<1>5. \A o \in Filled : symbol[o] \in PlanSymbols
  BY <1>1 DEF Recorded
<1>6. OpenRisk(view) = SumFunctionOnSet(bySymbol, PlanSymbols)
                       + SumFunctionOnSet(risks, OpenOrders(view))
  BY DEF OpenRisk
<1>7. LiveRisk(view) = SumFunctionOnSet(h, PlanIds)
  BY DEF LiveRisk
<1> HIDE DEF risks, Filled, symbol, bySymbol, f, g, h
<1>8. SumFunctionOnSet(bySymbol, PlanSymbols) = SumFunctionOnSet(risks, Filled)
  <2>1. \A o \in Filled : risks[o] \in Int
    BY <1>1, <1>2
  <2>2. Grouped(risks, Filled, symbol, PlanSymbols, bySymbol)
    BY <1>1, <1>4, <1>5, <2>1 DEF Grouped
  <2>3. QED
    BY <2>2, SumRegrouped
<1>9. SumFunctionOnSet(risks, Filled) = SumFunctionOnSet(f, PlanIds)
  <2>1. \A o \in Filled : f[o] \in Int /\ risks[o] = f[o]
    BY <1>1, <1>3
  <2>2. SumFunctionOnSet(risks, Filled) = SumFunctionOnSet(f, Filled)
    BY <1>1, <2>1, SumOfEqual
  <2>3. \A o \in PlanIds : f[o] \in Int
    BY <1>3
  <2>4. \A o \in PlanIds \ Filled : f[o] = 0
    BY <1>3
  <2>5. SumFunctionOnSet(f, Filled) = SumFunctionOnSet(f, PlanIds)
    BY <1>1, <2>3, <2>4, SumOfNonzero
  <2>6. QED
    BY <2>2, <2>5
<1>10. SumFunctionOnSet(risks, OpenOrders(view)) = SumFunctionOnSet(g, PlanIds)
  <2>1. \A o \in OpenOrders(view) : g[o] \in Int /\ risks[o] = g[o]
    BY <1>1, <1>3
  <2>2. SumFunctionOnSet(risks, OpenOrders(view)) = SumFunctionOnSet(g, OpenOrders(view))
    BY <1>1, <2>1, SumOfEqual
  <2>3. \A o \in PlanIds : g[o] \in Int
    BY <1>3
  <2>4. \A o \in PlanIds \ OpenOrders(view) : g[o] = 0
    BY <1>3
  <2>5. SumFunctionOnSet(g, OpenOrders(view)) = SumFunctionOnSet(g, PlanIds)
    BY <1>1, <2>3, <2>4, SumOfNonzero
  <2>6. QED
    BY <2>2, <2>5
<1>11. SumFunctionOnSet(h, PlanIds) = SumFunctionOnSet(f, PlanIds) + SumFunctionOnSet(g, PlanIds)
  <2>1. /\ IsFiniteSet(PlanIds)
        /\ \A o \in PlanIds : f[o] \in Int /\ g[o] \in Int /\ h[o] = f[o] + g[o]
    BY <1>3
  <2>2. QED
    BY <2>1, SumOfSums
<1>12. QED
  BY <1>6, <1>7, <1>8, <1>9, <1>10, <1>11

\* The lots of a setup lose no more at its stop than the amount at risk.
LEMMA SizeFits ==
  ASSUME NEW p \in Proposals, SetupApproved(p)
  PROVE  Size(p) \in Nat /\ Size(p) * StopDistance(p) <= RiskAmount
<1> DEFINE r == Risk(p)
           byRisk == RiskAmount \div r
           byNotional == MaxPlanNotional \div p.entry
<1>1. p.entry \in Nat \ {0} /\ p.stop \in Nat /\ p.side \in {"BUY", "SELL"}
  OBVIOUS
<1>2. r \in Nat \ {0} /\ StopDistance(p) = r
  BY <1>1 DEF SetupApproved, Risk, StopDistance, Distance
<1>3. RiskAmount \in Nat /\ MaxPlanNotional \in Nat
  OBVIOUS
<1> HIDE DEF r
<1>4. byRisk \in Nat /\ byRisk * r <= RiskAmount
  BY <1>2, <1>3, QuotientFits
<1>5. byNotional \in Nat
  <2>1. p.entry \in Nat \ {0}
    BY <1>1
  <2> DEFINE e == p.entry
  <2>2. e \in Nat \ {0}
    BY <2>1
  <2> HIDE DEF e
  <2>3. MaxPlanNotional \div e \in Nat
    BY <1>3, <2>2, QuotientFits
  <2>4. QED
    BY <2>3 DEF e
<1>6. Size(p) = IF byRisk < byNotional THEN byRisk ELSE byNotional
  BY DEF Size, r
<1> HIDE DEF byRisk, byNotional
<1>7. Size(p) \in Nat /\ Size(p) <= byRisk
  BY <1>4, <1>5, <1>6
<1>8. Size(p) * r <= byRisk * r
  BY <1>2, <1>4, <1>7
<1>9. Size(p) * r \in Nat /\ byRisk * r \in Nat
  BY <1>2, <1>4, <1>7
<1>10. QED
  BY <1>2, <1>3, <1>4, <1>7, <1>8, <1>9

LEMMA RiskType ==
  ASSUME OrderTypes, NEW view
  PROVE  LiveRisk(view) \in Int /\ \A o \in PlanIds : Counts(view)[o] \in Int
<1>1. \A o \in PlanIds : Counts(view)[o] \in Int
  BY RiskOfOrder DEF Counts
<1>2. IsFiniteSet(PlanIds)
  OBVIOUS
<1>3. QED
  BY <1>1, <1>2, SumType DEF LiveRisk

PlannerInv ==
  /\ DOMAIN planner = {"step", "plan", "order", "pnl"}
  /\ planner.step \in {"idle", "fetches", "sends"}
  /\ \E n \in Nat : /\ {o \in PlanIds : placed[o].state # "none"} = 1..n
                    /\ planner.step # "idle" => planner.order = n + 1
  /\ planner.step # "idle" => /\ planner.order \in PlanIds /\ planner.plan \in Proposals
                              /\ SetupApproved(planner.plan)

\* The process is behind the broker, but for the order that it is about to send.
ViewInv ==
  /\ Recorded(known) /\ Recorded(States) /\ Recorded(snapshot) /\ Sent(snapshot)
  /\ \A o \in PlanIds : known[o] # "none" =>
       placed[o].state # "none" \/ (planner.step = "sends" /\ planner.order = o)
  /\ \A o \in PlanIds : placed[o].state \in Live => known[o] \in Live
  /\ planner.step = "sends" =>
       /\ known[planner.order] = "open"
       /\ placed[planner.order].plan = planner.plan
       /\ placed[planner.order].quantity = Size(planner.plan)

\* What is about to be sent has its amount at risk left in the budget.
RoomInv ==
  OrderedOneWay /\ MaxRiskBudget > 0 =>
    /\ LiveRisk(States) <= MaxRiskBudget
    /\ planner.step = "sends" => LiveRisk(States) + RiskAmount <= MaxRiskBudget

BudgetInv == OrderTypes /\ PlannerInv /\ ViewInv /\ RoomInv

LEMMA BudgetInit == PlansInit => BudgetInv
<1>1. SUFFICES ASSUME PlansInit PROVE BudgetInv
  OBVIOUS
<1>2. OrderTypes
  BY <1>1 DEF PlansInit, OrderTypes, PlanStates
<1>3. PlannerInv
  <2>1. {o \in PlanIds : placed[o].state # "none"} = 1..0
    BY <1>1 DEF PlansInit
  <2>2. planner = Planning
    BY <1>1 DEF PlansInit
  <2>3. QED
    BY <2>1, <2>2 DEF PlannerInv, Planning
<1>4. ViewInv
  BY <1>1 DEF PlansInit, ViewInv, Recorded, Sent, States, Live, Planning
<1>5. RoomInv
  <2>1. \A o \in PlanIds : Counts(States)[o] = 0
    BY <1>1 DEF PlansInit, Counts, States, Live
  <2> DEFINE f == Counts(States)
  <2>2. \A o \in PlanIds : f[o] \in Int /\ f[o] = 0 * f[o]
    BY <2>1
  <2>3. IsFiniteSet(PlanIds) /\ 0 \in Int
    OBVIOUS
  <2> HIDE DEF f
  <2>4. SumFunctionOnSet(f, PlanIds) = 0 * SumFunctionOnSet(f, PlanIds)
    BY <2>2, <2>3, SumScaled
  <2>5. SumFunctionOnSet(f, PlanIds) \in Int
    BY <2>2, <2>3, SumType
  <2>6. LiveRisk(States) = 0
    BY <2>4, <2>5 DEF LiveRisk, f
  <2>7. planner.step = "idle" /\ MaxRiskBudget \in Nat
    BY <1>1 DEF PlansInit, Planning
  <2>8. QED
    BY <2>6, <2>7 DEF RoomInv
<1>6. QED
  BY <1>2, <1>3, <1>4, <1>5 DEF BudgetInv

\* What the broker does takes orders from open to filled and closed.
LEMMA BrokerKeeps ==
  ASSUME BudgetInv, UNCHANGED <<known, planner>>,
         snapshot' \in [PlanIds -> PlanStates],
         \A o \in PlanIds : snapshot'[o] # "none" =>
           snapshot[o] # "none" \/ placed[o].state # "none",
         placed' \in [PlanIds -> [plan : Proposals \cup {NoPlan}, quantity : Nat,
                                  state : PlanStates]],
         \A o \in PlanIds : /\ placed'[o].plan = placed[o].plan
                            /\ placed'[o].quantity = placed[o].quantity
                            /\ placed'[o].state = "none" <=> placed[o].state = "none"
                            /\ placed'[o].state \in Live => placed[o].state \in Live
  PROVE  BudgetInv'
<1>1. OrderTypes'
  BY DEF BudgetInv, OrderTypes
<1>2. PlannerInv'
  <2>1. {o \in PlanIds : placed'[o].state # "none"} = {o \in PlanIds : placed[o].state # "none"}
    OBVIOUS
  <2>2. QED
    BY <2>1 DEF BudgetInv, PlannerInv
<1>3. ViewInv'
  <2>1. Recorded(known)' /\ Recorded(States)' /\ Recorded(snapshot)' /\ Sent(snapshot)'
    BY DEF BudgetInv, ViewInv, Recorded, Sent, States
  <2>2. \A o \in PlanIds :
          /\ placed'[o].state \in Live => known'[o] \in Live
          /\ known'[o] # "none" =>
               placed'[o].state # "none" \/ (planner'.step = "sends" /\ planner'.order = o)
    BY DEF BudgetInv, ViewInv
  <2>3. planner'.step = "sends" =>
          /\ known'[planner'.order] = "open"
          /\ placed'[planner'.order].plan = planner'.plan
          /\ placed'[planner'.order].quantity = Size(planner'.plan)
    BY DEF BudgetInv, ViewInv, PlannerInv
  <2>4. QED
    BY <2>1, <2>2, <2>3 DEF ViewInv
<1>4. RoomInv'
  <2> DEFINE f == Counts(States)
             g == Counts(States)'
  <2>1. \A o \in PlanIds : f[o] \in Int /\ g[o] \in Int /\ g[o] <= f[o]
    <3>1. SUFFICES ASSUME NEW o \in PlanIds
                   PROVE  f[o] \in Int /\ g[o] \in Int /\ g[o] <= f[o]
      OBVIOUS
    <3> DEFINE w == placed[o].quantity * StopDistance(placed[o].plan)
    <3>2. w \in Nat
      BY RiskOfOrder DEF BudgetInv
    <3>3. f[o] = IF placed[o].state \in Live THEN w ELSE 0
      BY DEF Counts, States
    <3>4. g[o] = IF placed'[o].state \in Live THEN w ELSE 0
      BY DEF Counts, States
    <3>5. placed'[o].state \in Live => placed[o].state \in Live
      OBVIOUS
    <3> HIDE DEF f, g, w
    <3>6. QED
      BY <3>2, <3>3, <3>4, <3>5
  <2>2. LiveRisk(States) = SumFunctionOnSet(f, PlanIds)
        /\ LiveRisk(States)' = SumFunctionOnSet(g, PlanIds)
    BY DEF LiveRisk
  <2>3. IsFiniteSet(PlanIds) /\ MaxRiskBudget \in Int /\ RiskAmount \in Int
    OBVIOUS
  <2> HIDE DEF f, g
  <2>4. \A o \in PlanIds : g[o] \in Int /\ f[o] \in Int /\ g[o] <= f[o]
    BY <2>1
  <2>5. SumFunctionOnSet(g, PlanIds) <= SumFunctionOnSet(f, PlanIds)
    BY <2>3, <2>4, SumGrows
  <2>6. SumFunctionOnSet(g, PlanIds) \in Int /\ SumFunctionOnSet(f, PlanIds) \in Int
    BY <2>1, <2>3, SumType
  <2>7. OrderedOneWay' => OrderedOneWay
    BY DEF OrderedOneWay, StopDistance, Distance
  <2>8. OrderedOneWay' /\ MaxRiskBudget > 0 =>
          /\ LiveRisk(States)' <= MaxRiskBudget
          /\ planner'.step = "sends" => LiveRisk(States)' + RiskAmount <= MaxRiskBudget
    BY <2>2, <2>3, <2>5, <2>6, <2>7 DEF BudgetInv, RoomInv
  <2>9. QED
    BY <2>8 DEF RoomInv
<1>5. QED
  BY <1>1, <1>2, <1>3, <1>4 DEF BudgetInv

LEMMA ProposeKeeps ==
  ASSUME BudgetInv, NEW p \in Proposals, NEW drift \in BOOLEAN, NEW stale \in BOOLEAN,
         Propose(p, drift, stale)
  PROVE  BudgetInv'
<1>1. UNCHANGED <<placed, known, snapshot>> /\ planner.step = "idle" /\ NextPlan \in PlanIds
  BY DEF Propose
<1>2. \/ planner' = planner
      \/ /\ planner' = [step |-> "fetches", plan |-> p, order |-> NextPlan, pnl |-> dayPnl]
         /\ SetupApproved(p)
  BY DEF Propose
<1>3. PICK n \in Nat : {o \in PlanIds : placed[o].state # "none"} = 1..n
  BY DEF BudgetInv, PlannerInv
<1>4. NextPlan = n + 1
  <2>1. Cardinality(1..n) = n
    BY FS_Interval
  <2>2. QED
    BY <1>3, <2>1 DEF NextPlan
<1>5. OrderTypes'
  BY <1>1 DEF BudgetInv, OrderTypes
<1>6. PlannerInv'
  <2>1. CASE planner' = planner
    BY <1>1, <2>1 DEF BudgetInv, PlannerInv
  <2>2. CASE planner' # planner
    <3>1. /\ DOMAIN planner' = {"step", "plan", "order", "pnl"}
          /\ planner'.step = "fetches" /\ planner'.plan = p /\ planner'.order = n + 1
          /\ SetupApproved(p)
      BY <1>2, <1>4, <2>2
    <3>2. {o \in PlanIds : placed'[o].state # "none"} = 1..n
      BY <1>1, <1>3
    <3>3. planner'.order \in PlanIds /\ planner'.plan \in Proposals
      BY <1>1, <1>4, <3>1
    <3>4. SetupApproved(planner'.plan)
      BY <3>1
    <3>5. SetupApproved(planner.plan)'
      BY <3>4 DEF SetupApproved, Risk, Reward, Size
    <3>6. QED
      BY <3>1, <3>2, <3>3, <3>5 DEF PlannerInv
  <2>3. QED
    BY <2>1, <2>2
<1>7. planner'.step # "sends"
  BY <1>1, <1>2
<1>8. ViewInv'
  BY <1>1, <1>7 DEF BudgetInv, ViewInv, Recorded, Sent, States
<1>9. RoomInv'
  <2>1. LiveRisk(States)' = LiveRisk(States)
    BY <1>1 DEF LiveRisk, Counts, States
  <2>2. OrderedOneWay' <=> OrderedOneWay
    BY <1>1 DEF OrderedOneWay
  <2>3. QED
    BY <1>7, <2>1, <2>2 DEF BudgetInv, RoomInv
<1>10. QED
  BY <1>5, <1>6, <1>8, <1>9 DEF BudgetInv

\* Where no symbol is ordered two ways, views that agree on positions and open orders
\* have the same risk.
LEMMA CleanRisk ==
  ASSUME OrderedOneWay, OrderTypes, Recorded(snapshot), Recorded(known), Sent(snapshot),
         Sent(known), Clean(snapshot)
  PROVE  OpenRisk(snapshot) = OpenRisk(known)
<1>1. \A s \in PlanSymbols : Held(snapshot, s) = Held(known, s)
  BY DEF Clean
<1>2. ASSUME NEW s \in PlanSymbols
      PROVE  PositionRisk(snapshot, s) = PositionRisk(known, s)
  <2>1. CASE Held(snapshot, s) = 0
    BY <1>1, <2>1 DEF PositionRisk
  <2>2. CASE Held(snapshot, s) # 0
    <3>1. PICK o \in In(snapshot, "filled", s) : LevelsOf(snapshot, s) = placed[o].plan
      BY <2>2, LevelsAre DEF OrderTypes
    <3>2. PICK q \in In(known, "filled", s) : LevelsOf(known, s) = placed[q].plan
      BY <1>1, <2>2, LevelsAre DEF OrderTypes
    <3>3. StopDistance(placed[o].plan) = StopDistance(placed[q].plan)
      BY <3>1, <3>2 DEF OrderedOneWay, In, Sent
    <3>4. QED
      BY <1>1, <3>1, <3>2, <3>3 DEF PositionRisk
  <2>3. QED
    BY <2>1, <2>2
<1>3. [s \in PlanSymbols |-> PositionRisk(snapshot, s)]
        = [s \in PlanSymbols |-> PositionRisk(known, s)]
  BY <1>2
<1>4. OpenOrders(snapshot) = OpenOrders(known)
  BY DEF Clean
<1>5. QED
  BY <1>3, <1>4 DEF OpenRisk

\* The process counts at least what the broker may lose.
LEMMA KnownRisk ==
  ASSUME BudgetInv PROVE LiveRisk(States) <= LiveRisk(known)
<1> DEFINE f == Counts(States)
           g == Counts(known)
<1>1. \A o \in PlanIds : f[o] \in Int /\ g[o] \in Int /\ f[o] <= g[o]
  <2>1. SUFFICES ASSUME NEW o \in PlanIds PROVE f[o] \in Int /\ g[o] \in Int /\ f[o] <= g[o]
    OBVIOUS
  <2> DEFINE w == placed[o].quantity * StopDistance(placed[o].plan)
  <2>2. w \in Nat
    BY RiskOfOrder DEF BudgetInv
  <2>3. f[o] = IF placed[o].state \in Live THEN w ELSE 0
    BY DEF Counts, States
  <2>4. g[o] = IF known[o] \in Live THEN w ELSE 0
    BY DEF Counts
  <2>5. placed[o].state \in Live => known[o] \in Live
    BY DEF BudgetInv, ViewInv
  <2> HIDE DEF f, g, w
  <2>6. QED
    BY <2>2, <2>3, <2>4, <2>5
<1>2. IsFiniteSet(PlanIds)
  OBVIOUS
<1> HIDE DEF f, g
<1>3. SumFunctionOnSet(f, PlanIds) <= SumFunctionOnSet(g, PlanIds)
  BY <1>1, <1>2, SumGrows
<1>4. QED
  BY <1>3 DEF LiveRisk, f, g

LEMMA DecideKeeps ==
  ASSUME BudgetInv, NEW usable \in BOOLEAN, Decide(usable)
  PROVE  BudgetInv'
<1> DEFINE p == planner.plan
           o == planner.order
<1>1. /\ planner.step = "fetches" /\ snapshot' = snapshot
      /\ o \in PlanIds /\ p \in Proposals /\ SetupApproved(p)
  BY DEF Decide, BudgetInv, PlannerInv
<1>2. PICK n \in Nat : {x \in PlanIds : placed[x].state # "none"} = 1..n /\ o = n + 1
  BY <1>1 DEF BudgetInv, PlannerInv
<1>3. placed[o].state = "none"
  <2>1. o \notin 1..n
    BY <1>2
  <2>2. QED
    BY <1>1, <1>2, <2>1
<1>4. CASE /\ Clean(snapshot) /\ WithinLosses(snapshot)
           /\ known' = [known EXCEPT ![o] = "open"]
           /\ placed' = [placed EXCEPT ![o].plan = p, ![o].quantity = Size(p)]
           /\ planner' = [planner EXCEPT !.step = "sends"]
  <2>1. Size(p) \in Nat
    BY <1>1, SizeFits
  <2>2. /\ DOMAIN planner' = {"step", "plan", "order", "pnl"}
        /\ planner'.step = "sends" /\ planner'.plan = p /\ planner'.order = o
    BY <1>4 DEF BudgetInv, PlannerInv
  <2>3. OrderTypes'
    <3>1. placed[o] \in [plan : Proposals \cup {NoPlan}, quantity : Nat, state : PlanStates]
      BY <1>1 DEF BudgetInv, OrderTypes
    <3>2. placed' \in [PlanIds -> [plan : Proposals \cup {NoPlan}, quantity : Nat,
                                   state : PlanStates]]
      <4> HIDE DEF o, p
      <4>1. QED
        BY <1>1, <1>4, <2>1, <3>1 DEF BudgetInv, OrderTypes
    <3>3. known' \in [PlanIds -> PlanStates]
      <4> HIDE DEF o, p
      <4>1. QED
        BY <1>1, <1>4 DEF BudgetInv, OrderTypes, PlanStates
    <3>4. QED
      BY <1>1, <3>2, <3>3 DEF BudgetInv, OrderTypes
  <2>4. /\ placed'[o].plan = p /\ placed'[o].quantity = Size(p) /\ placed'[o].state = "none"
        /\ \A x \in PlanIds \ {o} : placed'[x] = placed[x] /\ known'[x] = known[x]
        /\ known'[o] = "open"
    <3>1. placed[o] \in [plan : Proposals \cup {NoPlan}, quantity : Nat, state : PlanStates]
      BY <1>1 DEF BudgetInv, OrderTypes
    <3> HIDE DEF o, p
    <3>2. QED
      BY <1>1, <1>3, <1>4, <3>1 DEF BudgetInv, OrderTypes
  <2>5. \A x \in PlanIds : placed'[x].state = placed[x].state
    BY <1>3, <2>4
  <2>6. PlannerInv'
    <3>1. {x \in PlanIds : placed'[x].state # "none"} = 1..n
      BY <1>2, <2>5
    <3>2. planner'.order = n + 1
      BY <1>2, <2>2
    <3>3. SetupApproved(planner.plan)'
      BY <1>1, <2>2 DEF SetupApproved, Risk, Reward, Size
    <3>4. planner'.order \in PlanIds /\ planner'.plan \in Proposals
      BY <1>1, <2>2
    <3>5. QED
      BY <2>2, <3>1, <3>2, <3>3, <3>4 DEF PlannerInv
  <2>7. ViewInv'
    <3>1. Recorded(known)' /\ Recorded(States)' /\ Recorded(snapshot)' /\ Sent(snapshot)'
      BY <1>1, <2>4, <2>5 DEF BudgetInv, ViewInv, Recorded, Sent, States
    <3>2. \A x \in PlanIds :
            /\ placed'[x].state \in Live => known'[x] \in Live
            /\ known'[x] # "none" =>
                 placed'[x].state # "none" \/ (planner'.step = "sends" /\ planner'.order = x)
      BY <1>1, <1>3, <2>2, <2>4, <2>5 DEF BudgetInv, ViewInv, Live
    <3>3. (planner.step = "sends" =>
             /\ known[planner.order] = "open"
             /\ placed[planner.order].plan = planner.plan
             /\ placed[planner.order].quantity = Size(planner.plan))'
      <4>1. Size(planner.plan)' = Size(p)
        BY <2>2 DEF Size, Risk
      <4>2. QED
        BY <2>2, <2>4, <4>1
    <3>4. QED
      BY <3>1, <3>2, <3>3 DEF ViewInv
  <2>8. RoomInv'
    <3>1. Counts(States)' = Counts(States)
      <4>1. \A x \in PlanIds : /\ placed[x].state \in Live => placed'[x] = placed[x]
                               /\ placed'[x].state = placed[x].state
        BY <1>3, <2>4, <2>5 DEF Live
      <4>2. \A x \in PlanIds :
              (IF placed'[x].state \in Live
               THEN placed'[x].quantity * StopDistance(placed'[x].plan) ELSE 0)
              = (IF placed[x].state \in Live
                 THEN placed[x].quantity * StopDistance(placed[x].plan) ELSE 0)
        BY <4>1
      <4>3. QED
        BY <4>2 DEF Counts, States, StopDistance, Distance
    <3>2. LiveRisk(States)' = LiveRisk(States)
      BY <3>1 DEF LiveRisk
    <3>3. MaxRiskBudget > 0 => OpenRisk(snapshot) + RiskAmount <= MaxRiskBudget
      BY <1>4 DEF WithinLosses
    <3>4. OrderedOneWay => OpenRisk(snapshot) = LiveRisk(known)
      <4>1. Recorded(snapshot) /\ Recorded(known) /\ Sent(snapshot) /\ Sent(known)
        BY <1>1 DEF BudgetInv, ViewInv, Sent
      <4>2. known \in [PlanIds -> PlanStates]
        BY DEF BudgetInv, OrderTypes
      <4>3. QED
        BY <1>4, <4>1, <4>2, CleanRisk, OpenRiskIs DEF BudgetInv
    <3>5. LiveRisk(States) <= LiveRisk(known) /\ LiveRisk(States) \in Int
          /\ LiveRisk(known) \in Int
      BY KnownRisk, RiskType DEF BudgetInv
    <3>6. RiskAmount \in Nat /\ MaxRiskBudget \in Nat
      OBVIOUS
    <3>7. OrderedOneWay' => OrderedOneWay
      <4>1. \A x \in PlanIds : placed'[x].state # "none" => placed'[x] = placed[x]
        BY <2>4
      <4>2. QED
        BY <2>5, <4>1 DEF OrderedOneWay, StopDistance, Distance
    <3>8. OrderedOneWay' /\ MaxRiskBudget > 0 =>
            LiveRisk(States)' <= MaxRiskBudget /\ LiveRisk(States)' + RiskAmount <= MaxRiskBudget
      BY <3>2, <3>3, <3>4, <3>5, <3>6, <3>7
    <3>9. QED
      BY <3>8 DEF RoomInv
  <2>9. QED
    BY <2>3, <2>6, <2>7, <2>8 DEF BudgetInv
<1>5. CASE planner' = Planning /\ UNCHANGED <<known, placed>>
  <2>1. OrderTypes'
    BY <1>1, <1>5 DEF BudgetInv, OrderTypes
  <2>2. PlannerInv'
    <3>1. {x \in PlanIds : placed'[x].state # "none"} = 1..n
      BY <1>2, <1>5
    <3>2. QED
      BY <1>5, <3>1 DEF PlannerInv, Planning
  <2>3. ViewInv'
    BY <1>1, <1>5 DEF BudgetInv, ViewInv, Recorded, Sent, States, Planning
  <2>4. RoomInv'
    <3>1. LiveRisk(States)' = LiveRisk(States)
      BY <1>5 DEF LiveRisk, Counts, States
    <3>2. OrderedOneWay' <=> OrderedOneWay
      BY <1>5 DEF OrderedOneWay
    <3>3. QED
      BY <1>5, <3>1, <3>2 DEF BudgetInv, RoomInv, Planning
  <2>5. QED
    BY <2>1, <2>2, <2>3, <2>4 DEF BudgetInv
<1>6. QED
  BY <1>4, <1>5 DEF Decide

LEMMA SendPlanKeeps ==
  ASSUME BudgetInv, SendPlan PROVE BudgetInv'
<1> DEFINE p == planner.plan
           o == planner.order
<1>1. /\ planner.step = "sends" /\ UNCHANGED <<known, snapshot>> /\ planner' = Planning
      /\ placed' = [placed EXCEPT ![o].state = "open"]
      /\ o \in PlanIds /\ p \in Proposals /\ SetupApproved(p)
      /\ known[o] = "open" /\ placed[o].plan = p /\ placed[o].quantity = Size(p)
  BY DEF SendPlan, BudgetInv, PlannerInv, ViewInv
<1>2. PICK n \in Nat : {x \in PlanIds : placed[x].state # "none"} = 1..n /\ o = n + 1
  BY <1>1 DEF BudgetInv, PlannerInv
<1>3. placed[o].state = "none"
  <2>1. o \notin 1..n
    BY <1>2
  <2>2. QED
    BY <1>1, <1>2, <2>1
<1>4. placed[o] \in [plan : Proposals \cup {NoPlan}, quantity : Nat, state : PlanStates]
  BY <1>1 DEF BudgetInv, OrderTypes
<1>5. Size(p) * StopDistance(p) <= RiskAmount /\ Size(p) \in Nat
  BY <1>1, SizeFits
<1> HIDE DEF o, p
<1>6. /\ placed'[o].state = "open" /\ placed'[o].plan = p /\ placed'[o].quantity = Size(p)
      /\ \A x \in PlanIds \ {o} : placed'[x] = placed[x]
  BY <1>1, <1>4 DEF BudgetInv, OrderTypes
<1>7. OrderTypes'
  <2>1. placed' \in [PlanIds -> [plan : Proposals \cup {NoPlan}, quantity : Nat,
                                 state : PlanStates]]
    BY <1>1, <1>4 DEF BudgetInv, OrderTypes, PlanStates
  <2>2. QED
    BY <1>1, <2>1 DEF BudgetInv, OrderTypes
<1>8. PlannerInv'
  <2>1. {x \in PlanIds : placed'[x].state # "none"} = 1..(n + 1)
    <3>1. {x \in PlanIds : placed'[x].state # "none"}
            = {x \in PlanIds : placed[x].state # "none"} \cup {o}
      BY <1>1, <1>6
    <3>2. (1..n) \cup {n + 1} = 1..(n + 1)
      OBVIOUS
    <3>3. QED
      BY <1>2, <3>1, <3>2
  <2>2. n + 1 \in Nat
    OBVIOUS
  <2>3. /\ DOMAIN planner' = {"step", "plan", "order", "pnl"} /\ planner'.step = "idle"
    BY <1>1 DEF Planning
  <2>4. QED
    BY <2>1, <2>2, <2>3 DEF PlannerInv
<1>9. ViewInv'
  <2>1. planner'.step = "idle"
    BY <1>1 DEF Planning
  <2>2. Recorded(known)' /\ Recorded(snapshot)' /\ Sent(snapshot)'
    BY <1>1, <1>6 DEF BudgetInv, ViewInv, Recorded, Sent
  <2>3. Recorded(States)'
    BY <1>1, <1>6 DEF BudgetInv, ViewInv, Recorded, States
  <2>4. \A x \in PlanIds : /\ placed'[x].state \in Live => known'[x] \in Live
                           /\ known'[x] # "none" => placed'[x].state # "none"
    BY <1>1, <1>6 DEF BudgetInv, ViewInv, Live, o
  <2>5. QED
    BY <2>1, <2>2, <2>3, <2>4 DEF ViewInv
<1>10. RoomInv'
  <2> DEFINE f == Counts(States)
             g == Counts(States)'
             w == Size(p) * StopDistance(p)
  <2>1. /\ \A x \in PlanIds : f[x] \in Int /\ g[x] \in Int
        /\ \A x \in PlanIds \ {o} : g[x] = f[x]
        /\ f[o] = 0 /\ g[o] = w /\ w \in Int
    <3>1. \A x \in PlanIds : f[x] \in Int
      BY RiskType DEF BudgetInv
    <3>2. \A x \in PlanIds \ {o} : g[x] = f[x]
      BY <1>6 DEF Counts, States
    <3>3. f[o] = 0
      BY <1>1, <1>3 DEF Counts, States, Live
    <3>4. g[o] = w
      BY <1>1, <1>6 DEF Counts, States, Live
    <3>5. w \in Int
      <4>1. placed[o].quantity * StopDistance(placed[o].plan) \in Nat
        BY <1>1, RiskOfOrder DEF BudgetInv
      <4>2. QED
        BY <1>1, <4>1
    <3> HIDE DEF f, g, w
    <3>6. \A x \in PlanIds : g[x] \in Int
      BY <3>1, <3>2, <3>4, <3>5
    <3>7. QED
      BY <3>1, <3>2, <3>3, <3>4, <3>5, <3>6
  <2>2. LiveRisk(States) = SumFunctionOnSet(f, PlanIds)
        /\ LiveRisk(States)' = SumFunctionOnSet(g, PlanIds)
    BY DEF LiveRisk
  <2>3. IsFiniteSet(PlanIds) /\ MaxRiskBudget \in Int /\ RiskAmount \in Int
    OBVIOUS
  <2>4. w <= RiskAmount
    BY <1>5
  <2> HIDE DEF f, g, w
  <2>5. SumFunctionOnSet(g, PlanIds) = SumFunctionOnSet(f, PlanIds) - f[o] + g[o]
    <3>1. \A x \in PlanIds : f[x] \in Int /\ g[x] \in Int
      BY <2>1
    <3>2. \A x \in PlanIds \ {o} : g[x] = f[x]
      BY <2>1
    <3>3. IsFiniteSet(PlanIds) /\ o \in PlanIds
      BY <1>1
    <3>4. QED
      <4> HIDE PreTradeAssumption
      <4>1. QED
        BY <3>1, <3>2, <3>3, SumChanges
  <2>6. SumFunctionOnSet(f, PlanIds) \in Int
    BY <2>1, <2>3, SumType
  <2>7. OrderedOneWay' /\ MaxRiskBudget > 0 => LiveRisk(States) + RiskAmount <= MaxRiskBudget
    <3>1. OrderedOneWay' => OrderedOneWay
      <4>1. \A x \in PlanIds : placed[x].state # "none" => placed'[x] = placed[x]
        BY <1>3, <1>6
      <4>2. QED
        BY <4>1 DEF OrderedOneWay, StopDistance, Distance
    <3>2. QED
      BY <1>1, <3>1 DEF BudgetInv, RoomInv
  <2>8. OrderedOneWay' /\ MaxRiskBudget > 0 => LiveRisk(States)' <= MaxRiskBudget
    BY <2>1, <2>2, <2>3, <2>4, <2>5, <2>6, <2>7
  <2>9. QED
    BY <1>1, <2>8 DEF RoomInv, Planning
<1>11. QED
  BY <1>7, <1>8, <1>9, <1>10 DEF BudgetInv

LEMMA LearnKeeps ==
  ASSUME BudgetInv, NEW o \in PlanIds, Learn(o) PROVE BudgetInv'
<1>1. /\ placed[o].state # "none" /\ known' = [known EXCEPT ![o] = placed[o].state]
      /\ UNCHANGED <<placed, snapshot, planner>>
  BY DEF Learn
<1>2. placed[o].state \in PlanStates
  BY DEF BudgetInv, OrderTypes
<1>3. /\ known'[o] = placed[o].state /\ \A x \in PlanIds \ {o} : known'[x] = known[x]
      /\ known' \in [PlanIds -> PlanStates]
  BY <1>1, <1>2 DEF BudgetInv, OrderTypes
<1>4. OrderTypes' /\ PlannerInv'
  BY <1>1, <1>3 DEF BudgetInv, OrderTypes, PlannerInv
<1>5. ViewInv'
  <2>1. Recorded(known)' /\ Recorded(States)' /\ Recorded(snapshot)' /\ Sent(snapshot)'
    BY <1>1, <1>3 DEF BudgetInv, ViewInv, Recorded, Sent, States
  <2>2. \A x \in PlanIds :
          /\ placed'[x].state \in Live => known'[x] \in Live
          /\ known'[x] # "none" =>
               placed'[x].state # "none" \/ (planner'.step = "sends" /\ planner'.order = x)
    BY <1>1, <1>3 DEF BudgetInv, ViewInv
  <2>3. planner.step = "sends" => planner.order # o
    <3>1. SUFFICES ASSUME planner.step = "sends" PROVE planner.order # o
      OBVIOUS
    <3>2. PICK n \in Nat : /\ {x \in PlanIds : placed[x].state # "none"} = 1..n
                           /\ planner.order = n + 1
      BY <3>1 DEF BudgetInv, PlannerInv
    <3>3. o \in 1..n
      BY <1>1, <3>2
    <3>4. QED
      BY <3>2, <3>3
  <2>4. planner.step = "sends" =>
          /\ known'[planner.order] = "open"
          /\ placed'[planner.order].plan = planner.plan
          /\ placed'[planner.order].quantity = Size(planner.plan)
    BY <1>1, <1>3, <2>3 DEF BudgetInv, ViewInv, PlannerInv
  <2>5. QED
    BY <1>1, <2>1, <2>2, <2>4 DEF ViewInv
<1>6. RoomInv'
  <2>1. LiveRisk(States)' = LiveRisk(States)
    BY <1>1 DEF LiveRisk, Counts, States
  <2>2. OrderedOneWay' <=> OrderedOneWay
    BY <1>1 DEF OrderedOneWay
  <2>3. QED
    BY <1>1, <2>1, <2>2 DEF BudgetInv, RoomInv
<1>7. QED
  BY <1>4, <1>5, <1>6 DEF BudgetInv

LEMMA MovesKeeps ==
  ASSUME BudgetInv, NEW o \in PlanIds, NEW state \in {"filled", "closed"}, Moves(o, state)
  PROVE  BudgetInv'
<1>1. /\ placed[o].state = "open" /\ placed' = [placed EXCEPT ![o].state = state]
      /\ UNCHANGED <<known, snapshot, planner>>
  BY DEF Moves
<1>2. placed[o] \in [plan : Proposals \cup {NoPlan}, quantity : Nat, state : PlanStates]
  BY DEF BudgetInv, OrderTypes
<1>3. placed' \in [PlanIds -> [plan : Proposals \cup {NoPlan}, quantity : Nat,
                               state : PlanStates]]
  BY <1>1, <1>2 DEF BudgetInv, OrderTypes, PlanStates
<1>4. /\ placed'[o].plan = placed[o].plan /\ placed'[o].quantity = placed[o].quantity
      /\ placed'[o].state = state
      /\ \A x \in PlanIds \ {o} : placed'[x] = placed[x]
  BY <1>1, <1>2 DEF BudgetInv, OrderTypes
<1>5. \A x \in PlanIds : /\ placed'[x].plan = placed[x].plan
                         /\ placed'[x].quantity = placed[x].quantity
                         /\ placed'[x].state = "none" <=> placed[x].state = "none"
                         /\ placed'[x].state \in Live => placed[x].state \in Live
  BY <1>1, <1>4 DEF Live
<1>6. snapshot' \in [PlanIds -> PlanStates]
  BY <1>1 DEF BudgetInv, OrderTypes
<1>7. QED
  BY <1>1, <1>3, <1>5, <1>6, BrokerKeeps

LEMMA ExitKeeps ==
  ASSUME BudgetInv, NEW s \in PlanSymbols, Exit(s) PROVE BudgetInv'
<1> DEFINE exited == In(States, "filled", s)
<1>1. /\ placed' = [o \in PlanIds |-> IF o \in exited
                                      THEN [placed[o] EXCEPT !.state = "closed"]
                                      ELSE placed[o]]
      /\ UNCHANGED <<known, snapshot, planner>>
  BY DEF Exit, States
<1>2. \A o \in exited : placed[o].state = "filled"
  BY DEF In, States
<1> HIDE DEF exited
<1>3. \A o \in PlanIds :
        placed[o] \in [plan : Proposals \cup {NoPlan}, quantity : Nat, state : PlanStates]
  BY DEF BudgetInv, OrderTypes
<1>4. \A x \in PlanIds : /\ placed'[x].plan = placed[x].plan
                         /\ placed'[x].quantity = placed[x].quantity
                         /\ placed'[x].state = "none" <=> placed[x].state = "none"
                         /\ placed'[x].state \in Live => placed[x].state \in Live
                         /\ placed'[x] \in [plan : Proposals \cup {NoPlan}, quantity : Nat,
                                            state : PlanStates]
  <2>1. SUFFICES ASSUME NEW x \in PlanIds
                 PROVE  /\ placed'[x].plan = placed[x].plan
                        /\ placed'[x].quantity = placed[x].quantity
                        /\ placed'[x].state = "none" <=> placed[x].state = "none"
                        /\ placed'[x].state \in Live => placed[x].state \in Live
                        /\ placed'[x] \in [plan : Proposals \cup {NoPlan}, quantity : Nat,
                                           state : PlanStates]
    OBVIOUS
  <2>2. CASE x \in exited
    <3>1. placed'[x] = [placed[x] EXCEPT !.state = "closed"]
      BY <1>1, <2>2
    <3>2. QED
      BY <1>2, <1>3, <2>2, <3>1 DEF Live, PlanStates
  <2>3. CASE x \notin exited
    BY <1>1, <1>3, <2>3
  <2>4. QED
    BY <2>2, <2>3
<1>5. placed' \in [PlanIds -> [plan : Proposals \cup {NoPlan}, quantity : Nat,
                               state : PlanStates]]
  <2>1. placed' = [o \in PlanIds |-> placed'[o]]
    BY <1>1
  <2>2. QED
    BY <1>4, <2>1
<1>6. snapshot' \in [PlanIds -> PlanStates]
  BY <1>1 DEF BudgetInv, OrderTypes
<1>7. QED
  BY <1>1, <1>4, <1>5, <1>6, BrokerKeeps

LEMMA PlansStep ==
  ASSUME BudgetInv, [PlansNext]_planVars
  PROVE  BudgetInv'
<1>1. ASSUME NEW p \in Proposals, NEW drift \in BOOLEAN, NEW stale \in BOOLEAN,
             Propose(p, drift, stale)
      PROVE  BudgetInv'
  BY <1>1, ProposeKeeps
<1>2. ASSUME NEW usable \in BOOLEAN, Decide(usable) PROVE BudgetInv'
  BY <1>2, DecideKeeps
<1>3. CASE SendPlan
  BY <1>3, SendPlanKeeps
<1>4. CASE ResetBreaker \/ TakeSnapshot \/ UNCHANGED planVars
  <2>1. UNCHANGED <<placed, known, planner>>
    BY <1>4 DEF ResetBreaker, TakeSnapshot, planVars
  <2>2. snapshot' \in [PlanIds -> PlanStates]
    BY <1>4 DEF ResetBreaker, TakeSnapshot, planVars, BudgetInv, OrderTypes
  <2>3. placed' \in [PlanIds -> [plan : Proposals \cup {NoPlan}, quantity : Nat,
                                 state : PlanStates]]
    BY <2>1 DEF BudgetInv, OrderTypes
  <2>4. \A o \in PlanIds : snapshot'[o] # "none" =>
          snapshot[o] # "none" \/ placed[o].state # "none"
    BY <1>4 DEF ResetBreaker, TakeSnapshot, planVars
  <2>5. QED
    BY <2>1, <2>2, <2>3, <2>4, BrokerKeeps
<1>5. ASSUME NEW o \in PlanIds, Learn(o) PROVE BudgetInv'
  BY <1>5, LearnKeeps
<1>6. ASSUME NEW o \in PlanIds, NEW state \in {"filled", "closed"}, Moves(o, state)
      PROVE  BudgetInv'
  BY <1>6, MovesKeeps
<1>7. ASSUME NEW s \in PlanSymbols, Exit(s) PROVE BudgetInv'
  BY <1>7, ExitKeeps
<1>8. QED
  BY <1>1, <1>2, <1>3, <1>4, <1>5, <1>6, <1>7 DEF PlansNext

\* As long as no symbol has been ordered on both sides or at two distances to its stop,
\* and where there is a budget, what can be lost at the stops of all the broker holds or
\* may still fill never passes it, whatever is proposed, however old the snapshot and
\* however far behind the process is
\* (PreTradeOrchestrator.authorize_decision, TradingStateReconciliationGuard.evaluate).
THEOREM BudgetCorrect == PlansSpec => []OpenRiskWithinBudget
<1>1. BudgetInv => OpenRiskWithinBudget
  <2>1. SUFFICES ASSUME BudgetInv PROVE OpenRiskWithinBudget
    OBVIOUS
  <2>2. States \in [PlanIds -> PlanStates]
    BY <2>1 DEF States, BudgetInv, OrderTypes
  <2>3. OrderedOneWay => OpenRisk(States) = LiveRisk(States)
    BY <2>1, <2>2, OpenRiskIs DEF BudgetInv, ViewInv, Sent, States
  <2>4. QED
    BY <2>1, <2>3 DEF BudgetInv, RoomInv, OpenRiskWithinBudget, States
<1>2. BudgetInv /\ [PlansNext]_planVars => BudgetInv'
  BY PlansStep
<1>3. QED
  BY <1>1, <1>2, BudgetInit, PTL DEF PlansSpec

OrderRow == [plan : Proposals \cup {NoPlan}, quantity : Nat, state : PlanStates]

\* What the planner works on was proposed, and what it is about to send is recorded.
PlansTypes ==
  /\ OrderTypes /\ Recorded(States)
  /\ planner \in [step : {"idle", "fetches", "sends"}, plan : Proposals \cup {NoPlan},
                  order : PlanIds \cup {0}, pnl : Int]
  /\ planner.step = "fetches" =>
       planner.plan \in Proposals /\ planner.order \in PlanIds /\ SetupApproved(planner.plan)
  /\ planner.step = "sends" =>
       planner.order \in PlanIds /\ placed[planner.order].plan \in Proposals
  /\ dayPnl \in Int /\ breaker \in BOOLEAN

\* A position that is open was opened by a setup.
LEMMA LevelsExist ==
  ASSUME PlansTypes, NEW s \in PlanSymbols
  PROVE  /\ Held(States, s) \in Int /\ PositionRisk(States, s) \in Int
         /\ Held(States, s) # 0 => LevelsOf(States, s) \in Proposals
<1> DEFINE q == Held(States, s)
           levels == LevelsOf(States, s)
<1>1. States \in [PlanIds -> PlanStates]
  BY DEF States, PlansTypes, OrderTypes
<1>2. \A o \in In(States, "filled", s) : placed[o].plan \in Proposals
  BY DEF In, PlansTypes, Recorded
<1>3. q \in Int /\ (q # 0 => levels \in Proposals)
  BY <1>1, <1>2, LevelsAre DEF PlansTypes
<1>4. PositionRisk(States, s) = IF q = 0 THEN 0 ELSE Distance(q, 0) * StopDistance(levels)
  BY DEF PositionRisk
<1> HIDE DEF q, levels
<1>5. \A p \in Proposals : StopDistance(p) \in Nat
  BY DEF StopDistance, Distance
<1>6. Distance(q, 0) \in Nat
  BY <1>3 DEF Distance
<1>7. PositionRisk(States, s) \in Int
  BY <1>3, <1>4, <1>5, <1>6
<1>8. QED
  BY <1>3, <1>7 DEF q, levels

LEMMA PlansTypesStep ==
  ASSUME PlansTypes, [PlansNext]_planVars
  PROVE  PlansTypes'
<1>1. /\ placed \in [PlanIds -> OrderRow] /\ known \in [PlanIds -> PlanStates]
      /\ snapshot \in [PlanIds -> PlanStates]
  BY DEF PlansTypes, OrderTypes, OrderRow
<1>2. ASSUME placed' \in [PlanIds -> OrderRow], known' \in [PlanIds -> PlanStates],
             snapshot' \in [PlanIds -> PlanStates]
      PROVE  OrderTypes'
  BY <1>2 DEF OrderTypes, OrderRow
<1>3. ASSUME NEW p \in Proposals, NEW drift \in BOOLEAN, NEW stale \in BOOLEAN,
             Propose(p, drift, stale)
      PROVE  PlansTypes'
  <2>1. UNCHANGED <<placed, known, snapshot, dayPnl>> /\ NextPlan \in PlanIds
    BY <1>3 DEF Propose
  <2>2. breaker' \in BOOLEAN
    <3>1. breaker' = (breaker \/ BreakerTrips(drift, stale))
      BY <1>3 DEF Propose
    <3>2. QED
      BY <3>1, Zenon
  <2>3. \/ planner' = planner
        \/ /\ planner' = [step |-> "fetches", plan |-> p, order |-> NextPlan, pnl |-> dayPnl]
           /\ SetupApproved(p)
    BY <1>3 DEF Propose
  <2>4. OrderTypes' /\ Recorded(States)'
    BY <2>1 DEF PlansTypes, OrderTypes, Recorded, States
  <2>5. CASE planner' = planner
    BY <2>1, <2>2, <2>4, <2>5 DEF PlansTypes, SetupApproved, Risk, Reward, Size
  <2>6. CASE /\ planner' = [step |-> "fetches", plan |-> p, order |-> NextPlan, pnl |-> dayPnl]
             /\ SetupApproved(p)
    <3>1. planner'.step = "fetches" /\ planner'.plan = p /\ planner'.order = NextPlan
      BY <2>6
    <3>2. SetupApproved(planner.plan)'
      BY <2>6, <3>1 DEF SetupApproved, Risk, Reward, Size
    <3> HIDE DEF NextPlan
    <3>3. planner' \in [step : {"idle", "fetches", "sends"}, plan : Proposals \cup {NoPlan},
                       order : PlanIds \cup {0}, pnl : Int]
      BY <2>1, <2>6 DEF PlansTypes
    <3>4. QED
      BY <2>1, <2>2, <2>4, <3>1, <3>2, <3>3 DEF PlansTypes
  <2>7. QED
    BY <2>3, <2>5, <2>6
<1>4. ASSUME NEW usable \in BOOLEAN, Decide(usable)
      PROVE  PlansTypes'
  <2> DEFINE p == planner.plan
             o == planner.order
  <2>1. /\ UNCHANGED <<snapshot, dayPnl, breaker>>
        /\ p \in Proposals /\ o \in PlanIds /\ SetupApproved(p)
    BY <1>4 DEF Decide, PlansTypes
  <2>2. \/ /\ known' = [known EXCEPT ![o] = "open"]
           /\ placed' = [placed EXCEPT ![o].plan = p, ![o].quantity = Size(p)]
           /\ planner' = [planner EXCEPT !.step = "sends"]
        \/ planner' = Planning /\ UNCHANGED <<known, placed>>
    BY <1>4 DEF Decide
  <2>3. CASE /\ known' = [known EXCEPT ![o] = "open"]
             /\ placed' = [placed EXCEPT ![o].plan = p, ![o].quantity = Size(p)]
             /\ planner' = [planner EXCEPT !.step = "sends"]
    <3>1. Size(p) \in Nat
      BY <2>1, SizeFits
    <3>2. /\ planner'.step = "sends" /\ planner'.order = o
          /\ planner' \in [step : {"idle", "fetches", "sends"}, plan : Proposals \cup {NoPlan},
                           order : PlanIds \cup {0}, pnl : Int]
      BY <2>3 DEF PlansTypes
    <3> HIDE DEF o, p
    <3>3. /\ placed' \in [PlanIds -> OrderRow] /\ placed'[o].plan = p
          /\ \A x \in PlanIds : placed'[x].state = placed[x].state
                               /\ placed'[x].plan \in {p, placed[x].plan}
      BY <1>1, <2>1, <2>3, <3>1 DEF OrderRow
    <3>4. known' \in [PlanIds -> PlanStates]
      BY <1>1, <2>1, <2>3 DEF PlanStates
    <3>5. OrderTypes'
      BY <1>1, <1>2, <2>1, <3>3, <3>4
    <3>6. Recorded(States)'
      BY <2>1, <3>3 DEF PlansTypes, Recorded, States
    <3>7. QED
      BY <2>1, <3>2, <3>3, <3>5, <3>6 DEF PlansTypes
  <2>4. CASE planner' = Planning /\ UNCHANGED <<known, placed>>
    BY <2>1, <2>4 DEF PlansTypes, OrderTypes, Recorded, States, Planning
  <2>5. QED
    BY <2>2, <2>3, <2>4
<1>5. CASE SendPlan
  <2>1. /\ planner.order \in PlanIds /\ placed[planner.order].plan \in Proposals
        /\ placed' = [placed EXCEPT ![planner.order].state = "open"] /\ planner' = Planning
        /\ UNCHANGED <<known, snapshot, dayPnl, breaker>>
    BY <1>5 DEF SendPlan, PlansTypes
  <2>2. /\ placed' \in [PlanIds -> OrderRow]
        /\ \A x \in PlanIds : placed'[x].plan = placed[x].plan
                             /\ (x # planner.order => placed'[x] = placed[x])
    BY <1>1, <2>1 DEF OrderRow, PlanStates
  <2>3. OrderTypes'
    BY <1>1, <1>2, <2>1, <2>2
  <2>4. Recorded(States)'
    BY <2>1, <2>2 DEF PlansTypes, Recorded, States
  <2>5. QED
    BY <2>1, <2>3, <2>4 DEF PlansTypes, Planning
\* Steps that leave the planner alone, and the plans.
<1>6. ASSUME UNCHANGED planner, placed' \in [PlanIds -> OrderRow],
             \A x \in PlanIds : /\ placed'[x].plan = placed[x].plan
                                /\ placed'[x].state # "none" => placed[x].state # "none",
             known' \in [PlanIds -> PlanStates], snapshot' \in [PlanIds -> PlanStates],
             dayPnl' \in Int, breaker' \in BOOLEAN
      PROVE  PlansTypes'
  <2>1. OrderTypes'
    BY <1>2, <1>6
  <2>2. Recorded(States)'
    BY <1>6 DEF PlansTypes, Recorded, States
  <2>3. planner.step = "fetches" => SetupApproved(planner.plan)'
    BY <1>6 DEF PlansTypes, SetupApproved, Risk, Reward, Size
  <2>4. QED
    BY <1>6, <2>1, <2>2, <2>3 DEF PlansTypes
<1>7. CASE ResetBreaker \/ TakeSnapshot \/ UNCHANGED planVars
  <2>1. UNCHANGED <<placed, known, dayPnl, planner>> /\ breaker' \in BOOLEAN
    BY <1>7 DEF ResetBreaker, TakeSnapshot, planVars, PlansTypes
  <2>2. snapshot' \in [PlanIds -> PlanStates]
    BY <1>1, <1>7 DEF ResetBreaker, TakeSnapshot, planVars, OrderRow
  <2>3. QED
    BY <1>1, <1>6, <2>1, <2>2 DEF PlansTypes
<1>8. ASSUME NEW o \in PlanIds, Learn(o)
      PROVE  PlansTypes'
  <2>1. /\ UNCHANGED <<placed, snapshot, dayPnl, breaker, planner>>
        /\ known' \in [PlanIds -> PlanStates]
    BY <1>1, <1>8 DEF Learn, OrderRow
  <2>2. QED
    BY <1>1, <1>6, <2>1 DEF PlansTypes
<1>9. ASSUME NEW o \in PlanIds, NEW state \in {"filled", "closed"}, Moves(o, state)
      PROVE  PlansTypes'
  <2>1. /\ UNCHANGED <<known, snapshot, dayPnl, breaker, planner>> /\ placed[o].state = "open"
        /\ placed' = [placed EXCEPT ![o].state = state]
    BY <1>9 DEF Moves
  <2>2. /\ placed' \in [PlanIds -> OrderRow]
        /\ \A x \in PlanIds : /\ placed'[x].plan = placed[x].plan
                              /\ x # o => placed'[x] = placed[x]
    BY <1>1, <2>1 DEF OrderRow, PlanStates
  <2>3. QED
    BY <1>1, <1>6, <2>1, <2>2 DEF PlansTypes
<1>10. ASSUME NEW s \in PlanSymbols, Exit(s)
       PROVE  PlansTypes'
  <2> DEFINE exited == In(States, "filled", s)
             q == Held(States, s)
  <2>1. /\ placed' = [o \in PlanIds |-> IF o \in exited
                                        THEN [placed[o] EXCEPT !.state = "closed"]
                                        ELSE placed[o]]
        /\ q # 0 /\ UNCHANGED <<known, snapshot, breaker, planner>>
        /\ \/ dayPnl' = dayPnl - PositionRisk(States, s)
           \/ dayPnl' = dayPnl + Distance(q, 0) * Reward(LevelsOf(States, s))
    BY <1>10 DEF Exit, States
  <2>2. \A o \in exited : placed[o].state = "filled"
    BY DEF In, States
  <2>3. q \in Int /\ PositionRisk(States, s) \in Int /\ LevelsOf(States, s) \in Proposals
    BY <2>1, LevelsExist
  <2>4. Distance(q, 0) \in Int /\ Reward(LevelsOf(States, s)) \in Int
    <3> HIDE DEF q
    <3>1. \A p \in Proposals : Reward(p) \in Int
      BY DEF Reward
    <3>2. QED
      BY <2>3, <3>1, DistanceNat
  <2>5. dayPnl' \in Int
    <3>1. dayPnl \in Int
      BY DEF PlansTypes
    <3> HIDE DEF q
    <3>2. QED
      BY <2>1, <2>3, <2>4, <3>1
  <2> HIDE DEF exited
  <2>6. /\ placed' \in [PlanIds -> OrderRow]
        /\ \A x \in PlanIds : /\ placed'[x].plan = placed[x].plan
                              /\ x \notin exited => placed'[x] = placed[x]
    BY <1>1, <2>1 DEF OrderRow, PlanStates
  <2>7. \A x \in PlanIds : placed'[x].state # "none" => placed[x].state # "none"
    BY <2>2, <2>6
  <2>8. QED
    BY <1>1, <1>6, <2>1, <2>5, <2>6, <2>7 DEF PlansTypes
<1>11. QED
  BY <1>3, <1>4, <1>5, <1>7, <1>8, <1>9, <1>10 DEF PlansNext

\* Orders, views and the planner keep their types, the result of the day is a number, for
\* any setups and any limits (pre_trade_orchestrator.py).
THEOREM PlansTypeCorrect == PlansSpec => []PlansTypeOK
<1>1. PlansInit => PlansTypes
  <2> SUFFICES ASSUME PlansInit PROVE PlansTypes
    OBVIOUS
  <2>1. OrderTypes /\ Recorded(States)
    BY DEF PlansInit, OrderTypes, PlanStates, Recorded, States
  <2>2. planner = Planning /\ dayPnl = 0 /\ breaker \in BOOLEAN
    BY Zenon DEF PlansInit
  <2>3. QED
    BY <2>1, <2>2 DEF PlansTypes, Planning
<1>2. PlansTypes /\ [PlansNext]_planVars => PlansTypes'
  BY PlansTypesStep
<1>3. PlansTypes => PlansTypeOK
  BY DEF PlansTypes, OrderTypes, PlansTypeOK
<1>4. QED
  BY <1>1, <1>2, <1>3, PTL DEF PlansSpec

HIDE PreTradeAssumption
=============================================================================
