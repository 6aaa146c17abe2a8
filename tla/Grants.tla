------------------------------- MODULE Grants -------------------------------
(***************************************************************************)
(* Two stores of permissions that may be used once before they expire: the *)
(* execution authorizations of the live gateway                            *)
(* (execution_authorization_store.py), bound to one order and one broker   *)
(* context, and the OAuth states of a broker login (api/upstox_oauth.py,   *)
(* oauth_state_store.py), bound to one broker.                             *)
(*                                                                         *)
(* A user of a grant reads the clock first. An authorization is then       *)
(* consumed in one transaction that may have to wait; an OAuth state is    *)
(* looked up and consumed in two statements, with the user's old clock in  *)
(* both. A grant that was used starts one order, or one token exchange.    *)
(***************************************************************************)
EXTENDS Integers, FiniteSets

CONSTANTS Nonces,       \* execution authorizations
          OauthStates,  \* OAuth states
          GrantUsers,   \* callers of consume and of the callback
          Bindings,     \* what a grant is for: an order with its context
          BindingOf,    \* the binding each grant is issued for
          Ttl,          \* lifetime of a grant
          MaxGrantTime  \* end of the clock

ASSUME GrantAssumption ==
  /\ BindingOf \in [Nonces \cup OauthStates -> Bindings]
  /\ Nonces \cap OauthStates = {} /\ Ttl \in Nat /\ MaxGrantTime \in Nat

GrantIds == Nonces \cup OauthStates

VARIABLES grantClock,
          grants,      \* the row of each grant: [state, expires]
          grantUser    \* what each caller holds: [step, grant, binding, clock]

grantVars == <<grantClock, grants, grantUser>>

NoGrant == [state |-> "none", expires |-> 0]

NotUsing == [step |-> "idle"]

GrantsInit ==
  /\ grantClock = 0
  /\ grants = [g \in GrantIds |-> NoGrant]
  /\ grantUser = [u \in GrantUsers |-> NotUsing]

Answered(u, answer) == grantUser' = [grantUser EXCEPT ![u].step = answer]

GrantTick ==
  /\ grantClock < MaxGrantTime
  /\ grantClock' = grantClock + 1
  /\ UNCHANGED <<grants, grantUser>>

\* issue, and the start of the login: a new row, never one that exists.
IssueGrant(g) ==
  /\ grants[g] = NoGrant
  /\ grants' = [grants EXCEPT ![g] = [state |-> "open", expires |-> grantClock + Ttl]]
  /\ UNCHANGED <<grantClock, grantUser>>

\* consume and callback begin: the clock is read outside the transaction.
TakeUp(u, g, b) ==
  /\ grantUser[u].step = "idle"
  /\ grantUser' = [grantUser EXCEPT ![u] = [step |-> "asks", grant |-> g,
                                            binding |-> b, clock |-> grantClock]]
  /\ UNCHANGED <<grantClock, grants>>

\* Mutant: the time a grant ends is not compared.
NeverEnds(g, clock) == FALSE

\* The authorization is over when its expiry is before the clock; the OAuth state
\* already when they are equal.
Ended(g, clock) ==
  IF g \in Nonces THEN grants[g].expires < clock ELSE grants[g].expires <= clock

Used(g) == grants' = [grants EXCEPT ![g].state = "used"]

\* ExecutionAuthorizationStore.consume under BEGIN IMMEDIATE; the refusals in the order
\* of the code.
ConsumeAnswer(g, b, clock) ==
  CASE grants[g].state = "none" -> "missing"
    [] grants[g].state = "used" -> "consumed"
    [] BindingOf[g] # b -> "mismatch"
    [] Ended(g, clock) -> "expired"
    [] OTHER -> "won"

Consume(u) ==
  LET it == grantUser[u]
      answer == ConsumeAnswer(it.grant, it.binding, it.clock)
  IN  /\ it.step = "asks" /\ it.grant \in Nonces
      /\ Answered(u, answer)
      /\ IF answer = "won" THEN Used(it.grant) ELSE UNCHANGED grants
      /\ UNCHANGED grantClock

\* The callback looks the state up...
Usable(g, b, clock) ==
  grants[g].state = "open" /\ BindingOf[g] = b /\ ~Ended(g, clock)

FindState(u) ==
  LET it == grantUser[u]
  IN  /\ it.step = "asks" /\ it.grant \in OauthStates
      /\ Answered(u, IF Usable(it.grant, it.binding, it.clock) THEN "found" ELSE "refused")
      /\ UNCHANGED <<grantClock, grants>>

\* Mutant: the update does not ask again whether the state is unused.
ClaimedAnyway(g, clock) == ~Ended(g, clock)

\* ... and its update counts only if the row is still unused and not over.
Claims(g, clock) == grants[g].state = "open" /\ ~Ended(g, clock)

UseState(u) ==
  LET it == grantUser[u]
  IN  /\ it.step = "found"
      /\ IF Claims(it.grant, it.clock)
         THEN Answered(u, "won") /\ Used(it.grant)
         ELSE Answered(u, "refused") /\ UNCHANGED grants
      /\ UNCHANGED grantClock

\* OAuthStateStore.consume: one conditional update.
ConsumeState(u) ==
  LET it == grantUser[u]
  IN  /\ it.step = "asks" /\ it.grant \in OauthStates
      /\ IF Usable(it.grant, it.binding, it.clock)
         THEN Answered(u, "won") /\ Used(it.grant)
         ELSE Answered(u, "refused") /\ UNCHANGED grants
      /\ UNCHANGED grantClock

\* purge_expired: rows that are over are deleted, used or not; their random ids never
\* come back.
PurgeExpired ==
  LET over == {g \in OauthStates : grants[g].state \in {"open", "used"}
                                   /\ grants[g].expires <= grantClock}
  IN  /\ over # {}
      /\ grants' = [g \in GrantIds |->
                      IF g \in over THEN [grants[g] EXCEPT !.state = "purged"] ELSE grants[g]]
      /\ UNCHANGED <<grantClock, grantUser>>

GrantsNext ==
  \/ GrantTick \/ PurgeExpired
  \/ \E g \in GrantIds : IssueGrant(g)
  \/ \E u \in GrantUsers :
       \/ \E g \in GrantIds, b \in Bindings : TakeUp(u, g, b)
       \/ Consume(u) \/ FindState(u) \/ UseState(u) \/ ConsumeState(u)

GrantsSpec == GrantsInit /\ [][GrantsNext]_grantVars

GrantsTypeOK ==
  /\ grantClock \in 0..MaxGrantTime
  /\ \A g \in GrantIds :
       /\ grants[g].state \in {"none", "open", "used", "purged"}
       /\ grants[g].expires \in 0..(MaxGrantTime + Ttl)
  /\ \A u \in GrantUsers :
       grantUser[u].step \in {"idle", "asks", "found", "missing", "consumed", "mismatch",
                              "expired", "refused", "won"}

\* However consumers wait for the transaction, and however two callbacks with one state
\* interleave, a grant is won by one of them at most; the winner asked for what the grant
\* was issued for and had read the clock before the grant ended
\* (execution_authorization_store.py consume, api/upstox_oauth.py callback).
GrantsAreWonOnce ==
  \A u \in GrantUsers : grantUser[u].step = "won" =>
    LET g == grantUser[u].grant
    IN  /\ grants[g].state \in {"used", "purged"}
        /\ BindingOf[g] = grantUser[u].binding
        /\ ~(grants[g].expires < grantUser[u].clock)
        /\ \A v \in GrantUsers \ {u} :
             grantUser[v].step = "won" => grantUser[v].grant # g
=============================================================================
