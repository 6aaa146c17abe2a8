---------------------------- MODULE BrokerAccounts ----------------------------
(***************************************************************************)
(* The broker accounts of the users and the routes of one process's        *)
(* BrokerRouter (api/broker_accounts.py, api/upstox_oauth.py,              *)
(* broker_factory.py). An account is a database row; an active one has a   *)
(* route, built from its credentials and named with the row's version.     *)
(*                                                                         *)
(* A request reads the row, then takes the route lock, changes its own     *)
(* copy of the row, publishes or removes the route, and commits; when the  *)
(* commit fails it puts the old route back. The row may have changed       *)
(* between the read and the lock.                                          *)
(*                                                                         *)
(* BrokerRoute keeps the account id as a text and the code compares it     *)
(* with a number ("written": never equal). The model also runs the         *)
(* comparison the repository's tests expect ("text").                      *)
(***************************************************************************)
EXTENDS Integers, FiniteSets

CONSTANTS AccountRows,       \* ids of account rows
          Requesters,        \* request threads of the process
          Comparisons,       \* subset of {"written", "text"}
          MaxVersions,       \* bound on the versions of all rows
          MaxCommitFailures  \* bound on failing commits

NoOwner == "nobody"

ASSUME AccountsAssumption ==
  /\ Comparisons \subseteq {"written", "text"} /\ NoOwner \notin Requesters
  /\ MaxVersions \in Nat /\ MaxCommitFailures \in Nat

VARIABLES comparison,
          accounts,       \* committed row of each id: [status, version, good]
          routes,         \* version of the route of each account, 0 for none
          requester,      \* what each request holds
          lockOwner,      \* the request that holds the route lock
          startup,        \* "booting", "serving", or "failed" on a route error
          halted,         \* trading was halted by a failed quarantine
          committed,      \* <<id, version>> pairs ever committed (history)
          commitFailures

accountVars == <<comparison, accounts, routes, requester, lockOwner, startup, halted,
                 committed, commitFailures>>

NoRow == [status |-> "none", version |-> 0, good |-> FALSE]

NoRequest == [step |-> "idle"]

Versions == {v[2] : v \in committed}

NextVersion == Cardinality(Versions) + 1

AccountsInit ==
  /\ comparison \in Comparisons
  /\ \E good \in [AccountRows -> BOOLEAN], there \in SUBSET AccountRows :
       /\ accounts = [a \in AccountRows |->
                        IF a \in there THEN [status |-> "active", version |-> 1,
                                             good |-> good[a]]
                        ELSE NoRow]
       /\ \A a \in AccountRows \ there : good[a]
       /\ committed = {<<a, 1>> : a \in there}
  /\ routes = [a \in AccountRows |-> 0]
  /\ requester = [r \in Requesters |-> NoRequest]
  /\ lockOwner = NoOwner /\ startup = "booting" /\ halted = FALSE /\ commitFailures = 0

-----------------------------------------------------------------------------
(* broker_factory.py.                                                       *)

Active == {a \in AccountRows : accounts[a].status = "active"}

\* provision_active_account_routes: exactly the active accounts whose credentials can be
\* read keep a route, rebuilt from their rows.
Provisioned ==
  [a \in AccountRows |->
     IF a \in Active /\ accounts[a].good THEN accounts[a].version ELSE 0]

ProvisionFails == \E a \in Active : ~accounts[a].good

\* Mutant: the ids are compared as texts whatever the code does.
AlwaysSame == TRUE

\* route.broker_account_id = int(account.id)
SameIdentity == comparison = "text"

\* validate_active_account_routes.
Valid(table) ==
  \A a \in Active : table[a] # 0 /\ SameIdentity /\ table[a] = accounts[a].version

\* The lifespan of main.py: provision, validate, and fail on any error.
BootRoutes ==
  /\ startup = "booting"
  /\ routes' = Provisioned
  /\ startup' = IF ProvisionFails \/ ~Valid(Provisioned) THEN "failed" ELSE "serving"
  /\ UNCHANGED <<comparison, accounts, requester, lockOwner, halted, committed, commitFailures>>

-----------------------------------------------------------------------------
(* Requests.                                                                *)

\* A route exists and the broker says, or does not, that the account is flat and without
\* open orders: _ensure_account_safe_to_delete.
SafeToDelete(a) == accounts[a].status = "disabled" /\ routes[a] # 0

Acceptable(op, a) ==
  CASE op \in {"create", "connect new"} -> accounts[a].status = "none"
    [] op \in {"credentials", "enable", "disable", "connect"} -> accounts[a].status
                                                                 \in {"active", "disabled"}
    [] op = "delete" -> SafeToDelete(a)

\* The handler reads the row; `good` tells whether the credentials it sends can be used.
ReadAccount(r, op, a, good) ==
  /\ startup # "booting" /\ requester[r].step = "idle"
  /\ Acceptable(op, a)
  /\ op \in {"enable", "disable", "delete"} => good
  /\ requester' = [requester EXCEPT ![r] = [step |-> "read", op |-> op, account |-> a,
                                            row |-> accounts[a], good |-> good]]
  /\ UNCHANGED <<comparison, accounts, routes, lockOwner, startup, halted, committed,
                 commitFailures>>

\* The request's copy of the row after its assignments.
Staged(r) ==
  LET it == requester[r]
  IN  [status |-> CASE it.op = "disable" -> "disabled"
                    [] it.op = "delete" -> "none"
                    [] it.op = "credentials" -> it.row.status
                    [] OTHER -> "active",
       version |-> IF it.op = "delete" THEN 0 ELSE NextVersion,
       good |-> IF it.op \in {"create", "connect new", "credentials", "connect"} THEN it.good
                ELSE it.row.good]

\* A new account meets no route, a deletion the route it removes.
CreationMeetsNoRoute(a) == routes[a] = 0
DeletionMeetsItsRoute(a) == routes[a] # 0 /\ SameIdentity

\* The candidate route can be built, and is of this account.
Stageable(r) ==
  LET it == requester[r]  row == Staged(r)
  IN  /\ row.status = "active" => row.good /\ SameIdentity
      /\ it.op \in {"create", "connect new"} => CreationMeetsNoRoute(it.account)
      /\ it.op = "delete" => DeletionMeetsItsRoute(it.account)

Fails(r) == requester' = [requester EXCEPT ![r] = NoRequest]

\* Under the lock: the route is published or removed before the commit.
StageRoute(r) ==
  LET it == requester[r]  row == Staged(r)
  IN  /\ it.step = "read" /\ lockOwner = NoOwner /\ NextVersion <= MaxVersions
      /\ IF Stageable(r)
         THEN /\ routes' = [routes EXCEPT ![it.account] =
                              IF row.status = "active" THEN row.version ELSE 0]
              /\ requester' = [requester EXCEPT ![r] =
                   [step |-> "commits", op |-> it.op, account |-> it.account, row |-> it.row,
                    new |-> row, old |-> routes[it.account]]]
              /\ lockOwner' = r
         ELSE Fails(r) /\ UNCHANGED <<routes, lockOwner>>
      /\ UNCHANGED <<comparison, accounts, startup, halted, committed, commitFailures>>

\* Columns that the request assigned; the others keep what the database holds.
Updated(it) ==
  [status |-> IF it.new.status # it.row.status THEN it.new.status
              ELSE accounts[it.account].status,
   version |-> it.new.version,
   good |-> IF it.op \in {"enable", "disable"} THEN accounts[it.account].good
            ELSE it.new.good]

\* The row is still what the statement needs: absent for an INSERT, there for the others.
Committable(it) ==
  (accounts[it.account].status = "none") = (it.op \in {"create", "connect new"})

CommitAccount(r) ==
  LET it == requester[r]
  IN  /\ it.step = "commits" /\ Committable(it)
      /\ accounts' = [accounts EXCEPT ![it.account] =
                        IF it.op = "delete" THEN NoRow ELSE Updated(it)]
      /\ committed' = IF it.op = "delete" THEN committed
                      ELSE committed \cup {<<it.account, it.new.version>>}
      /\ requester' = [requester EXCEPT ![r] =
           IF accounts'[it.account].status = "active"
           THEN [step |-> "syncs", op |-> it.op, account |-> it.account] ELSE NoRequest]
      /\ lockOwner' = NoOwner
      /\ UNCHANGED <<comparison, routes, startup, halted, commitFailures>>

\* Mutant: the rollback forgets the route.
NotRestored(it) == routes

\* What the handlers of a failed commit do with the route.
Restored(it) == [routes EXCEPT ![it.account] = it.old]

CommitFails(r) ==
  LET it == requester[r]
  IN  /\ it.step = "commits"
      /\ \/ ~Committable(it) /\ UNCHANGED commitFailures
         \/ /\ commitFailures < MaxCommitFailures
            /\ commitFailures' = commitFailures + 1
      /\ routes' = Restored(it)
      /\ Fails(r) /\ lockOwner' = NoOwner
      /\ UNCHANGED <<comparison, accounts, startup, halted, committed>>

\* _sync_routes, and for the login callback validation too.
SyncRoutes(r) ==
  LET it == requester[r]
      wrong == \/ ProvisionFails
               \/ it.op \in {"connect", "connect new"} /\ ~Valid(Provisioned)
  IN  /\ it.step = "syncs" /\ lockOwner = NoOwner
      /\ routes' = Provisioned
      /\ requester' = [requester EXCEPT ![r] =
           IF wrong THEN [step |-> "quarantines", op |-> it.op, account |-> it.account]
           ELSE NoRequest]
      /\ UNCHANGED <<comparison, accounts, lockOwner, startup, halted, committed, commitFailures>>

\* _quarantine_account_after_route_validation_failure: any route error disables the account
\* of this request; if that cannot be committed, trading halts.
Quarantine(r) ==
  LET it == requester[r]
  IN  /\ it.step = "quarantines" /\ lockOwner = NoOwner /\ NextVersion <= MaxVersions
      /\ routes' = [routes EXCEPT ![it.account] = 0]
      /\ Fails(r)
      /\ \/ /\ accounts[it.account].status # "none"
            /\ accounts' = [accounts EXCEPT ![it.account].status = "disabled",
                                            ![it.account].version = NextVersion]
            /\ committed' = committed \cup {<<it.account, NextVersion>>}
            /\ UNCHANGED <<halted, commitFailures>>
         \/ /\ accounts[it.account].status = "none" \/ commitFailures < MaxCommitFailures
            /\ halted' = TRUE
            /\ commitFailures' = IF accounts[it.account].status = "none" THEN commitFailures
                                 ELSE commitFailures + 1
            /\ UNCHANGED <<accounts, committed>>
      /\ UNCHANGED <<comparison, lockOwner, startup>>

AccountsNext ==
  \/ BootRoutes
  \/ \E r \in Requesters :
       \/ \E op \in {"create", "connect new", "credentials", "enable", "disable", "connect",
                     "delete"}, a \in AccountRows, good \in BOOLEAN :
            ReadAccount(r, op, a, good)
       \/ StageRoute(r) \/ CommitAccount(r) \/ CommitFails(r) \/ SyncRoutes(r) \/ Quarantine(r)

AccountsSpec == AccountsInit /\ [][AccountsNext]_accountVars

AccountsTypeOK ==
  /\ \A a \in AccountRows :
       /\ accounts[a].status \in {"none", "active", "disabled"}
       /\ accounts[a].version \in 0..MaxVersions /\ accounts[a].good \in BOOLEAN
  /\ routes \in [AccountRows -> 0..MaxVersions]
  /\ \A r \in Requesters :
       requester[r].step \in {"idle", "read", "commits", "syncs", "quarantines"}
  /\ lockOwner \in Requesters \cup {NoOwner}
  /\ startup \in {"booting", "serving", "failed"} /\ halted \in BOOLEAN
  /\ commitFailures \in 0..MaxCommitFailures

\* A route is never left behind by credentials that did not reach the database: whenever no
\* request is between its route and its commit, each route was built from a committed
\* version of its own row, whichever requests overlapped and whichever commits failed
\* (_create_, _update_ and _delete_account_with_route_fence).
RoutesAreCommitted ==
  lockOwner = NoOwner =>
    \A a \in AccountRows : routes[a] # 0 => <<a, routes[a]>> \in committed

\* A process whose active accounts all have usable credentials gets past the validation of
\* its routes (tests/test_broker_factory_account_routes.py:96).
BoundRoutesAreReady ==
  startup = "failed" => \E a \in Active : ~accounts[a].good
=============================================================================
