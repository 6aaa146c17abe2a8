--------------------------- MODULE IdentityRecovery ---------------------------
(***************************************************************************)
(* Orders of which only the client's id is known, after a crash or an      *)
(* answer that was lost, and the broker's orders they turn out to be:      *)
(*   - the router reads the book of each route with unresolved intents and *)
(*     looks for them in it (broker_router.py);                            *)
(*   - the gateway of another process looks for the order it was           *)
(*     submitting when the call raised (live_execution_gateway.py), after  *)
(*     the router has;                                                     *)
(*   - a snapshot is matched with the local orders, by id or by what they  *)
(*     ask for, and the registry keeps the match (reconciliation_matcher,  *)
(*     reconciliation_snapshot_processor, reconciliation_identity_binding).*)
(*                                                                         *)
(* The store of the intents is that of SubmissionIntents; the registry's   *)
(* own races are those of OnceOnly. The broker is external: it shows the   *)
(* orders of this client, of which a retry may have made two, and those of *)
(* others, who may use the same ids.                                       *)
(***************************************************************************)
EXTENDS Naturals, FiniteSets

CONSTANTS
  Sought,        \* client ids of the orders that are looked for
  SoughtTerms,   \* what each asks for: symbol, side and quantity
  SoughtIn,      \* the route each was sent on
  Books,         \* routes, each with the orders of one account
  Accountless,   \* those whose intent names no account
  SoughtIds,     \* ids of the broker's orders
  PossibleRows,  \* what it may show under one: the client's id, the terms, the book,
                 \* whether it says whose account it is in (scoped), and whether its
                 \* time is near that of the local orders
  NoId           \* no order, and no client's id

ASSUME IdentityRecoveryAssumption ==
  /\ SoughtIn \in [Sought -> Books] /\ Accountless \subseteq Sought
  /\ NoId \notin Sought \cup SoughtIds \cup Books \cup PossibleRows
  /\ \A row \in PossibleRows : row.book \in Books /\ {row.scoped, row.near} \subseteq BOOLEAN

VARIABLES
  shownRows,      \* the broker's orders
  soughtIntents,  \* the store of the intents
  search,         \* the router's pass over the unresolved intents
  recovering,     \* of each client id, the gateway's lookup: [at, broker]
  searchHalted,   \* the safety store
  registered      \* the registry: the broker order of each client id

searchVars == <<shownRows, soughtIntents, search, recovering, searchHalted, registered>>

Store == INSTANCE SubmissionIntents
           WITH intents <- soughtIntents, ClientIds <- Sought, BrokerIds <- SoughtIds,
                NoBroker <- NoId, Fingerprints <- {SoughtTerms[c] : c \in Sought},
                NoFingerprint <- NoId

NoSearch == [at |-> "idle", todo |-> {}, over |-> NoId, book |-> NoId, rows |-> {},
             found |-> {}]

NoRecovery == [at |-> "idle", broker |-> NoId]

SearchInit ==
  /\ shownRows = [b \in SoughtIds |-> NoId]
  /\ soughtIntents = [c \in Sought |-> [Store!NoIntent EXCEPT !.phase = "unresolved",
                                                             !.fingerprint = SoughtTerms[c]]]
  /\ search = NoSearch /\ searchHalted = FALSE
  /\ recovering = [c \in Sought |-> NoRecovery]
  /\ registered = [c \in Sought |-> NoId]

Listed == {b \in SoughtIds : shownRows[b] # NoId}

\* Of some listed orders, those of a book under a client id.
UnderId(rows, c, book) ==
  {b \in rows : shownRows[b].client = c /\ shownRows[b].book = book}

\* An order reaches the broker.
RowAppears(b, row) ==
  /\ shownRows[b] = NoId /\ shownRows' = [shownRows EXCEPT ![b] = row]
  /\ UNCHANGED <<soughtIntents, search, recovering, searchHalted, registered>>

\* An order was sent before: the store has the id of the answer, and the row may not have
\* the client's.
AnsweredBefore(c, b, row) ==
  /\ shownRows[b] = NoId /\ row.client \in {c, NoId}
  /\ row.terms = SoughtTerms[c] /\ row.book = SoughtIn[c]
  /\ shownRows' = [shownRows EXCEPT ![b] = row]
  /\ Store!RecordBrokerOrder(c, b, "NEW")
  /\ UNCHANGED <<search, recovering, searchHalted, registered>>

-----------------------------------------------------------------------------
(* reconcile_unresolved_submission_intents                                  *)

\* A route that is given is searched for the intents of all.
BeginSearch(over) ==
  /\ search.at = "idle"
  /\ search' = [NoSearch EXCEPT !.at = "group", !.over = over,
                                !.todo = {c \in Sought : Store!Unresolved(c)}]
  /\ UNCHANGED <<shownRows, soughtIntents, recovering, searchHalted, registered>>

SearchedFor(book) == {c \in search.todo : SoughtIn[c] = book}

\* The route that is read: the intent's own, or the one that was given.
RouteRead(own) == IF search.over = NoId THEN own ELSE search.over

\* One snapshot for all the intents of a route. The route is not there, or its adapter
\* has no snapshots: it raises. A snapshot that is not authoritative halts as well.
ReadBook(own) ==
  LET intents == SearchedFor(own)
      rows == UNION {UnderId(Listed, c, RouteRead(own)) : c \in intents}
  IN
  /\ search.at = "group" /\ intents # {}
  /\ \/ /\ search' = [search EXCEPT !.at = "intents", !.book = own, !.rows = rows]
        /\ UNCHANGED searchHalted
     \/ search' = [NoSearch EXCEPT !.at = "unavailable"] /\ UNCHANGED searchHalted
     \/ search' = [NoSearch EXCEPT !.at = "raised"] /\ searchHalted' = TRUE
  /\ UNCHANGED <<shownRows, soughtIntents, recovering, registered>>

BookRead == RouteRead(search.book)

\* Mutant: the account and what was ordered are not compared.
RowHasId(c, b) == shownRows[b].client = c

\* The account of the intent is compared when it names one, the payload always; a row that
\* is not complete asks for none of the terms.
RowIsOf(c, b) ==
  /\ c \in Accountless \/ SoughtIn[c] = BookRead
  /\ shownRows[b].terms = SoughtTerms[c]

\* No row leaves the intent unresolved; two, or one that is not its, halt and raise.
FindIntent(c) ==
  LET found == UnderId(search.rows, c, BookRead) IN
  /\ search.at = "intents" /\ c \in SearchedFor(search.book)
  /\ \/ /\ found = {}
        /\ search' = [search EXCEPT !.todo = @ \ {c}]
        /\ UNCHANGED <<soughtIntents, searchHalted>>
     \/ \E b \in found :
          /\ found = {b} /\ RowIsOf(c, b)
          /\ Store!RecordBrokerOrder(c, b, "NEW")
          /\ search' = [search EXCEPT !.at = "resolve", !.found = @ \cup {c}]
          /\ UNCHANGED searchHalted
     \/ /\ \A b \in found : Cardinality(found) > 1 \/ ~RowIsOf(c, b)
        /\ found # {}
        /\ search' = [NoSearch EXCEPT !.at = "raised"] /\ searchHalted' = TRUE
        /\ UNCHANGED soughtIntents
  /\ UNCHANGED <<shownRows, recovering, registered>>

\* The store refuses to record: another process resolved the intent, or bound it.
RecordRefused(c) ==
  /\ search.at = "intents" /\ c \in SearchedFor(search.book)
  /\ \E b \in UnderId(search.rows, c, BookRead) : ~Store!RecordAccepts(c, b)
  /\ search' = [NoSearch EXCEPT !.at = "unavailable"]
  /\ UNCHANGED <<shownRows, soughtIntents, recovering, searchHalted, registered>>

ResolveFound(c) ==
  /\ search.at = "resolve" /\ c \in search.found \cap search.todo
  /\ Store!ResolveIntent(c)
  /\ search' = [search EXCEPT !.at = "intents", !.todo = @ \ {c}]
  /\ UNCHANGED <<shownRows, recovering, searchHalted, registered>>

NextBook ==
  /\ search.at = "intents" /\ SearchedFor(search.book) = {}
  /\ search' = [search EXCEPT !.at = "group", !.book = NoId, !.rows = {}, !.found = {}]
  /\ UNCHANGED <<shownRows, soughtIntents, recovering, searchHalted, registered>>

EndSearch ==
  /\ search.at = "group" /\ search.todo = {}
  /\ searchHalted' = (searchHalted \/ \E c \in Sought : Store!Unresolved(c))
  /\ search' = [NoSearch EXCEPT !.at = "returned"]
  /\ UNCHANGED <<shownRows, soughtIntents, recovering, registered>>

\* The process ends, or the caller tries again.
LeaveSearch ==
  /\ search.at # "idle" /\ search' = NoSearch
  /\ UNCHANGED <<shownRows, soughtIntents, recovering, searchHalted, registered>>

-----------------------------------------------------------------------------
(* Another process, whose submission raised                                 *)

\* _recover_after_submit_failure of its router halts when it cannot look the order up, finds
\* two, or one that is not complete or does not name the request's account and route.
\* Otherwise it raises: no order, other terms, or the status of its own result, of which
\* it reads .value (line 190) before it records anything.
RouterRecovers ==
  /\ searchHalted' = TRUE
  /\ UNCHANGED <<shownRows, soughtIntents, search, recovering, registered>>

\* _recover_ambiguous_submission of its gateway: one order under the client's id, which
\* says what the request says, its account included.
GatewayFinds(c) ==
  /\ recovering[c].at = "idle"
  /\ \E b \in SoughtIds :
       /\ UnderId(Listed, c, SoughtIn[c]) = {b}
       /\ shownRows[b].terms = SoughtTerms[c] /\ (c \in Accountless \/ shownRows[b].scoped)
       /\ recovering' = [recovering EXCEPT ![c] = [at |-> "record", broker |-> b]]
  /\ UNCHANGED <<shownRows, soughtIntents, search, searchHalted, registered>>

GatewayRecords(c) ==
  LET b == recovering[c].broker IN
  /\ recovering[c].at = "record"
  /\ \/ /\ Store!RecordBrokerOrder(c, b, "NEW")
        /\ recovering' = [recovering EXCEPT ![c] = [at |-> "resolve", broker |-> b]]
     \/ /\ ~Store!RecordAccepts(c, b) /\ UNCHANGED soughtIntents
        /\ recovering' = [recovering EXCEPT ![c] = NoRecovery]
  /\ UNCHANGED <<shownRows, search, searchHalted, registered>>

GatewayResolves(c) ==
  /\ recovering[c].at = "resolve"
  /\ Store!ResolveIntent(c)
  /\ recovering' = [recovering EXCEPT ![c] = NoRecovery]
  /\ UNCHANGED <<shownRows, search, searchHalted, registered>>

\* That process ends.
GatewayEnds(c) ==
  /\ recovering[c].at # "idle"
  /\ recovering' = [recovering EXCEPT ![c] = NoRecovery]
  /\ UNCHANGED <<shownRows, soughtIntents, search, searchHalted, registered>>

-----------------------------------------------------------------------------
(* ReconciliationMatcher.match, over all local orders                       *)

\* Of the account and the route the row names, if it names them.
InScope(row) == {c \in Sought : row.scoped => SoughtIn[c] = row.book}

Alike(row) == {c \in InScope(row) : SoughtTerms[c] = row.terms /\ row.near}

\* By the client's id, the broker's, or what the order asks for; of each, the only one.
Matched(b) ==
  LET row == shownRows[b]
      exact == {c \in InScope(row) : c = row.client}
      known == {c \in InScope(row) : soughtIntents[c].broker = b}
  IN IF exact # {} THEN exact ELSE IF known # {} THEN known ELSE Alike(row)

\* Mutant: what the order asks for comes before its ids.
MatchedByTerms(b) ==
  LET row == shownRows[b] IN
  IF Alike(row) # {} THEN Alike(row) ELSE {c \in InScope(row) : c = row.client}

\* One row of a snapshot: it is quarantined when it is not matched, and the registry
\* refuses to bind an order or a row a second time.
BindRow(b) ==
  /\ b \in Listed
  /\ \E c \in Sought :
       /\ Matched(b) = {c} /\ registered[c] = NoId
       /\ \A other \in Sought : registered[other] # b
       /\ registered' = [registered EXCEPT ![c] = b]
  /\ UNCHANGED <<shownRows, soughtIntents, search, recovering, searchHalted>>

SearchNext ==
  \/ \E b \in SoughtIds : BindRow(b) \/ \E row \in PossibleRows : RowAppears(b, row)
  \/ \E book \in Books : ReadBook(book) \/ BeginSearch(book)
  \/ \E c \in Sought, b \in SoughtIds, row \in PossibleRows : AnsweredBefore(c, b, row)
  \/ BeginSearch(NoId) \/ NextBook \/ EndSearch \/ LeaveSearch \/ RouterRecovers
  \/ \E c \in Sought :
       \/ FindIntent(c) \/ RecordRefused(c) \/ ResolveFound(c)
       \/ GatewayFinds(c) \/ GatewayRecords(c) \/ GatewayResolves(c) \/ GatewayEnds(c)

SearchSpec == SearchInit /\ [][SearchNext]_searchVars

-----------------------------------------------------------------------------
\* Rows, intents, the pass and the registry keep their types.
SearchTypeOK ==
  /\ \A b \in SoughtIds : shownRows[b] \in {NoId} \cup PossibleRows
  /\ Store!IntentsTypeOK
  /\ search.at \in {"idle", "group", "intents", "resolve", "returned", "raised",
                    "unavailable"}
  /\ search.todo \subseteq Sought /\ searchHalted \in BOOLEAN
  /\ \A c \in Sought : /\ recovering[c].at \in {"idle", "record", "resolve"}
                        /\ recovering[c].broker \in SoughtIds \cup {NoId}
  /\ registered \in [Sought -> SoughtIds \cup {NoId}]

\* An order is taken for the broker's only on evidence, although two processes search,
\* orders appear meanwhile, and others use the same ids: an intent is bound to an
\* order that bears its id, or none, and asks for the same, in the book of its account
\* where it names one; in the snapshot a pass resolved it from, that was the only one. A
\* row that names a local order of its account is registered as no other. A pass over the
\* intents that ends with one left, or that met rows it cannot tell apart, has halted
\* trading
\* (broker_router.py reconcile_unresolved_submission_intents, reconciliation_matcher.py).
OrdersFoundAreTheirs ==
  /\ \A c \in Sought :
       LET intent == soughtIntents[c]
           row == shownRows[intent.broker] IN
       intent.broker # NoId =>
         /\ row.client \in {c, NoId} /\ row.terms = SoughtTerms[c]
         /\ c \in Accountless \/ row.book = SoughtIn[c]
  /\ \A c \in search.found :
       Cardinality(UnderId(search.rows, c, BookRead)) = 1
  /\ \A c \in Sought : registered[c] # NoId =>
       LET row == shownRows[registered[c]] IN
       row.client = c \/ row.client \notin InScope(row)
  /\ search.at = "raised" => searchHalted
  /\ search.at = "returned" /\ (\E c \in Sought : Store!Unresolved(c)) => searchHalted
=============================================================================
