-------------------------- MODULE MCStartupSafety ---------------------------
(* Instances of StartupSafety and of LocalOrders for TLC. They share no     *)
(* state: a behaviour runs one of them, chosen at the start.                *)
EXTENDS StartupSafety, LocalOrders, TLC

CONSTANTS p1, p2, a1, a2, b1, b2, b3, c1, c2

\* No account, one, or both are active.
AnyAccounts == {{}, {a1}, {a1, a2}}

AllFaults == {"provision", "unscoped", "snapshot", "drift", "projection"}

\* The processes and the accounts are interchangeable.
Symmetric == Permutations({p1, p2}) \cup Permutations({a1, a2})

\* LocalOrders: a buy of two and a sell of one, of two accounts; the sell may have been
\* sent twice, so that the broker has two orders under its client id.
ClientOrders == [b \in {b1, b2, b3} |-> IF b = b1 THEN c1 ELSE c2]
BuyAndSell == [b \in {b1, b2, b3} |-> IF b = b1 THEN "BUY" ELSE "SELL"]
TwoAndOne == [b \in {b1, b2, b3} |-> IF b = b1 THEN 2 ELSE 1]
AnAccountEach == [b \in {b1, b2, b3} |-> IF b = b1 THEN "first" ELSE "second"]

VARIABLE running

parts == <<vars, localVars, running>>

StartupsInit == Init /\ LocalInit /\ running \in {"startup", "orders"}

StartupsNext ==
  \/ running = "startup" /\ Next /\ UNCHANGED <<localVars, running>>
  \/ running = "orders" /\ LocalNext /\ UNCHANGED <<vars, running>>

StartupsSpec == StartupsInit /\ [][StartupsNext]_parts
=============================================================================
