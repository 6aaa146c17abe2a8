----------------------------- MODULE MCMarketFeed -----------------------------
(* An instance of MarketFeed for TLC: one subscriber watches x, the other   *)
(* both instruments; a message has one tick or two.                         *)
EXTENDS MarketFeed, TLC

CONSTANTS x, y, s1, s2

WatchOneOrBoth == [s \in Subscribers |-> IF s = s1 THEN {x} ELSE {x, y}]

OneOrTwoTicks == { <<x>>, <<x, y>> }
=============================================================================
