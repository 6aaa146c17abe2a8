-------------------------- MODULE MCLiveSubmission --------------------------
(* Instances of LiveSubmission for TLC.                                    *)
EXTENDS LiveSubmission, TLC

CONSTANTS w1, w2, c1, c2

\* Each client order id is executed by one worker only.
DisjointCallers == [w \in Workers |-> IF w = w1 THEN {c1} ELSE {c2}]

\* Any worker may be asked to execute any client order id.
SharedCallers == [w \in Workers |-> ClientIds]

\* c2 is the smaller order: the two do not fit under the limit of the
\* instance together until one has been filled or shrunk.
Quantities == [c \in ClientIds |-> IF c = c1 THEN 2 ELSE 1]

\* Three units: two callers can see different partial fills of one order.
LargerQuantities == [c \in ClientIds |-> 3]
=============================================================================
