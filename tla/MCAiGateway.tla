----------------------------- MODULE MCAiGateway -----------------------------
(* Instances of AiGateway for TLC. *)
EXTENDS AiGateway

CONSTANTS k1, k2, p1, p2, r1, r2, r3

TwoKeys == {k1, k2}
OnePrice == {p1}
NormalAmounts == [p \in Prices |-> 2]
LighterAmounts == [p \in Prices |-> 1]
ThreeRuns == {r1, r2, r3}
TwoShareAKey == [r \in Runs |-> IF r = r3 THEN k2 ELSE k1]
SecondPriceLast == [p \in Prices |-> IF p2 \in Prices THEN p2 ELSE p1]
Usual == {[lighter |-> 2, stop |-> 3]}
=============================================================================
