----------------------------- MODULE MCAiBudget -----------------------------
(* Instances of AiBudget for TLC. *)
EXTENDS AiBudget, TLC

CONSTANTS k1, k2, k3, p1

ThreeKeys == {k1, k2, k3}
TwoKeys == {k1, k2}
OnePrice == {p1}
TwoUnits == [p \in {p1} |-> 2]
OneUnit == [p \in {p1} |-> 1]
Symmetry == Permutations(ThreeKeys)

(* A usual pair, and an owner who lowers the stop below what is committed. *)
UsualOrLow == {[lighter |-> 2, stop |-> 3], [lighter |-> 0, stop |-> 1]}
Usual == {[lighter |-> 2, stop |-> 3]}
=============================================================================
