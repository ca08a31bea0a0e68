------------------------- MODULE MCStealthPayments -------------------------
(* A group of 40 points: 5 in the base point's subgroup, cofactor 8.       *)
EXTENDS StealthPayments

MCH == [x \in 0 .. 8 * L - 1 |-> (x * x + x + 1) % L]

(* The identity, a key of somebody else's, one with a torsion part, one of *)
(* pure torsion, and bytes that are no point.                              *)
MCForeign == {0, 16, 21, 5, Undecodable}

(* Not hex, three scalars, and an encoding of L itself.                    *)
MCTyped == {Undecodable, 1, 2, 3, 5}

MCDrawn == {0, 1, 3}

=============================================================================
