------------------------------ MODULE MCShaping -----------------------------
(* Shaping for TLC: arrays and strings around the presets' limits, flat,    *)
(* nested and inside an object beside a long list.                          *)
EXTENDS Shaping

Repeat(v, n) == Array([i \in 1 .. n |-> v])

Strings == {String(n, n) : n \in {0, 20, 21, 40, 41, 81, 201, 501}}

Leaves == Strings \cup {Other(1), Other(9)}

Sizes == {0, 1, 2, 3, 4, 5, 6, 10, 11, 20, 21, 30}

Flat == Leaves \cup {Repeat(v, n) : v \in Leaves, n \in Sizes}

Nested == {Repeat(Repeat(v, n), k) : v \in {Other(1), String(41, 41)}, n \in {2, 4, 21}, k \in {1, 3, 6, 21}}

Reports ==
    {Object(<< [key |-> 4, value |-> logs], [key |-> 13, value |-> Other(3)] >>) :
        logs \in Flat \cup Nested}

MCValues == Flat \cup Nested \cup Reports

=============================================================================
