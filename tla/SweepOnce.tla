------------------------------ MODULE SweepOnce -----------------------------
(***************************************************************************)
(* What the sweep pipeline promises, with none of how it does it: however  *)
(* often a sweep is proposed, signed, re-signed, declined, resubmitted or  *)
(* lost on the way, an address pays out at most once, every payment spends *)
(* the nonce it was built on, and a spent nonce never pays again.          *)
(***************************************************************************)
CONSTANTS Address, Hash, NoNonce

VARIABLES swept, nonce, spent

vars == <<swept, nonce, spent>>

Init == swept = {} /\ nonce = NoNonce /\ spent = {}

(* The nonce account comes into being.                                     *)
Create ==
    /\ nonce = NoNonce
    /\ nonce' \in Hash \ {NoNonce}
    /\ UNCHANGED <<swept, spent>>

Pay(a) ==
    /\ nonce # NoNonce
    /\ a \notin swept
    /\ nonce \notin spent
    /\ swept' = swept \cup {a}
    /\ spent' = spent \cup {nonce}
    /\ nonce' \in Hash \ (spent' \cup {NoNonce})

Next == Create \/ \E a \in Address : Pay(a)

Spec == Init /\ [][Next]_vars

=============================================================================
