--------------------------- MODULE StealthAddress ---------------------------
(***************************************************************************)
(* Dual-key stealth addresses (src/src/stealth.rs) as operators.           *)
(*                                                                         *)
(* The points of Ed25519 form a cyclic group of 8 * L elements, of which   *)
(* the base point generates the L that a key pair can reach.  A point is   *)
(* its logarithm in that group, a scalar an integer below L, a public key  *)
(* a point or 32 bytes that are none.  The hash to a scalar is any         *)
(* function of the shared point.                                           *)
(***************************************************************************)
EXTENDS Integers

CONSTANTS
    L,      \* the order of the base point
    H       \* the scalar that SHA-512 makes of a compressed point

Order == 8 * L

Scalars == 0 .. L - 1
Points  == 0 .. Order - 1

ASSUME GroupAssumption == L \in Nat \ {0} /\ H \in [Points -> Scalars]

Undecodable == -1
PublicKeys  == Points \cup {Undecodable}

G == 8

ScalarMul(k, P) == (k * P) % Order
PointAdd(P, Q)  == (P + Q) % Order
ScalarAdd(a, b) == (a + b) % L

IsPoint(key) == key \in Points

PublicKey(k) == ScalarMul(k, G)

-----------------------------------------------------------------------------

Ok(key)    == [ok |-> TRUE, key |-> key, error |-> "none"]
Err(error) == [ok |-> FALSE, key |-> Undecodable, error |-> error]

(* hash_shared_secret refuses the identity; what follows gets the scalar.  *)
Degenerate(shared) == shared = 0

Blinded(shared, spend_point) ==
    IF Degenerate(shared) THEN Err("DegenerateSharedSecret")
    ELSE Ok(PointAdd(ScalarMul(H[shared], G), spend_point))

(* Sender: T = H(r V) G + S.                                               *)
DeriveOneTimeAddress(scan_pub, spend_pub, ephemeral_scalar) ==
    IF ~IsPoint(scan_pub) \/ ~IsPoint(spend_pub) THEN Err("InvalidPoint")
    ELSE Blinded(ScalarMul(ephemeral_scalar, scan_pub), spend_pub)

(* Mutant of RecomputeOneTimeAddress: hashes the ephemeral key itself.     *)
RecomputeWithoutScanKey(scan_priv, ephemeral_pub, spend_pub) ==
    IF ~IsPoint(ephemeral_pub) \/ ~IsPoint(spend_pub) THEN Err("InvalidPoint")
    ELSE Blinded(ephemeral_pub, spend_pub)

(* Recipient: T = H(v R) G + S.                                            *)
RecomputeOneTimeAddress(scan_priv, ephemeral_pub, spend_pub) ==
    IF ~IsPoint(ephemeral_pub) \/ ~IsPoint(spend_pub) THEN Err("InvalidPoint")
    ELSE Blinded(ScalarMul(scan_priv, ephemeral_pub), spend_pub)

(* Mutant of RecoverOneTimePrivkey: multiplies where it has to add.        *)
RecoverByMultiplying(scan_priv, ephemeral_pub, spend_priv) ==
    IF ~IsPoint(ephemeral_pub) THEN Err("InvalidPoint")
    ELSE LET shared == ScalarMul(scan_priv, ephemeral_pub)
         IN  IF Degenerate(shared) THEN Err("DegenerateSharedSecret")
             ELSE Ok((H[shared] * spend_priv) % L)

(* Signer: t = s + H(v R) mod L.                                           *)
RecoverOneTimePrivkey(scan_priv, ephemeral_pub, spend_priv) ==
    IF ~IsPoint(ephemeral_pub) THEN Err("InvalidPoint")
    ELSE LET shared == ScalarMul(scan_priv, ephemeral_pub)
         IN  IF Degenerate(shared) THEN Err("DegenerateSharedSecret")
             ELSE Ok(ScalarAdd(H[shared], spend_priv))

(* Mutant of ScalarFromHex: reduces mod L.                                 *)
ScalarFromHexReducing(hex) ==
    IF hex >= 0 THEN Ok(hex % L) ELSE Err("InvalidScalarHex")

(* A hex string is the number it encodes, or Undecodable when it is not 64 *)
(* hex digits; only canonical scalars are taken, nothing is reduced mod L. *)
ScalarFromHex(hex) == IF hex \in Scalars THEN Ok(hex) ELSE Err("InvalidScalarHex")

=============================================================================
