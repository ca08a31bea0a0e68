--------------------------- MODULE StealthProofs ----------------------------
(***************************************************************************)
(* Proofs about StealthAddress and StealthPayments, for any order L and    *)
(* any hash: first arithmetic modulo n, then the two identities the scheme *)
(* rests on (both sides derive one point, and the recovered key opens it), *)
(* then the invariants of the payments.                                    *)
(***************************************************************************)
EXTENDS StealthPayments, TLAPS

(* A multiple of n strictly between -n and n is 0.                         *)
LEMMA Gap ==
    ASSUME NEW n \in Nat \ {0}, NEW k \in Int, n * k < n, -n < n * k
    PROVE  k = 0
<1>1. CASE k >= 1
  <2>1. n * (k - 1) >= 0 BY <1>1, SMT
  <2> QED BY <2>1, SMT
<1>2. CASE k <= -1
  <2>1. n * (-1 - k) >= 0 BY <1>2, SMT
  <2> QED BY <2>1, SMT
<1> QED BY <1>1, <1>2, SMT

(* Division with remainder.                                                *)
LEMMA Division ==
    ASSUME NEW n \in Nat \ {0}, NEW a \in Int
    PROVE  /\ a \div n \in Int /\ a % n \in 0 .. n - 1
           /\ a = n * (a \div n) + (a % n)
BY SMT

(* The remainder is the only one.                                          *)
LEMMA ModUnique ==
    ASSUME NEW n \in Nat \ {0}, NEW q \in Int, NEW r \in 0 .. n - 1,
           NEW x \in Int, x = n * q + r
    PROVE  x % n = r
<1> DEFINE d == x \div n
           s == x % n
<1>1. d \in Int /\ s \in 0 .. n - 1 /\ x = n * d + s BY Division
<1> HIDE DEF d, s
<1>2. n * (q - d) = n * q - n * d BY <1>1, SMT
<1>3. n * (q - d) = s - r BY <1>1, <1>2, SMT
<1>4. n * (q - d) < n /\ -n < n * (q - d) BY <1>1, <1>3, SMT
<1>5. q - d \in Int BY <1>1
<1>6. q - d = 0 BY <1>4, <1>5, Gap
<1>7. s = r BY <1>1, <1>3, <1>6, SMT
<1> QED BY <1>7 DEF s

(* Numbers that differ by a multiple of n have one remainder.  The two are *)
(* named so that a solver need not look into them to use the lemma.        *)
Shifted(n, q, x, y)    == y = n * q + x
SameRemainder(n, x, y) == y % n = x % n

LEMMA ModShift ==
    ASSUME NEW n \in Nat \ {0}, NEW q \in Int, NEW x \in Int, NEW y \in Int,
           Shifted(n, q, x, y)
    PROVE  SameRemainder(n, x, y)
<1> DEFINE d == x \div n
           s == x % n
<1>1. d \in Int /\ s \in 0 .. n - 1 /\ x = n * d + s BY Division
<1> HIDE DEF d, s
<1>2. n * (q + d) = n * q + n * d BY <1>1, SMT
<1>3. y = n * (q + d) + s BY <1>1, <1>2, SMT DEF Shifted
<1>4. q + d \in Int BY <1>1
<1>5. y % n = s BY <1>1, <1>3, <1>4, ModUnique
<1> QED BY <1>5 DEF s, SameRemainder

(* Reducing a factor first changes nothing.                                *)
LEMMA MulMod ==
    ASSUME NEW n \in Nat \ {0}, NEW k \in Int, NEW a \in Int
    PROVE  (k * (a % n)) % n = (k * a) % n
<1> DEFINE d == a \div n
           s == a % n
<1>1. d \in Int /\ s \in 0 .. n - 1 /\ a = n * d + s BY Division
<1> HIDE DEF d, s
<1>2. k * a = n * (k * d) + k * s BY <1>1, SMT
<1>3. k * d \in Int /\ k * s \in Int /\ k * a \in Int BY <1>1, SMT
<1> DEFINE x == k * s
           y == k * a
           q == k * d
<1>4. Shifted(n, q, x, y) BY <1>2 DEF Shifted
<1>5. q \in Int /\ x \in Int /\ y \in Int BY <1>3
<1> HIDE DEF x, y, q
<1>6. SameRemainder(n, x, y) BY <1>4, <1>5, ModShift
<1> QED BY <1>6 DEF s, x, y, SameRemainder

(* Nor does reducing both summands.                                        *)
LEMMA AddMod ==
    ASSUME NEW n \in Nat \ {0}, NEW a \in Int, NEW b \in Int
    PROVE  ((a % n) + (b % n)) % n = (a + b) % n
<1> DEFINE d == a \div n
           s == a % n
           e == b \div n
           t == b % n
<1>1. d \in Int /\ s \in 0 .. n - 1 /\ a = n * d + s BY Division
<1>2. e \in Int /\ t \in 0 .. n - 1 /\ b = n * e + t BY Division
<1> HIDE DEF d, s, e, t
<1>3. n * (d + e) = n * d + n * e BY <1>1, <1>2, SMT
<1> DEFINE x == s + t
           y == a + b
           q == d + e
<1>4. Shifted(n, q, x, y) BY <1>1, <1>2, <1>3, SMT DEF Shifted
<1>5. q \in Int /\ x \in Int /\ y \in Int BY <1>1, <1>2
<1> HIDE DEF x, y, q
<1>6. SameRemainder(n, x, y) BY <1>4, <1>5, ModShift
<1> QED BY <1>6 DEF s, t, x, y, SameRemainder

-----------------------------------------------------------------------------

LEMMA GroupOrder == L \in Nat \ {0} /\ Order \in Nat \ {0}
BY GroupAssumption DEF Order

LEMMA ScalarMulType ==
    ASSUME NEW k \in Int, NEW P \in Int
    PROVE  ScalarMul(k, P) \in Points
<1>1. k * P \in Int OBVIOUS
<1> QED BY <1>1, GroupOrder, Division DEF ScalarMul, Points

LEMMA PointAddType ==
    ASSUME NEW P \in Int, NEW Q \in Int
    PROVE  PointAdd(P, Q) \in Points
<1>1. P + Q \in Int OBVIOUS
<1> QED BY <1>1, GroupOrder, Division DEF PointAdd, Points

LEMMA PublicKeyType == ASSUME NEW k \in Int PROVE PublicKey(k) \in Points
BY ScalarMulType DEF PublicKey, G

LEMMA PointsAreIntegers == Points \subseteq Int /\ Scalars \subseteq Int
BY GroupOrder DEF Points, Scalars

LEMMA UndecodableIsNoPoint == Undecodable \notin Points
BY GroupOrder DEF Points, Undecodable

(* r V = v R: the sender's shared point is the recipient's (stealth.rs:9). *)
LEMMA SharedPoint ==
    ASSUME NEW r \in Int, NEW v \in Int
    PROVE  ScalarMul(r, PublicKey(v)) = ScalarMul(v, PublicKey(r))
<1>1. v * 8 \in Int /\ r * 8 \in Int OBVIOUS
<1>2. ScalarMul(r, PublicKey(v)) = (r * (v * 8)) % Order
  BY <1>1, GroupOrder, MulMod DEF ScalarMul, PublicKey, G
<1>3. ScalarMul(v, PublicKey(r)) = (v * (r * 8)) % Order
  BY <1>1, GroupOrder, MulMod DEF ScalarMul, PublicKey, G
<1>4. r * (v * 8) = v * (r * 8) BY SMT
<1> QED BY <1>2, <1>3, <1>4

(* The two sides of a payment agree, on an address or on an error: what    *)
(* derive_one_time_address gives the sender recompute_one_time_address     *)
(* gives the recipient, for every pair of keys and every ephemeral scalar. *)
THEOREM SidesAgree ==
    ASSUME NEW r \in Int, NEW v \in Int, NEW S \in PublicKeys
    PROVE  DeriveOneTimeAddress(PublicKey(v), S, r)
             = RecomputeOneTimeAddress(v, PublicKey(r), S)
<1>1. IsPoint(PublicKey(v)) /\ IsPoint(PublicKey(r)) BY PublicKeyType DEF IsPoint
<1>2. ScalarMul(r, PublicKey(v)) = ScalarMul(v, PublicKey(r)) BY SharedPoint
<1> QED BY <1>1, <1>2 DEF DeriveOneTimeAddress, RecomputeOneTimeAddress

(* Adding the logarithms mod L is adding the points: (c + s) G = c G + s G.*)
LEMMA KeysAdd ==
    ASSUME NEW c \in Int, NEW s \in Int
    PROVE  PublicKey(ScalarAdd(c, s)) = PointAdd(ScalarMul(c, G), PublicKey(s))
<1> DEFINE x == c + s
           q == x \div L
           t == x % L
<1>1. x \in Int OBVIOUS
<1>2. q \in Int /\ t \in 0 .. L - 1 /\ x = L * q + t BY <1>1, GroupOrder, Division
<1>3. ScalarAdd(c, s) = t BY DEF ScalarAdd
<1>4. PointAdd(ScalarMul(c, G), PublicKey(s)) = (c * 8 + s * 8) % Order
  <2>1. c * 8 \in Int /\ s * 8 \in Int OBVIOUS
  <2> QED BY <2>1, GroupOrder, AddMod DEF PointAdd, ScalarMul, PublicKey, G
<1>5. c * 8 + s * 8 = x * 8 OBVIOUS
<1> HIDE DEF x, q, t
<1>6. x * 8 = Order * q + t * 8
  <2>1. x * 8 = (L * q + t) * 8 BY <1>2
  <2>2. (L * q + t) * 8 = (8 * L) * q + t * 8 BY <1>2, GroupOrder, SMT
  <2> QED BY <2>1, <2>2 DEF Order
<1> DEFINE y == x * 8
           z == t * 8
<1>7. z \in Int /\ y \in Int BY <1>1, <1>2
<1>8. (x * 8) % Order = (t * 8) % Order
  <2>1. Shifted(Order, q, z, y) BY <1>6 DEF Shifted
  <2> HIDE DEF y, z
  <2>2. Order \in Nat \ {0} /\ q \in Int /\ y \in Int /\ z \in Int BY <1>2, <1>7, GroupOrder
  <2>3. SameRemainder(Order, z, y) BY <2>1, <2>2, ModShift
  <2> QED BY <2>3 DEF y, z, SameRemainder
<1>9. PublicKey(t) = (t * 8) % Order BY DEF PublicKey, ScalarMul, G
<1> QED BY <1>3, <1>4, <1>5, <1>8, <1>9

(* The key opens the address: whatever key was published (on the curve or  *)
(* not, in the base point's subgroup or not), recover_one_time_privkey     *)
(* succeeds exactly when recompute_one_time_address does, and its scalar's *)
(* public key is that address.                                             *)
THEOREM KeyOpensAddress ==
    ASSUME NEW v \in Int, NEW s \in Int, NEW R \in PublicKeys
    PROVE  LET address == RecomputeOneTimeAddress(v, R, PublicKey(s))
               t       == RecoverOneTimePrivkey(v, R, s)
           IN  /\ t.ok = address.ok
               /\ t.ok => /\ t.key \in Scalars
                          /\ address.key = PublicKey(t.key)
<1> DEFINE address == RecomputeOneTimeAddress(v, R, PublicKey(s))
           t       == RecoverOneTimePrivkey(v, R, s)
           shared  == ScalarMul(v, R)
<1>1. IsPoint(PublicKey(s)) BY PublicKeyType DEF IsPoint
<1>2. CASE ~IsPoint(R)
  BY <1>2 DEF RecomputeOneTimeAddress, RecoverOneTimePrivkey, Err
<1>3. CASE IsPoint(R) /\ Degenerate(shared)
  BY <1>1, <1>3 DEF RecomputeOneTimeAddress, RecoverOneTimePrivkey, Blinded, Err
<1>4. CASE IsPoint(R) /\ ~Degenerate(shared)
  <2>1. shared \in Points BY <1>4, PointsAreIntegers, ScalarMulType DEF IsPoint
  <2>2. H[shared] \in Int BY <2>1, GroupAssumption, PointsAreIntegers
  <2>3. t = Ok(ScalarAdd(H[shared], s)) BY <1>4 DEF RecoverOneTimePrivkey
  <2>4. address = Ok(PointAdd(ScalarMul(H[shared], G), PublicKey(s)))
    BY <1>1, <1>4 DEF RecomputeOneTimeAddress, Blinded
  <2> HIDE DEF shared
  <2>5. H[shared] + s \in Int BY <2>2
  <2>6. ScalarAdd(H[shared], s) \in Scalars
    BY <2>5, GroupOrder, Division DEF ScalarAdd, Scalars
  <2> QED BY <2>2, <2>3, <2>4, <2>6, KeysAdd DEF Ok
<1> QED BY <1>2, <1>3, <1>4

-----------------------------------------------------------------------------

(* A report is what recompute_one_time_address returns for a published key.*)
ReportsAreRecomputed ==
    \A f \in found :
        /\ f.ephemeral \in announced
        /\ RecomputeOneTimeAddress(scan, f.ephemeral, spend_pub) = Ok(f.address)

IInv == TypeOK /\ NothingMissed /\ ReportsAreRecomputed /\ SignedByAddressOnly

LEMMA AddressIsPoint ==
    ASSUME NEW shared \in Points, NEW S \in Points
    PROVE  LET a == Blinded(shared, S) IN a.ok => a = Ok(a.key) /\ a.key \in Points
<1> DEFINE P == ScalarMul(H[shared], G)
<1>1. H[shared] \in Int BY GroupAssumption, PointsAreIntegers
<1>2. P \in Points BY <1>1, ScalarMulType DEF G
<1> HIDE DEF P
<1>3. PointAdd(P, S) \in Points BY <1>2, PointsAreIntegers, PointAddType
<1>4. CASE Degenerate(shared) BY <1>4 DEF Blinded, Err
<1>5. CASE ~Degenerate(shared) BY <1>3, <1>5 DEF Blinded, Ok, P
<1> QED BY <1>4, <1>5

(* What either side returns is an error or a point.                        *)
LEMMA DerivedIsPoint ==
    ASSUME NEW r \in Int, NEW V \in Points, NEW S \in Points
    PROVE  /\ LET a == DeriveOneTimeAddress(V, S, r) IN
                a.ok => a = Ok(a.key) /\ a.key \in Points
           /\ LET a == RecomputeOneTimeAddress(r, V, S) IN
                a.ok => a = Ok(a.key) /\ a.key \in Points
<1> DEFINE shared == ScalarMul(r, V)
<1>1. shared \in Points BY PointsAreIntegers, ScalarMulType
<1>2. DeriveOneTimeAddress(V, S, r) = Blinded(shared, S)
  BY DEF DeriveOneTimeAddress, IsPoint
<1>3. RecomputeOneTimeAddress(r, V, S) = Blinded(shared, S)
  BY DEF RecomputeOneTimeAddress, IsPoint
<1> HIDE DEF shared
<1> QED BY <1>1, <1>2, <1>3, AddressIsPoint

LEMMA RecomputeNeedsPoint ==
    ASSUME NEW v, NEW R, NEW S, RecomputeOneTimeAddress(v, R, S).ok
    PROVE  IsPoint(R)
BY DEF RecomputeOneTimeAddress, Err

(* One step of each action.                                                *)
LEMMA PayKeeps ==
    ASSUME IInv, NEW r \in Drawn, Pay(r)
    PROVE  IInv'
<1> DEFINE address == DeriveOneTimeAddress(scan_pub, spend_pub, r)
           p == [ephemeral |-> PublicKey(r), address |-> address.key]
<1>1. r \in Int /\ scan \in Int /\ spend \in Int
  BY DrawAssumption, PointsAreIntegers DEF IInv, TypeOK
<1>2. scan_pub \in Points /\ spend_pub \in Points /\ PublicKey(r) \in Points
  BY <1>1, PublicKeyType DEF scan_pub, spend_pub
<1>3. address = Ok(address.key) /\ address.key \in Points
  BY <1>1, <1>2, DerivedIsPoint DEF Pay
<1>4. RecomputeOneTimeAddress(scan, PublicKey(r), spend_pub) = address
  BY <1>1, <1>2, SidesAgree DEF scan_pub, PublicKeys
<1> HIDE DEF address
<1>5. payments' = payments \cup {p} /\ funded' = funded \cup {p.address}
  BY DEF Pay, address
<1>6. p \in Seen BY <1>2, <1>3 DEF Seen
<1>7. UNCHANGED <<scan, spend, announced, foreign, found, signed, typed>> BY DEF Pay
<1>8. TypeOK' BY <1>5, <1>6, <1>7 DEF IInv, TypeOK
<1>9. NothingMissed' BY <1>3, <1>4, <1>5, <1>7 DEF IInv, NothingMissed, spend_pub
<1>10. ReportsAreRecomputed' /\ SignedByAddressOnly'
  BY <1>7 DEF IInv, ReportsAreRecomputed, SignedByAddressOnly, spend_pub
<1> QED BY <1>8, <1>9, <1>10 DEF IInv

LEMMA PublishKeeps ==
    ASSUME IInv, NEW key \in PublicKeys, NEW count \in 0 .. MaxForeign,
           announced' = announced \cup {key}, foreign' = count,
           UNCHANGED <<scan, spend, payments, funded, found, signed, typed>>
    PROVE  IInv'
BY DEF IInv, TypeOK, NothingMissed, ReportsAreRecomputed, SignedByAddressOnly, spend_pub

LEMMA ScanKeeps ==
    ASSUME IInv, NEW key \in announced, Scan(key)
    PROVE  IInv'
<1> DEFINE address == RecomputeOneTimeAddress(scan, key, spend_pub)
           f == [ephemeral |-> key, address |-> address.key]
<1>1. scan \in Int /\ spend \in Int BY PointsAreIntegers DEF IInv, TypeOK
<1>2. spend_pub \in Points BY <1>1, PublicKeyType DEF spend_pub
<1>3. key \in Points BY RecomputeNeedsPoint DEF Scan, IsPoint
<1>4. address = Ok(address.key) /\ address.key \in Points
  BY <1>1, <1>2, <1>3, DerivedIsPoint DEF Scan
<1> HIDE DEF address
<1>5. found' = found \cup {f} BY DEF Scan, address
<1>6. f \in Seen BY <1>3, <1>4 DEF Seen
<1>7. UNCHANGED <<scan, spend, payments, funded, announced, foreign, signed, typed>> BY DEF Scan
<1>8. TypeOK' BY <1>5, <1>6, <1>7 DEF IInv, TypeOK
<1>9. ReportsAreRecomputed'
  BY <1>4, <1>5, <1>7 DEF IInv, ReportsAreRecomputed, spend_pub, address
<1>10. NothingMissed' /\ SignedByAddressOnly'
  BY <1>7 DEF IInv, NothingMissed, SignedByAddressOnly, spend_pub
<1> QED BY <1>8, <1>9, <1>10 DEF IInv

(* The only required signer a recovered key can be is the address.         *)
LEMMA SignKeeps ==
    ASSUME IInv, NEW f \in found, NEW x, NEW y, NEW key \in announced,
           Sign(f.address, x, key, y)
    PROVE  IInv'
<1> DEFINE t  == Recovered(x, key, y)
           by == PublicKey(t.key)
<1>1. f.address \in Points BY DEF IInv, TypeOK, Seen
<1>2. by \in Points
  <2>1. t.ok BY DEF Sign
  <2>2. x \in Scalars /\ y \in Scalars /\ t = RecoverOneTimePrivkey(x, key, y)
    BY <2>1 DEF Recovered, ScalarFromHex, Err
  <2>3. key \in PublicKeys BY DEF IInv, TypeOK
  <2>4. x \in Int /\ y \in Int BY <2>2, PointsAreIntegers
  <2>5. t.key \in Scalars BY <2>1, <2>2, <2>3, <2>4, KeyOpensAddress
  <2> QED BY <2>5, PointsAreIntegers, PublicKeyType
<1> HIDE DEF t
<1>3. PICK m \in SweepsOf(f.address) :
        /\ HasSlot(NewUnsigned(m), by)
        /\ signed' = signed \cup
             {Serialize(InsertSignature(NewUnsigned(m), by, SignMessage(by, MessageBytes(m))))}
  BY DEF Sign, t
<1>4. UNCHANGED <<scan, spend, payments, funded, announced, foreign, found>> BY DEF Sign
<1> HIDE DEF by
<1>5. m.signers \in {<<f.address, Authority>>, <<Authority, f.address>>}
  BY <1>3 DEF SweepsOf
<1>6. Authority \notin Points BY DrawAssumption DEF PublicKeys
<1>7. by = f.address
  <2>1. PICK i \in 1 .. Len(m.signers) : m.signers[i] = by
    BY <1>3 DEF HasSlot, IsRequiredSigner, NewUnsigned
  <2> QED BY <2>1, <1>2, <1>5, <1>6
<1> DEFINE k == SlotOf(m, by)
           w == Serialize(InsertSignature(NewUnsigned(m), by, SignMessage(by, MessageBytes(m))))
<1>8. k \in 1 .. 2 /\ m.signers[k] = by /\ Len(m.signers) = 2
  <2>1. \E i \in 1 .. 2 : m.signers[i] = by /\ \A j \in 1 .. i - 1 : m.signers[j] # by
    <3>1. CASE m.signers = <<f.address, Authority>>
      <4>1. m.signers[1] = by /\ \A j \in 1 .. 1 - 1 : m.signers[j] # by BY <1>7, <3>1
      <4> QED BY <4>1
    <3>2. CASE m.signers = <<Authority, f.address>>
      <4>1. m.signers[2] = by /\ \A j \in 1 .. 2 - 1 : m.signers[j] # by
        BY <1>1, <1>6, <1>7, <3>2
      <4> QED BY <4>1
    <3> QED BY <1>5, <3>1, <3>2
  <2>2. Len(m.signers) = 2 BY <1>5
  <2> QED BY <2>1, <2>2 DEF SlotOf
<1> HIDE DEF k
<1>9. /\ w.bytes = MessageBytes(m) /\ w.bytes.message = m
      /\ \A i \in 1 .. 2 : w.signatures[i] =
            IF i = k THEN SignMessage(by, MessageBytes(m)) ELSE NoSignature
  BY <1>8 DEF Serialize, InsertSignature, NewUnsigned, MessageBytes, k
<1> HIDE DEF w
<1>10. \A i \in 1 .. 2 : m.signers[i] = Authority <=> i # k
  BY <1>1, <1>5, <1>6, <1>7, <1>8
<1>11. \A i \in 1 .. Len(w.bytes.message.signers) :
          w.signatures[i] = IF w.bytes.message.signers[i] = Authority THEN NoSignature
                            ELSE SignMessage(w.bytes.message.signers[i], w.bytes)
  BY <1>8, <1>9, <1>10
<1>12. typed' \subseteq Scalars
  <2>1. t.ok /\ typed' = {x, y} BY DEF Sign, t
  <2> QED BY <2>1 DEF t, Recovered, ScalarFromHex, Err
<1>13. SignedByAddressOnly'
  BY <1>3, <1>11, <1>12 DEF IInv, SignedByAddressOnly, w
<1>14. TypeOK' /\ NothingMissed' /\ ReportsAreRecomputed'
  BY <1>4 DEF IInv, TypeOK, NothingMissed, ReportsAreRecomputed, spend_pub
<1> QED BY <1>13, <1>14 DEF IInv

(* The inductive invariant: what was paid and what is reported is what the *)
(* recipient recomputes, and what is signed carries the right signature.   *)
THEOREM Invariant == Spec => []IInv
<1>1. Init => IInv
  BY DrawAssumption DEF Init, IInv, TypeOK, NothingMissed, ReportsAreRecomputed, SignedByAddressOnly
<1>2. IInv /\ [Next]_vars => IInv'
  <2> SUFFICES ASSUME IInv, [Next]_vars PROVE IInv'
    OBVIOUS
  <2>1. ASSUME NEW r \in Drawn, Pay(r) PROVE IInv' BY <2>1, PayKeeps
  <2>2. ASSUME NEW p \in payments, Announce(p) PROVE IInv'
    <3>1. p.ephemeral \in PublicKeys BY DEF IInv, TypeOK, Seen, PublicKeys
    <3>2. foreign \in 0 .. MaxForeign BY DEF IInv, TypeOK
    <3> QED BY <2>2, <3>1, <3>2, PublishKeeps DEF Announce
  <2>3. ASSUME NEW key \in Foreign, AnnounceForeign(key) PROVE IInv'
    <3>1. key \in PublicKeys BY DrawAssumption
    <3>2. foreign + 1 \in 0 .. MaxForeign
      BY <2>3, DrawAssumption DEF IInv, TypeOK, AnnounceForeign
    <3> QED BY <2>3, <3>1, <3>2, PublishKeeps DEF AnnounceForeign
  <2>4. ASSUME NEW key \in announced, Scan(key) PROVE IInv' BY <2>4, ScanKeeps
  <2>5. ASSUME NEW f \in found, NEW x \in Typed, NEW y \in Typed, NEW key \in announced,
               Sign(f.address, x, key, y) PROVE IInv'
    BY <2>5, SignKeeps
  <2>6. CASE UNCHANGED vars
    BY <2>6 DEF vars, IInv, TypeOK, NothingMissed, ReportsAreRecomputed,
                SignedByAddressOnly, spend_pub
  <2> QED BY <2>1, <2>2, <2>3, <2>4, <2>5, <2>6 DEF Next
<1> QED BY <1>1, <1>2, PTL DEF Spec

(* Shapes of the variables, for every group and every draw.                *)
THEOREM TypeCorrect == Spec => []TypeOK
<1>1. IInv => TypeOK BY DEF IInv
<1> QED BY <1>1, Invariant, PTL

(* No payment is missed, however late, repeated or buried its key is.      *)
THEOREM EveryPaymentRecomputable == Spec => []NothingMissed
<1>1. IInv => NothingMissed BY DEF IInv
<1> QED BY <1>1, Invariant, PTL

(* Every reported payment can be spent with the recipient's two keys.      *)
THEOREM ReportedIsSpendable == Spec => []Spendable
<1>1. IInv => Spendable
  <2> SUFFICES ASSUME IInv, NEW f \in found
               PROVE  LET t == RecoverOneTimePrivkey(scan, f.ephemeral, spend)
                      IN  t.ok /\ PublicKey(t.key) = f.address
    BY DEF Spendable
  <2>1. scan \in Int /\ spend \in Int BY PointsAreIntegers DEF IInv, TypeOK
  <2>2. f.ephemeral \in PublicKeys BY DEF IInv, TypeOK, ReportsAreRecomputed
  <2>3. RecomputeOneTimeAddress(scan, f.ephemeral, PublicKey(spend)) = Ok(f.address)
    BY DEF IInv, ReportsAreRecomputed, spend_pub
  <2> QED BY <2>1, <2>2, <2>3, KeyOpensAddress DEF Ok
<1> QED BY <1>1, Invariant, PTL

(* Mistyped keys never sign, the right ones fill the right slot, and no    *)
(* string is reduced to a key.                                             *)
THEOREM OnlyTheAddressSigns == Spec => []SignedByAddressOnly
<1>1. IInv => SignedByAddressOnly BY DEF IInv
<1> QED BY <1>1, Invariant, PTL

=============================================================================
