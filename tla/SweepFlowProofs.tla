-------------------------- MODULE SweepFlowProofs ---------------------------
(***************************************************************************)
(* Proofs about SweepFlow, for any sets of addresses and runs, any bounds  *)
(* and either fee payer.                                                   *)
(***************************************************************************)
EXTENDS SweepFlowInductive, TLAPS

-----------------------------------------------------------------------------
(* Chains.                                                                 *)

(* Adding a block that follows its last one keeps a chain in order         *)
(* (external: the cluster's blocks).                                       *)
LEMMA ChainGrows ==
    ASSUME NEW c \in Seq(Blocks), ChainOK(c),
           NEW b \in Blocks, Follows(c[Len(c)], b)
    PROVE  ChainOK(Append(c, b))
<1> DEFINE d == Append(c, b)
           n == Len(c)
<1>1. /\ n \in Nat \ {0}
      /\ Len(d) = n + 1
      /\ d[n + 1] = b
      /\ \A i \in 1 .. n : d[i] = c[i] /\ c[i] \in Blocks
  BY DEF ChainOK, GenesisOK
<1> HIDE DEF d, n
<1>2. /\ \A i \in 1 .. n : c[i].slot \in Nat /\ c[i].nonce \in Hash /\ c[i].nonce.slot \in Nat
      /\ b.slot \in Nat /\ b.nonce \in Hash /\ b.nonce.slot \in Nat
  BY <1>1 DEF Blocks, Hash
<1>3. GenesisOK(d)
  BY <1>1 DEF ChainOK, GenesisOK, n
<1>4. Linked(d)
  BY <1>1 DEF ChainOK, Linked, n
<1>5. /\ c[n].nonce.slot <= c[n].slot
      /\ c[n].slot < b.slot
      /\ b.nonce = c[n].nonce \/ b.nonce = DurableNonce(b.slot)
      /\ b.nonce = c[n].nonce \/ (b.nonce.slot = b.slot /\ b.nonce # c[n].nonce)
  BY <1>1, <1>2 DEF ChainOK, NoncesGrow, Follows, DurableNonce, n
<1>6. /\ c[n].nonce.slot <= b.nonce.slot
      /\ b.nonce.slot <= b.slot
      /\ b.nonce # c[n].nonce => c[n].nonce.slot < b.nonce.slot
  BY <1>1, <1>2, <1>5
<1>7. NoncesGrow(d)
  <2>1. \A i \in 1 .. n : c[i].nonce.slot <= b.nonce.slot
    BY <1>1, <1>2, <1>6 DEF ChainOK, NoncesGrow, n
  <2>2. \A i \in 1 .. Len(d) : d[i].nonce.slot <= d[i].slot
    BY <1>1, <1>6 DEF ChainOK, NoncesGrow, n
  <2>3. \A i, j \in 1 .. Len(d) : i <= j => d[i].nonce.slot <= d[j].nonce.slot
    BY <1>1, <1>2, <2>1 DEF ChainOK, NoncesGrow, n
  <2>4. b.nonce = NoNonce \/ b.nonce = DurableNonce(b.nonce.slot)
    BY <1>1, <1>5 DEF ChainOK, NoncesGrow, DurableNonce, n
  <2>5. \A i \in 1 .. Len(d) : d[i].nonce = NoNonce \/ d[i].nonce = DurableNonce(d[i].nonce.slot)
    BY <1>1, <2>4 DEF ChainOK, NoncesGrow, n
  <2> QED BY <2>2, <2>3, <2>5 DEF NoncesGrow
<1>8. GoneIsSpent(d)
  <2> SUFFICES ASSUME NEW i \in 1 .. Len(d), NEW j \in 1 .. Len(d), i < j,
                      d[i].nonce # NoNonce, d[i].nonce # d[j].nonce
               PROVE  \E l \in i + 1 .. j : d[l].tx # NoTx /\ HashOf(d[l].tx) = d[i].nonce
    BY DEF GoneIsSpent
  <2>1. CASE j <= n
    <3>1. \E l \in i + 1 .. j : c[l].tx # NoTx /\ HashOf(c[l].tx) = c[i].nonce
      BY <1>1, <2>1 DEF ChainOK, GoneIsSpent, n
    <3> QED BY <1>1, <2>1, <3>1
  <2>2. CASE j = n + 1 /\ c[i].nonce = c[n].nonce
    <3>1. b.nonce # c[n].nonce /\ c[n].nonce # NoNonce
      BY <1>1, <2>2
    <3>2. b.tx # NoTx /\ HashOf(b.tx) = c[n].nonce
      BY <3>1 DEF Follows, n
    <3> QED BY <1>1, <2>2, <3>2
  <2>3. CASE j = n + 1 /\ c[i].nonce # c[n].nonce
    <3>1. i < n
      BY <1>1, <2>3
    <3>2. \E l \in i + 1 .. n : c[l].tx # NoTx /\ HashOf(c[l].tx) = c[i].nonce
      BY <1>1, <2>3, <3>1 DEF ChainOK, GoneIsSpent, n
    <3> QED BY <1>1, <2>3, <3>1, <3>2
  <2> QED BY <1>1, <2>1, <2>2, <2>3
<1>9. NonceFixesSwept(d)
  <2>1. ASSUME NEW i \in 1 .. n, c[i].nonce # NoNonce, c[i].nonce = b.nonce
        PROVE  c[i].swept = b.swept
    <3>1. c[i].nonce.slot <= c[n].nonce.slot
      BY <1>1, <2>1 DEF ChainOK, NoncesGrow, n
    <3>2. b.nonce = c[n].nonce
      BY <1>1, <1>2, <1>6, <2>1, <3>1
    <3>3. b.swept = c[n].swept
      BY <1>1, <1>2, <1>5, <3>2 DEF Follows, DurableNonce, n
    <3>4. c[i].swept = c[n].swept
      BY <1>1, <2>1, <3>2 DEF ChainOK, NonceFixesSwept, n
    <3> QED BY <3>3, <3>4
  <2> QED BY <1>1, <2>1 DEF ChainOK, NonceFixesSwept, n
<1>10. SpentIsOlder(d)
  <2>1. ASSUME b.tx # NoTx PROVE HashOf(b.tx).slot < b.nonce.slot
    BY <1>1, <1>2, <1>5, <1>6, <2>1 DEF Follows, DurableNonce, n
  <2>2. ASSUME NEW i \in 1 .. n, c[i].tx # NoTx PROVE HashOf(c[i].tx).slot < b.nonce.slot
    <3>1. HashOf(c[i].tx).slot < c[n].nonce.slot
      BY <1>1, <2>2 DEF ChainOK, SpentIsOlder, n
    <3>2. HashOf(c[i].tx).slot \in Nat
      <4>1. c[i].tx \in Wires
        BY <1>1, <2>2 DEF Blocks
      <4> QED BY <4>1 DEF Wires, Messages, Hash, HashOf, MessageOf
    <3> QED BY <1>1, <1>2, <1>6, <3>1, <3>2
  <2> QED BY <1>1, <2>1, <2>2 DEF ChainOK, SpentIsOlder, n
<1>11. SweptByLanded(d)
  <2>1. ASSUME NEW a \in b.swept
        PROVE  \E i \in 1 .. n + 1 : d[i].tx # NoTx /\ From(MessageOf(d[i].tx)) = a
    <3>1. a \in c[n].swept \/ (b.tx # NoTx /\ a = From(MessageOf(b.tx)))
      BY <2>1 DEF Follows, n
    <3>2. ASSUME a \in c[n].swept
          PROVE  \E i \in 1 .. n : c[i].tx # NoTx /\ From(MessageOf(c[i].tx)) = a
      BY <1>1, <3>2 DEF ChainOK, SweptByLanded, n
    <3> QED BY <1>1, <3>1, <3>2
  <2>2. ASSUME NEW k \in 1 .. n, NEW a \in c[k].swept
        PROVE  \E i \in 1 .. k : d[i].tx # NoTx /\ From(MessageOf(d[i].tx)) = a
    BY <1>1, <2>2 DEF ChainOK, SweptByLanded, n
  <2> QED BY <1>1, <2>1, <2>2 DEF SweptByLanded
<1> QED BY <1>3, <1>4, <1>7, <1>8, <1>9, <1>10, <1>11 DEF ChainOK, d

(* What is left of a chain when its end is abandoned is in order           *)
(* (external: the cluster's forks).                                        *)
LEMMA ChainShrinks ==
    ASSUME NEW c \in Seq(Blocks), ChainOK(c), NEW n \in 1 .. Len(c)
    PROVE  ChainOK(SubSeq(c, 1, n))
<1> DEFINE d == SubSeq(c, 1, n)
<1>1. /\ Len(c) \in Nat /\ n \in Nat
      /\ Len(d) = n
      /\ \A i \in 1 .. n : d[i] = c[i]
  OBVIOUS
<1> HIDE DEF d
<1> DEFINE W == 1 .. Len(d)
<1>0. /\ GenesisOK(c) /\ Linked(c) /\ NoncesGrow(c) /\ GoneIsSpent(c)
      /\ 1 \in W /\ Len(d) > 0 /\ W = 1 .. n
      /\ \A i \in W : i \in 1 .. Len(c) /\ d[i] = c[i]
  BY <1>1 DEF ChainOK
<1>2. GenesisOK(d) /\ Linked(d)
  <2>1. GenesisOK(d)
    BY <1>0 DEF GenesisOK
  <2>2. \A i \in 2 .. Len(d) : i \in 2 .. Len(c) /\ d[i - 1] = c[i - 1] /\ d[i] = c[i]
    BY <1>1
  <2> QED BY <1>0, <2>1, <2>2 DEF Linked
<1>3. NoncesGrow(d)
  <2> HIDE DEF W
  <2>1. /\ \A i \in W : d[i].nonce.slot <= d[i].slot
        /\ \A i \in W : d[i].nonce = NoNonce \/ d[i].nonce = DurableNonce(d[i].nonce.slot)
    BY <1>0 DEF NoncesGrow
  <2>2. \A i, j \in W : i <= j => d[i].nonce.slot <= d[j].nonce.slot
    BY <1>0 DEF NoncesGrow
  <2> QED BY <2>1, <2>2 DEF NoncesGrow, W
<1>4. GoneIsSpent(d)
  <2> SUFFICES ASSUME NEW i \in 1 .. n, NEW j \in 1 .. n, i < j,
                      d[i].nonce # NoNonce, d[i].nonce # d[j].nonce
               PROVE  \E l \in i + 1 .. j : d[l].tx # NoTx /\ HashOf(d[l].tx) = d[i].nonce
    BY <1>1 DEF GoneIsSpent
  <2>1. \E l \in i + 1 .. j : c[l].tx # NoTx /\ HashOf(c[l].tx) = c[i].nonce
    <3>1. /\ i \in 1 .. Len(c) /\ j \in 1 .. Len(c)
          /\ c[i].nonce # NoNonce /\ c[i].nonce # c[j].nonce
          /\ d[i] = c[i]
      BY <1>1
    <3> QED BY <1>0, <3>1 DEF GoneIsSpent
  <2> QED BY <1>1, <2>1
<1>5. NonceFixesSwept(d)
  BY <1>1 DEF ChainOK, NonceFixesSwept
<1>6. SpentIsOlder(d)
  BY <1>1 DEF ChainOK, SpentIsOlder
<1>7. SweptByLanded(d)
  <2> SUFFICES ASSUME NEW k \in 1 .. n, NEW a \in d[k].swept
               PROVE  \E i \in 1 .. k : d[i].tx # NoTx /\ From(MessageOf(d[i].tx)) = a
    BY <1>1 DEF SweptByLanded
  <2>1. \E i \in 1 .. k : c[i].tx # NoTx /\ From(MessageOf(c[i].tx)) = a
    BY <1>1 DEF ChainOK, SweptByLanded
  <2> QED BY <1>1, <2>1
<1> QED BY <1>2, <1>3, <1>4, <1>5, <1>6, <1>7 DEF ChainOK, d

-----------------------------------------------------------------------------
(* Messages and signatures.                                                *)

(* Two one-element sequences, concatenated (message.rs, `all.push` and     *)
(* `extend_from_slice`).                                                   *)
LEMMA PairOfSingletons ==
    ASSUME NEW x, NEW y
    PROVE  <<x>> \o <<y>> = <<x, y>>
<1> DEFINE z == <<x>> \o <<y>>
<1>1. <<x>> \in Seq({x, y}) /\ <<y>> \in Seq({x, y}) /\ Len(<<x>>) = 1 /\ Len(<<y>>) = 1
  OBVIOUS
<1>2. z \in Seq({x, y}) /\ Len(z) = 2
  BY <1>1
<1>3. z[1] = x /\ z[2] = y
  BY <1>1
<1> HIDE DEF z
<1>4. z = <<z[1], z[2]>>
  BY <1>2
<1> QED BY <1>3, <1>4 DEF z

(* What the builders make of one transfer: the same message in either      *)
(* version, with the swept address and the nonce authority as its signers  *)
(* (message.rs, compile_v0_with_durable_nonce and its legacy twin).        *)
LEMMA SweepShape ==
    ASSUME NEW a \in Address, NEW h \in Hash
    PROVE  /\ Sweep(a, h) \in Messages
           /\ Sweep(a, h).signers = IF AuthorityPays THEN <<Authority, a>> ELSE <<a, Authority>>
           /\ Sweep(a, h).recent_blockhash = h
           /\ IsNonceMessage(Sweep(a, h))
           /\ From(Sweep(a, h)) = a
           /\ a # Authority
           /\ Sweep(a, h) = CompileLegacyWithDurableNonce(Payer(a), Authority, h, <<Transfer(a)>>)
<1> DEFINE all == <<AdvanceNonce(Authority)>> \o <<Transfer(a)>>
<1>1. all = <<AdvanceNonce(Authority), Transfer(a)>>
  BY PairOfSingletons
<1>2. a # Authority /\ a \in Keys /\ Authority \in Keys
  BY SignersAssumption DEF Keys
<1> HIDE DEF all
<1>3. Sweep(a, h) = [signers |-> <<Payer(a), IF Payer(a) = Authority THEN a ELSE Authority>>,
                     recent_blockhash |-> h,
                     instructions |-> all]
  BY <1>1 DEF Sweep, CompileV0WithDurableNonce, CompileMessage, AdvanceNonce, Transfer, all
<1>4. Sweep(a, h).signers = IF AuthorityPays THEN <<Authority, a>> ELSE <<a, Authority>>
  BY <1>2, <1>3 DEF Payer
<1>5. all \in Seq([op : {"AdvanceNonceAccount", "Transfer"}, signer : Keys])
  BY <1>1, <1>2 DEF AdvanceNonce, Transfer
<1>6. Sweep(a, h).signers \in Seq(Keys)
  BY <1>2, <1>4
<1>7. Sweep(a, h) \in Messages
  BY <1>3, <1>5, <1>6 DEF Messages
<1>8. IsNonceMessage(Sweep(a, h)) /\ From(Sweep(a, h)) = a
  BY <1>1, <1>3 DEF IsNonceMessage, From, AdvanceNonce, Transfer
<1>9. Sweep(a, h) = CompileLegacyWithDurableNonce(Payer(a), Authority, h, <<Transfer(a)>>)
  BY <1>1, <1>3 DEF CompileLegacyWithDurableNonce, CompileMessage, AdvanceNonce, Transfer, all
<1> QED BY <1>2, <1>3, <1>4, <1>7, <1>8, <1>9

(* A message with two signers wrapped, unsigned and fully signed, and      *)
(* parsed back from the wire (transaction.rs, new_unsigned, serialize and  *)
(* try_from_bytes).                                                        *)
LEMMA EnvelopeShape ==
    ASSUME NEW m \in Messages, Len(m.signers) = 2
    PROVE  /\ NewUnsigned(m) \in Transactions /\ Signed(m) \in Transactions
           /\ Serialize(NewUnsigned(m)) \in Wires /\ Serialize(Signed(m)) \in Wires
           /\ SerializeLegacy(NewUnsigned(m)) \in Wires
           /\ Len(NewUnsigned(m).signatures) = 2 /\ Len(Signed(m).signatures) = 2
           /\ Parsed(Serialize(NewUnsigned(m))) = NewUnsigned(m)
           /\ Parsed(Serialize(Signed(m))) = Signed(m)
           /\ Verifies(Serialize(Signed(m))) /\ IsVersioned(Serialize(Signed(m)))
           /\ ~IsVersioned(SerializeLegacy(NewUnsigned(m)))
<1> DEFINE S == [by : Keys, over : [first : Nat, message : Messages]]
<1>1. m.signers \in Seq(Keys) /\ m.signers[1] \in Keys /\ m.signers[2] \in Keys
  BY DEF Messages
<1>2. MessageBytes(m) \in [first : Nat, message : Messages]
  BY DEF MessageBytes, VersionPrefix
<1>3. NewUnsigned(m).signatures \in Seq(S \cup {NoSignature}) /\ Len(NewUnsigned(m).signatures) = 2
  BY DEF NewUnsigned
<1>4. Signed(m).signatures \in Seq(S \cup {NoSignature}) /\ Len(Signed(m).signatures) = 2
  <2>1. Signed(m).signatures = [i \in 1 .. 2 |-> SignMessage(m.signers[i], MessageBytes(m))]
    BY DEF Signed
  <2>2. \A i \in 1 .. 2 : SignMessage(m.signers[i], MessageBytes(m)) \in S
    BY <1>1, <1>2 DEF SignMessage
  <2> QED BY <2>1, <2>2
<1>5. NewUnsigned(m) \in Transactions /\ Signed(m) \in Transactions
  BY <1>3, <1>4 DEF NewUnsigned, Signed, Transactions
<1>6. /\ Serialize(NewUnsigned(m)) \in Wires
      /\ Serialize(Signed(m)) \in Wires
      /\ SerializeLegacy(NewUnsigned(m)) \in Wires
  <2>1. LegacyMessageBytes(m) \in [first : Nat, message : Messages]
    BY DEF LegacyMessageBytes
  <2>2. NewUnsigned(m).message = m /\ Signed(m).message = m
    BY DEF NewUnsigned, Signed
  <2> QED BY <1>2, <1>3, <1>4, <2>1, <2>2 DEF Serialize, SerializeLegacy, Wires
<1>7. /\ Parsed(Serialize(NewUnsigned(m))) = NewUnsigned(m)
      /\ Parsed(Serialize(Signed(m))) = Signed(m)
  BY DEF Parsed, Serialize, NewUnsigned, Signed, MessageBytes
<1>8. Verifies(Serialize(Signed(m))) /\ IsVersioned(Serialize(Signed(m)))
  BY <1>4 DEF Verifies, IsVersioned, Serialize, Signed, MessageBytes
<1>9. ~IsVersioned(SerializeLegacy(NewUnsigned(m)))
  <2>1. SerializeLegacy(NewUnsigned(m)).bytes.first = 2
    BY DEF SerializeLegacy, NewUnsigned, LegacyMessageBytes
  <2> QED BY <2>1 DEF IsVersioned, VersionPrefix
<1> QED BY <1>3, <1>4, <1>5, <1>6, <1>7, <1>8, <1>9

(* Signing a sweep, signed before or not, with an address's key and a      *)
(* keypair that are both required signers gives the fully signed           *)
(* transaction over the same message; with other keys it is not signable   *)
(* (sign_and_broadcast_sweep.rs, insert_signature and try_sign).           *)
LEMMA SigningCompletes ==
    ASSUME NEW a \in Address, NEW h \in Hash, NEW b \in Address, NEW k \in Keypairs,
           NEW tx \in {NewUnsigned(Sweep(a, h)), Signed(Sweep(a, h))},
           HasSlot(tx, b), HasSlot(WithOneTimeSignature(tx, b), k)
    PROVE  TrySign(WithOneTimeSignature(tx, b), k) = Signed(Sweep(a, h))
<1> DEFINE m == Sweep(a, h)
           x == m.signers[1]
           y == m.signers[2]
           one == SignMessage(b, MessageBytes(m))
           two == SignMessage(k, MessageBytes(m))
<1>1. /\ m.signers = <<x, y>> /\ Len(m.signers) = 2
      /\ x # y
      /\ \/ x = a /\ y = Authority
         \/ x = Authority /\ y = a
  <2>1. a # Authority /\ m.signers = IF AuthorityPays THEN <<Authority, a>> ELSE <<a, Authority>>
    BY SweepShape
  <2> HIDE DEF m
  <2> QED BY <2>1
<1>2. k # a /\ b # Authority
  BY SignersAssumption
<1>3. tx.message = m /\ tx = [signatures |-> tx.signatures, message |-> m]
      /\ tx.signatures = <<tx.signatures[1], tx.signatures[2]>>
  BY <1>1 DEF NewUnsigned, Signed
<1> HIDE DEF m
<1>4. ASSUME NEW key, IsRequiredSigner(m, key)
      PROVE  SlotOf(m, key) = IF key = x THEN 1 ELSE 2
  <2>1. key = x \/ key = y
    BY <1>1, <1>4 DEF IsRequiredSigner
  <2>2. CASE key = x
    <3>1. \A i \in 1 .. 2 : (m.signers[i] = key /\ \A j \in 1 .. i - 1 : m.signers[j] # key) <=> i = 1
      BY <1>1, <2>2
    <3> QED BY <1>1, <2>2, <3>1 DEF SlotOf
  <2>3. CASE key = y
    <3>1. \A i \in 1 .. 2 : (m.signers[i] = key /\ \A j \in 1 .. i - 1 : m.signers[j] # key) <=> i = 2
      BY <1>1, <2>3
    <3> QED BY <1>1, <2>3, <3>1 DEF SlotOf
  <2> QED BY <2>1, <2>2, <2>3
<1>5. b = a
  BY <1>1, <1>2, <1>3 DEF HasSlot, IsRequiredSigner
<1>6. WithOneTimeSignature(tx, b).message = m
  BY <1>3 DEF WithOneTimeSignature, InsertSignature
<1>7. k = Authority
  BY <1>1, <1>2, <1>6 DEF HasSlot, IsRequiredSigner
<1>8. IsRequiredSigner(m, b) /\ IsRequiredSigner(m, k)
  BY <1>3, <1>6 DEF HasSlot
<1>9. SlotOf(m, b) = (IF b = x THEN 1 ELSE 2) /\ SlotOf(m, k) = (IF k = x THEN 1 ELSE 2)
  BY <1>4, <1>8
<1>10. WithOneTimeSignature(tx, b) =
         [signatures |-> [tx.signatures EXCEPT ![IF b = x THEN 1 ELSE 2] = one], message |-> m]
  BY <1>3, <1>9 DEF WithOneTimeSignature, InsertSignature
<1>11. TrySign(WithOneTimeSignature(tx, b), k) =
         [signatures |-> [[tx.signatures EXCEPT ![IF b = x THEN 1 ELSE 2] = one]
                            EXCEPT ![IF k = x THEN 1 ELSE 2] = two],
          message |-> m]
  BY <1>9, <1>10 DEF TrySign, InsertSignature
<1>12. Signed(m).signatures = <<SignMessage(x, MessageBytes(m)), SignMessage(y, MessageBytes(m))>>
  BY <1>1 DEF Signed
<1>13. [[tx.signatures EXCEPT ![IF b = x THEN 1 ELSE 2] = one]
           EXCEPT ![IF k = x THEN 1 ELSE 2] = two] = Signed(m).signatures
  <2>1. CASE b = x
    BY <1>1, <1>3, <1>5, <1>7, <1>12, <2>1
  <2>2. CASE b = y
    BY <1>1, <1>3, <1>5, <1>7, <1>12, <2>2
  <2> QED BY <1>1, <1>5, <2>1, <2>2
<1> QED BY <1>11, <1>13 DEF Signed, m

-----------------------------------------------------------------------------
(* What the invariant says of a transaction in flight.                     *)

(* Nonces of confirmed banks are durable nonces (nonce.rs,                 *)
(* usable_blockhash).                                                      *)
LEMMA ConfirmedHashesAreNonces ==
    ASSUME TypeOK, ChainOK(chain)
    PROVE  \A h \in ConfirmedHashes : h \in Hash /\ h.kind = "nonce"
<1> SUFFICES ASSUME NEW k \in 1 .. confirmed, chain[k].nonce # NoNonce
             PROVE  chain[k].nonce \in Hash /\ chain[k].nonce.kind = "nonce"
  BY DEF ConfirmedHashes
<1>1. k \in 1 .. Len(chain) /\ chain[k] \in Blocks
  BY DEF TypeOK, Tip
<1>2. chain[k].nonce = DurableNonce(chain[k].nonce.slot)
  BY <1>1 DEF ChainOK, NoncesGrow
<1> QED BY <1>1, <1>2 DEF Blocks, DurableNonce

(* A printed transaction is the signed sweep of some address on some       *)
(* durable nonce (sign_and_broadcast_sweep.rs, the printed base64).        *)
LEMMA PrintedShape ==
    ASSUME TypeOK, ChainOK(chain), PrintedFromProposed, NEW w \in printed
    PROVE  \E a \in Address, h \in ConfirmedHashes :
               /\ w = Serialize(Signed(Sweep(a, h)))
               /\ Serialize(NewUnsigned(Sweep(a, h))) \in proposed
               /\ MessageOf(w) = Sweep(a, h)
               /\ HashOf(w) = h /\ h \in Hash /\ h.kind = "nonce" /\ h # NoNonce
               /\ From(MessageOf(w)) = a
               /\ Verifies(w) /\ IsVersioned(w) /\ w \in Wires /\ w # NoTx
<1>1. PICK a \in Address, h \in ConfirmedHashes :
          /\ w = Serialize(Signed(Sweep(a, h)))
          /\ Serialize(NewUnsigned(Sweep(a, h))) \in proposed
  BY DEF PrintedFromProposed
<1>2. h \in Hash /\ h.kind = "nonce" /\ h # NoNonce
  BY <1>1, ConfirmedHashesAreNonces DEF ConfirmedHashes
<1>3. /\ Sweep(a, h) \in Messages /\ Len(Sweep(a, h).signers) = 2
      /\ Sweep(a, h).recent_blockhash = h /\ From(Sweep(a, h)) = a
  <2>1. /\ Sweep(a, h) \in Messages
        /\ Sweep(a, h).recent_blockhash = h /\ From(Sweep(a, h)) = a
        /\ Sweep(a, h).signers = IF AuthorityPays THEN <<Authority, a>> ELSE <<a, Authority>>
    BY <1>2, SweepShape
  <2> QED BY <2>1
<1>4. Verifies(w) /\ IsVersioned(w) /\ w \in Wires
  BY <1>1, <1>3, EnvelopeShape
<1>5. MessageOf(w) = Sweep(a, h)
  BY <1>1 DEF MessageOf, Serialize, Signed, MessageBytes
<1>6. w # NoTx
  BY <1>4, NoTxAssumption
<1> QED BY <1>1, <1>2, <1>3, <1>4, <1>5, <1>6 DEF HashOf

(* A printed transaction is accepted in a bank only as a spend of that     *)
(* bank's nonce (message.rs: the nonce is the recent_blockhash).           *)
LEMMA AcceptedOnNonce ==
    ASSUME TypeOK, ChainOK(chain), PrintedFromProposed, NEW w \in printed, NEW k \in 1 .. Tip,
           HashAccepted(k, MessageOf(w))
    PROVE  chain[k].nonce = HashOf(w)
<1>1. HashOf(w).kind = "nonce"
  BY PrintedShape
<1>2. \A t : HashOf(w) # BlockHash(t)
  BY <1>1 DEF BlockHash
<1> QED BY <1>2 DEF HashAccepted, HashOf

(* Accepted by preflight, a printed transaction satisfies what the         *)
(* invariant asks of the pool (RpcClient::send_transaction).               *)
LEMMA PreflightPools ==
    ASSUME IInv, NEW w \in printed, Preflight(w)
    PROVE  /\ w \in Wires
           /\ \E k \in 1 .. confirmed :
                  chain[k].nonce = HashOf(w) /\ From(MessageOf(w)) \notin chain[k].swept
<1>1. confirmed \in 1 .. Tip /\ confirmed \in 1 .. confirmed
  BY DEF IInv, TypeOK, Tip
<1>2. HashAccepted(confirmed, MessageOf(w)) /\ From(MessageOf(w)) \notin chain[confirmed].swept
  BY DEF Preflight, Simulates
<1>3. chain[confirmed].nonce = HashOf(w)
  BY <1>1, <1>2, AcceptedOnNonce DEF IInv
<1> QED BY <1>1, <1>2, <1>3 DEF IInv, TypeOK

-----------------------------------------------------------------------------
(* The inductive invariant.                                                *)

(* The invariant holds initially.                                          *)
LEMMA InitIInv == Init => IInv
<1> SUFFICES ASSUME Init PROVE IInv
  OBVIOUS
<1> DEFINE b == [slot |-> 0, nonce |-> NoNonce, swept |-> {}, tx |-> NoTx]
<1>1. b \in Blocks
  BY DEF Blocks, Hash, NoNonce
<1>2. chain = <<b>> /\ Len(chain) = 1 /\ chain[1] = b /\ chain \in Seq(Blocks)
  BY <1>1 DEF Init
<1> HIDE DEF b
<1>3. TypeOK
  BY <1>2 DEF Init, TypeOK, Tip, Ended
<1>4. ChainOK(chain)
  BY <1>2 DEF ChainOK, GenesisOK, Linked, NoncesGrow, GoneIsSpent, NonceFixesSwept,
              SpentIsOlder, SweptByLanded, NoNonce, b
<1>5. \A i \in 1 .. Tip : ~Landed(i) /\ chain[i].slot <= slot
  BY <1>2 DEF Init, Tip, Landed, b
<1>6. ProposedFromNonce /\ PrintedFromProposed /\ HeldPrinted /\ PoolPreflighted
  BY DEF Init, ProposedFromNonce, PrintedFromProposed, HeldPrinted, PoolPreflighted
<1> QED BY <1>3, <1>4, <1>5, <1>6 DEF IInv

(* What a step that leaves the cluster alone has to preserve.              *)
LEMMA ClusterUnchanged ==
    ASSUME IInv, UNCHANGED cluster, TypeOK', pool \subseteq pool',
           ProposedFromNonce', PrintedFromProposed', HeldPrinted', PoolPreflighted'
    PROVE  IInv'
<1>1. chain' = chain /\ slot' = slot
  BY DEF cluster
<1>2. ChainOK(chain)'
  BY <1>1 DEF IInv
<1>3. (\A i \in 1 .. Tip : Landed(i) => chain[i].tx \in pool)'
  BY <1>1 DEF IInv, Tip, Landed
<1>4. (\A i \in 1 .. Tip : chain[i].slot <= slot)'
  BY <1>1 DEF IInv, Tip
<1> QED BY <1>2, <1>3, <1>4 DEF IInv

(* The plugin hands out a sweep on a confirmed nonce (message.rs).         *)
LEMMA PluginStep == IInv /\ Plugin => IInv'
<1> SUFFICES ASSUME IInv, NEW a \in Address, ProposeV0(a) \/ ProposeLegacy(a)
             PROVE  IInv'
  BY DEF Plugin
<1> DEFINE h == chain[confirmed].nonce
<1>1. UNCHANGED <<chain, confirmed, slot, empties, forks, printed, pool, pc, held>>
  BY DEF ProposeV0, ProposeLegacy, cluster
<1>2. h # NoNonce /\ UsableBlockhash(FetchNonceAccount) = h
  BY DEF ProposeV0, ProposeLegacy, FetchNonceAccount, IsUsable, NonceAccount, UsableBlockhash
<1>3. h \in ConfirmedHashes /\ h \in Hash
  BY <1>2, ConfirmedHashesAreNonces DEF IInv, TypeOK, ConfirmedHashes
<1> HIDE DEF h
<1>4. Sweep(a, h) \in Messages /\ Len(Sweep(a, h).signers) = 2
      /\ Sweep(a, h) = CompileLegacyWithDurableNonce(Payer(a), Authority, h, <<Transfer(a)>>)
  <2>1. Sweep(a, h).signers = IF AuthorityPays THEN <<Authority, a>> ELSE <<a, Authority>>
    BY <1>3, SweepShape
  <2> QED BY <1>3, <2>1, SweepShape
<1>5. \/ proposed' = proposed \cup {Serialize(NewUnsigned(Sweep(a, h)))}
      \/ proposed' = proposed \cup {SerializeLegacy(NewUnsigned(Sweep(a, h)))}
  BY <1>2, <1>4 DEF ProposeV0, ProposeLegacy, Sweep
<1>6. Serialize(NewUnsigned(Sweep(a, h))) \in Wires /\ SerializeLegacy(NewUnsigned(Sweep(a, h))) \in Wires
  BY <1>4, EnvelopeShape
<1>7. TypeOK'
  BY <1>1, <1>5, <1>6 DEF IInv, TypeOK, Tip
<1>8. ConfirmedHashes' = ConfirmedHashes
  BY <1>1 DEF ConfirmedHashes
<1>9. ProposedFromNonce'
  BY <1>3, <1>5, <1>8 DEF IInv, ProposedFromNonce
<1>10. PrintedFromProposed'
  BY <1>1, <1>5, <1>8 DEF IInv, PrintedFromProposed
<1>11. HeldPrinted' /\ PoolPreflighted'
  BY <1>1 DEF IInv, HeldPrinted, PoolPreflighted
<1> QED BY <1>1, <1>7, <1>9, <1>10, <1>11, ClusterUnchanged DEF cluster

(* A run signs a sweep: what it prints is the completed transaction        *)
(* (sign_and_broadcast_sweep.rs, parse to print).                          *)
LEMMA SignStep ==
    ASSUME IInv, NEW s \in Session, NEW w \in proposed \cup printed,
           NEW b \in Address, NEW k \in Keypairs, SignSweep(s, w, b, k)
    PROVE  IInv'
<1> DEFINE tx == TrySign(WithOneTimeSignature(Parsed(w), b), k)
<1>1. /\ UNCHANGED <<chain, confirmed, slot, empties, forks, proposed, pool>>
      /\ held' = [held EXCEPT ![s] = tx]
      /\ printed' = printed \cup {Serialize(tx)}
      /\ pc' = [pc EXCEPT ![s] = "signed"]
      /\ IsVersioned(w) /\ HasSlot(Parsed(w), b) /\ HasSlot(WithOneTimeSignature(Parsed(w), b), k)
  BY DEF SignSweep, Signable, cluster
<1>2. PICK a \in Address, h \in ConfirmedHashes :
          /\ tx = Signed(Sweep(a, h))
          /\ Serialize(NewUnsigned(Sweep(a, h))) \in proposed
          /\ tx \in Transactions /\ Serialize(tx) \in Wires
  <2>1. ASSUME NEW a \in Address, NEW h \in ConfirmedHashes
        PROVE  h \in Hash /\ Sweep(a, h) \in Messages /\ Len(Sweep(a, h).signers) = 2
    <3>1. h \in Hash
      BY ConfirmedHashesAreNonces DEF IInv
    <3>2. Sweep(a, h).signers = IF AuthorityPays THEN <<Authority, a>> ELSE <<a, Authority>>
      BY <3>1, SweepShape
    <3>3. Len(Sweep(a, h).signers) = 2
      BY <3>2
    <3> QED BY <3>1, <3>3, SweepShape
  <2>2. CASE w \in proposed
    <3>1. PICK a \in Address, h \in ConfirmedHashes :
              \/ w = Serialize(NewUnsigned(Sweep(a, h)))
              \/ w = SerializeLegacy(NewUnsigned(Sweep(a, h)))
      BY <2>2 DEF IInv, ProposedFromNonce
    <3>2. w = Serialize(NewUnsigned(Sweep(a, h)))
      <4>1. ~IsVersioned(SerializeLegacy(NewUnsigned(Sweep(a, h))))
        BY <2>1, EnvelopeShape
      <4> QED BY <1>1, <3>1, <4>1
    <3>3. Parsed(w) = NewUnsigned(Sweep(a, h))
      BY <2>1, <3>2, EnvelopeShape
    <3>4. tx = Signed(Sweep(a, h))
      BY <1>1, <2>1, <3>3, SigningCompletes
    <3> HIDE DEF tx
    <3>5. tx \in Transactions /\ Serialize(tx) \in Wires
      BY <2>1, <3>4, EnvelopeShape
    <3> QED BY <2>2, <3>2, <3>4, <3>5
  <2>3. CASE w \in printed
    <3>1. PICK a \in Address, h \in ConfirmedHashes :
              /\ w = Serialize(Signed(Sweep(a, h)))
              /\ Serialize(NewUnsigned(Sweep(a, h))) \in proposed
      BY <2>3 DEF IInv, PrintedFromProposed
    <3>2. Parsed(w) = Signed(Sweep(a, h))
      BY <2>1, <3>1, EnvelopeShape
    <3>3. tx = Signed(Sweep(a, h))
      BY <1>1, <2>1, <3>2, SigningCompletes
    <3> QED BY <2>1, <3>1, <3>3, EnvelopeShape
  <2> QED BY <2>2, <2>3
<1>3. tx # NoTx
  BY <1>2, NoTxAssumption
<1> HIDE DEF tx
<1>4. TypeOK'
  BY <1>1, <1>2, <1>3 DEF IInv, TypeOK, Tip, Ended
<1>5. ConfirmedHashes' = ConfirmedHashes
  BY <1>1 DEF ConfirmedHashes
<1>6. ProposedFromNonce'
  BY <1>1, <1>5 DEF IInv, ProposedFromNonce
<1>7. PrintedFromProposed'
  <2>1. \A v \in printed' : \E c \in Address, g \in ConfirmedHashes :
            v = Serialize(Signed(Sweep(c, g))) /\ Serialize(NewUnsigned(Sweep(c, g))) \in proposed
    BY <1>1, <1>2 DEF IInv, PrintedFromProposed
  <2> QED BY <1>1, <1>5, <2>1 DEF PrintedFromProposed
<1>8. HeldPrinted'
  BY <1>1 DEF IInv, TypeOK, HeldPrinted
<1>9. PoolPreflighted'
  BY <1>1 DEF IInv, PoolPreflighted
<1> QED BY <1>1, <1>4, <1>6, <1>7, <1>8, <1>9, ClusterUnchanged DEF cluster

(* A run moves on, or ends and lets go of its transaction, without         *)
(* printing or submitting anything.                                        *)
LEMMA QuietStep ==
    ASSUME IInv, NEW s \in Session, UNCHANGED <<cluster, proposed, printed, pool>>,
           \/ /\ UNCHANGED held
              /\ \/ pc' = pc
                 \/ \E v \in {"simulated", "sending"} :
                        held[s] # NoTx /\ pc' = [pc EXCEPT ![s] = v]
                 \/ held[s] = NoTx /\ pc' = [pc EXCEPT ![s] = "failed"]
           \/ \E how \in Ended : Exit(s, how)
    PROVE  IInv'
<1>1. UNCHANGED <<chain, confirmed, slot, empties, forks, proposed, printed, pool>>
  BY DEF cluster
<1>2. TypeOK'
  BY <1>1 DEF IInv, TypeOK, Tip, Ended, Exit
<1>3. ConfirmedHashes' = ConfirmedHashes
  BY <1>1 DEF ConfirmedHashes
<1>4. ProposedFromNonce' /\ PrintedFromProposed'
  BY <1>1, <1>3 DEF IInv, ProposedFromNonce, PrintedFromProposed
<1>5. HeldPrinted'
  BY <1>1 DEF IInv, TypeOK, HeldPrinted, Exit
<1>6. PoolPreflighted'
  BY <1>1 DEF IInv, PoolPreflighted
<1> QED BY <1>1, <1>2, <1>4, <1>5, <1>6, ClusterUnchanged DEF cluster

(* A node takes a printed transaction: sent by a run, whether or not the   *)
(* answer gets back, or submitted again by hand.                           *)
LEMMA PoolStep ==
    ASSUME IInv, NEW w \in printed, Preflight(w), pool' = pool \cup {w},
           UNCHANGED <<cluster, proposed, printed>>,
           \/ UNCHANGED <<pc, held>>
           \/ \E s \in Session, how \in Ended : Exit(s, how)
    PROVE  IInv'
<1>1. UNCHANGED <<chain, confirmed, slot, empties, forks, proposed, printed>>
  BY DEF cluster
<1>2. /\ w \in Wires
      /\ \E k \in 1 .. confirmed :
             chain[k].nonce = HashOf(w) /\ From(MessageOf(w)) \notin chain[k].swept
  BY PreflightPools
<1>3. TypeOK'
  BY <1>1, <1>2 DEF IInv, TypeOK, Tip, Ended, Exit
<1>4. ConfirmedHashes' = ConfirmedHashes
  BY <1>1 DEF ConfirmedHashes
<1>5. ProposedFromNonce' /\ PrintedFromProposed'
  BY <1>1, <1>4 DEF IInv, ProposedFromNonce, PrintedFromProposed
<1>6. HeldPrinted'
  BY <1>1 DEF IInv, TypeOK, HeldPrinted, Exit
<1>7. PoolPreflighted'
  BY <1>1, <1>2 DEF IInv, PoolPreflighted
<1> QED BY <1>1, <1>3, <1>5, <1>6, <1>7, ClusterUnchanged DEF cluster

(* Every step of a run of the signing program keeps the invariant.         *)
LEMMA RunStep == ASSUME IInv, NEW s \in Session, Run(s) PROVE IInv'
<1>1. CASE \E w \in proposed \cup printed, a \in Address, k \in Keypairs : SignSweep(s, w, a, k)
  BY <1>1, SignStep
<1>2. CASE \E w \in proposed \cup printed, a \in Address, k \in Keypairs : RejectSweep(s, w, a, k)
  <2>1. held[s] = NoTx
    BY <1>2 DEF RejectSweep, IInv, TypeOK
  <2> QED BY <1>2, <2>1, QuietStep DEF RejectSweep
<1>3. CASE Simulate(s)
  <2>1. held[s] # NoTx
    BY <1>3 DEF Simulate, IInv, TypeOK, Ended
  <2> QED BY <1>3, <2>1, QuietStep DEF Simulate, Ended
<1>4. CASE Confirm(s)
  <2>1. held[s] # NoTx
    BY <1>4 DEF Confirm, IInv, TypeOK, Ended
  <2> QED BY <1>4, <2>1, QuietStep DEF Confirm
<1>5. CASE Decline(s)
  BY <1>5, QuietStep DEF Decline, Ended
<1>6. CASE Send(s)
  <2>1. Serialize(held[s]) \in printed
    BY <1>6 DEF Send, IInv, TypeOK, HeldPrinted, Ended
  <2>2. CASE Preflight(Serialize(held[s]))
    BY <1>6, <2>1, <2>2, PoolStep DEF Send, Ended
  <2>3. CASE ~Preflight(Serialize(held[s]))
    BY <1>6, <2>3, QuietStep DEF Send, Ended
  <2> QED BY <2>2, <2>3
<1>7. CASE Abort(s)
  BY <1>7, QuietStep DEF Abort, Ended
<1> QED BY <1>1, <1>2, <1>3, <1>4, <1>5, <1>6, <1>7 DEF Run

(* What the chain says about transactions in flight only needs its         *)
(* confirmed part (external: the cluster).                                 *)
LEMMA ConfirmedPartKept ==
    ASSUME IInv, TypeOK', confirmed <= confirmed',
           \A k \in 1 .. confirmed : chain'[k] = chain[k],
           UNCHANGED <<proposed, printed, pool, pc, held>>
    PROVE  ProposedFromNonce' /\ PrintedFromProposed' /\ HeldPrinted' /\ PoolPreflighted'
<1>1. confirmed \in Nat /\ confirmed' \in Nat
  BY DEF IInv, TypeOK
<1>2. ConfirmedHashes \subseteq ConfirmedHashes'
  BY <1>1 DEF ConfirmedHashes
<1>3. ProposedFromNonce'
  BY <1>2 DEF IInv, ProposedFromNonce
<1>4. PrintedFromProposed'
  BY <1>2 DEF IInv, PrintedFromProposed
<1>5. HeldPrinted'
  BY DEF IInv, HeldPrinted
<1>6. PoolPreflighted'
  <2> SUFFICES ASSUME NEW w \in pool
               PROVE  /\ w \in printed
                      /\ \E k \in 1 .. confirmed' :
                             chain'[k].nonce = HashOf(w) /\ From(MessageOf(w)) \notin chain'[k].swept
    BY DEF PoolPreflighted
  <2>1. PICK k \in 1 .. confirmed :
            chain[k].nonce = HashOf(w) /\ From(MessageOf(w)) \notin chain[k].swept
    BY DEF IInv, PoolPreflighted
  <2>2. k \in 1 .. confirmed'
    BY <1>1
  <2> QED BY <2>1, <2>2 DEF IInv, PoolPreflighted
<1> QED BY <1>3, <1>4, <1>5, <1>6

(* A block that follows the tip keeps the invariant (external: the         *)
(* cluster's blocks).                                                      *)
LEMMA BlockStep ==
    ASSUME IInv, NEW b \in Blocks, Follows(chain[Tip], b), b.slot = slot + 1,
           b.tx # NoTx => b.tx \in pool,
           chain' = Append(chain, b), slot' = slot + 1, empties' \in Nat,
           UNCHANGED <<confirmed, proposed, printed, pool, pc, held, forks>>
    PROVE  IInv'
<1>1. /\ chain \in Seq(Blocks) /\ Tip \in Nat \ {0} /\ Tip = Len(chain)
      /\ confirmed \in 1 .. Tip /\ slot \in Nat
  BY DEF IInv, TypeOK, Tip
<1>2. /\ chain' \in Seq(Blocks) /\ Tip' = Tip + 1
      /\ \A k \in 1 .. Tip : chain'[k] = chain[k] /\ chain[k] \in Blocks
      /\ chain'[Tip + 1] = b
  BY <1>1 DEF Tip
<1>3. TypeOK'
  BY <1>1, <1>2 DEF IInv, TypeOK
<1>4. ProposedFromNonce' /\ PrintedFromProposed' /\ HeldPrinted' /\ PoolPreflighted'
  BY <1>1, <1>2, <1>3, ConfirmedPartKept
<1>5. ChainOK(chain)'
  BY <1>1, ChainGrows DEF IInv
<1>6. (\A i \in 1 .. Tip : Landed(i) => chain[i].tx \in pool)'
  BY <1>1, <1>2 DEF IInv, Landed
<1>7. (\A i \in 1 .. Tip : chain[i].slot <= slot)'
  <2>1. \A i \in 1 .. Tip : chain[i].slot \in Nat
    BY <1>2 DEF Blocks
  <2> QED BY <1>1, <1>2, <2>1 DEF IInv
<1> QED BY <1>3, <1>4, <1>5, <1>6, <1>7 DEF IInv

(* A leader only executes a transaction whose nonce is the stored one and  *)
(* whose address is not swept yet: it was so in a confirmed bank with the  *)
(* same nonce (send_transaction, preflight).                               *)
LEMMA IncludedPays ==
    ASSUME IInv, NEW w \in pool, HashAccepted(Tip, MessageOf(w))
    PROVE  /\ chain[Tip].nonce = HashOf(w) /\ HashOf(w) # NoNonce
           /\ From(MessageOf(w)) \in Address \ chain[Tip].swept
           /\ IsNonceMessage(MessageOf(w)) /\ w \in Wires /\ w # NoTx
<1>1. /\ Tip \in Nat /\ confirmed \in 1 .. Tip /\ Tip \in 1 .. Tip /\ Tip = Len(chain)
      /\ w \in printed
  BY DEF IInv, TypeOK, Tip, PoolPreflighted
<1>2. PICK a \in Address, h \in ConfirmedHashes :
          /\ MessageOf(w) = Sweep(a, h)
          /\ HashOf(w) = h /\ h \in Hash /\ h # NoNonce
          /\ From(MessageOf(w)) = a
          /\ w \in Wires /\ w # NoTx
  BY <1>1, PrintedShape DEF IInv
<1>3. IsNonceMessage(MessageOf(w))
  BY <1>2, SweepShape
<1>4. chain[Tip].nonce = HashOf(w)
  BY <1>1, AcceptedOnNonce DEF IInv
<1>5. PICK k \in 1 .. confirmed :
          chain[k].nonce = HashOf(w) /\ From(MessageOf(w)) \notin chain[k].swept
  BY DEF IInv, PoolPreflighted
<1>6. k \in 1 .. Len(chain) /\ Tip \in 1 .. Len(chain)
  BY <1>1
<1>7. chain[k].swept = chain[Tip].swept
  BY <1>2, <1>4, <1>5, <1>6 DEF IInv, ChainOK, NonceFixesSwept
<1> QED BY <1>2, <1>3, <1>4, <1>5, <1>7

(* Every step of the cluster keeps the invariant.                          *)
LEMMA ClusterStep == IInv /\ Cluster => IInv'
<1> SUFFICES ASSUME IInv, Cluster PROVE IInv'
  OBVIOUS
<1>1. /\ chain \in Seq(Blocks) /\ Tip \in Nat \ {0} /\ Tip = Len(chain)
      /\ confirmed \in 1 .. Tip /\ slot \in Nat /\ empties \in Nat /\ forks \in Nat
  BY DEF IInv, TypeOK, Tip
<1>2. chain[Tip] \in Blocks /\ chain[Tip].slot \in Nat /\ chain[Tip].slot < slot + 1
  <2>1. chain[Tip] \in Blocks
    BY <1>1
  <2> QED BY <1>1, <2>1 DEF IInv, Blocks
<1>3. chain[Tip].nonce \in Hash /\ chain[Tip].swept \subseteq Address
      /\ DurableNonce(slot + 1) \in Hash
  BY <1>1, <1>2 DEF Blocks, Hash, DurableNonce
<1>4. CASE CreateNonce
  <2> DEFINE b == [slot |-> slot + 1, nonce |-> DurableNonce(slot + 1),
                   swept |-> chain[Tip].swept, tx |-> NoTx]
  <2>1. b \in Blocks /\ b.slot = slot + 1 /\ b.tx = NoTx
    BY <1>1, <1>3 DEF Blocks
  <2>2. Follows(chain[Tip], b)
    BY <1>2, <1>4 DEF CreateNonce, Follows
  <2>3. chain' = Append(chain, b) /\ slot' = slot + 1
        /\ UNCHANGED <<confirmed, proposed, printed, pool, pc, held, empties, forks>>
    BY <1>4 DEF CreateNonce, NewBlock
  <2> HIDE DEF b
  <2> QED BY <1>1, <2>1, <2>2, <2>3, BlockStep
<1>5. CASE Leader
  <2> PICK w \in pool : IncludeTx(w)
    BY <1>5 DEF Leader
  <2> DEFINE b == [slot |-> slot + 1, nonce |-> DurableNonce(slot + 1),
                   swept |-> chain[Tip].swept \cup {From(MessageOf(w))}, tx |-> w]
  <2>1. /\ chain[Tip].nonce = HashOf(w) /\ HashOf(w) # NoNonce
        /\ From(MessageOf(w)) \in Address \ chain[Tip].swept
        /\ IsNonceMessage(MessageOf(w)) /\ w \in Wires /\ w # NoTx
    BY IncludedPays DEF IncludeTx
  <2>2. b \in Blocks /\ b.slot = slot + 1 /\ b.tx = w
    BY <1>1, <1>3, <2>1 DEF Blocks
  <2>3. Follows(chain[Tip], b)
    BY <1>2, <2>1 DEF Follows
  <2>4. chain' = Append(chain, b) /\ slot' = slot + 1
        /\ UNCHANGED <<confirmed, proposed, printed, pool, pc, held, empties, forks>>
    BY <2>1 DEF IncludeTx, NewBlock
  <2> HIDE DEF b
  <2> QED BY <1>1, <2>2, <2>3, <2>4, BlockStep
<1>6. CASE EmptyBlock
  <2> DEFINE b == [slot |-> slot + 1, nonce |-> chain[Tip].nonce,
                   swept |-> chain[Tip].swept, tx |-> NoTx]
  <2>1. b \in Blocks /\ b.slot = slot + 1 /\ b.tx = NoTx
    BY <1>1, <1>3 DEF Blocks
  <2>2. Follows(chain[Tip], b)
    BY <1>2 DEF Follows
  <2>3. chain' = Append(chain, b) /\ slot' = slot + 1 /\ empties' = empties + 1
        /\ UNCHANGED <<confirmed, proposed, printed, pool, pc, held, forks>>
    BY <1>6 DEF EmptyBlock, NewBlock
  <2> HIDE DEF b
  <2> QED BY <1>1, <2>1, <2>2, <2>3, BlockStep
<1>7. CASE ConfirmBlock
  <2>1. /\ confirmed' = confirmed + 1 /\ confirmed < Tip
        /\ UNCHANGED <<chain, slot, proposed, printed, pool, pc, held, empties, forks>>
    BY <1>7 DEF ConfirmBlock
  <2>2. TypeOK'
    BY <1>1, <2>1 DEF IInv, TypeOK, Tip
  <2>3. ProposedFromNonce' /\ PrintedFromProposed' /\ HeldPrinted' /\ PoolPreflighted'
    BY <1>1, <2>1, <2>2, ConfirmedPartKept
  <2>4. ChainOK(chain)'
    BY <2>1 DEF IInv
  <2>5. (\A i \in 1 .. Tip : Landed(i) => chain[i].tx \in pool)'
        /\ (\A i \in 1 .. Tip : chain[i].slot <= slot)'
    BY <2>1 DEF IInv, Landed, Tip
  <2> QED BY <2>2, <2>3, <2>4, <2>5 DEF IInv
<1>8. CASE ForkSwitch
  <2>1. PICK n \in confirmed .. Tip - 1 : chain' = SubSeq(chain, 1, n)
    BY <1>8 DEF ForkSwitch
  <2>2. /\ UNCHANGED <<confirmed, slot, proposed, printed, pool, pc, held, empties>>
        /\ forks' = forks + 1
    BY <1>8 DEF ForkSwitch
  <2>3. /\ n \in 1 .. Len(chain) /\ confirmed \in 1 .. n
        /\ chain' \in Seq(Blocks) /\ Tip' = n
        /\ \A k \in 1 .. n : chain'[k] = chain[k]
    BY <1>1, <2>1 DEF Tip
  <2>4. TypeOK'
    BY <1>1, <2>2, <2>3 DEF IInv, TypeOK
  <2>5. ProposedFromNonce' /\ PrintedFromProposed' /\ HeldPrinted' /\ PoolPreflighted'
    BY <1>1, <2>2, <2>3, <2>4, ConfirmedPartKept
  <2>6. ChainOK(chain)'
    BY <1>1, <2>1, <2>3, ChainShrinks DEF IInv
  <2>7. (\A i \in 1 .. Tip : Landed(i) => chain[i].tx \in pool)'
        /\ (\A i \in 1 .. Tip : chain[i].slot <= slot)'
    BY <1>1, <2>2, <2>3 DEF IInv, Landed
  <2> QED BY <2>4, <2>5, <2>6, <2>7 DEF IInv
<1> QED BY <1>4, <1>5, <1>6, <1>7, <1>8 DEF Cluster

(* Every step of the whole system keeps the invariant.                     *)
LEMMA NextIInv == IInv /\ [Next]_vars => IInv'
<1> SUFFICES ASSUME IInv, [Next]_vars PROVE IInv'
  OBVIOUS
<1>1. CASE Plugin
  BY <1>1, PluginStep
<1>2. CASE \E s \in Session : Run(s)
  BY <1>2, RunStep
<1>3. CASE \E w \in printed : Resubmit(w)
  BY <1>3, PoolStep DEF Resubmit
<1>4. CASE Cluster
  BY <1>4, ClusterStep
<1>5. CASE UNCHANGED vars
  <2>1. /\ UNCHANGED cluster /\ pool' = pool /\ ConfirmedHashes' = ConfirmedHashes
        /\ UNCHANGED <<proposed, printed, held>>
    BY <1>5 DEF vars, cluster, ConfirmedHashes
  <2>2. TypeOK'
    BY <1>5 DEF vars, IInv, TypeOK, Tip
  <2>3. ProposedFromNonce' /\ PrintedFromProposed' /\ HeldPrinted' /\ PoolPreflighted'
    BY <1>5, <2>1 DEF vars, IInv, ProposedFromNonce, PrintedFromProposed, HeldPrinted, PoolPreflighted
  <2> QED BY <2>1, <2>2, <2>3, ClusterUnchanged
<1> QED BY <1>1, <1>2, <1>3, <1>4, <1>5 DEF Next

(* Every state the system reaches satisfies the inductive invariant: all   *)
(* of message.rs, transaction.rs and the signing program taken together.   *)
THEOREM Invariant == Spec => []IInv
BY InitIInv, NextIInv, PTL DEF Spec

-----------------------------------------------------------------------------
(* What follows.                                                           *)

(* Every variable keeps its shape, and a run holds a transaction exactly   *)
(* between signing and its end (sign_and_broadcast_sweep.rs).              *)
THEOREM TypeCorrect == Spec => []TypeOK
<1>1. IInv => TypeOK
  BY DEF IInv
<1> QED BY <1>1, Invariant, PTL

(* A slot per required signer in everything handed out, printed, held or   *)
(* sent: indexing signatures cannot panic (transaction.rs, sign_into).     *)
THEOREM SlotsMatchHeader == Spec => []SlotPerSigner
<1>1. IInv => SlotPerSigner
  <2> SUFFICES ASSUME IInv PROVE SlotPerSigner
    OBVIOUS
  <2>1. ASSUME NEW a \in Address, NEW h \in ConfirmedHashes
        PROVE  /\ Len(Sweep(a, h).signers) = 2
               /\ Len(NewUnsigned(Sweep(a, h)).signatures) = 2
               /\ Len(Signed(Sweep(a, h)).signatures) = 2
    <3>1. h \in Hash
      BY ConfirmedHashesAreNonces DEF IInv
    <3>2. Sweep(a, h).signers = IF AuthorityPays THEN <<Authority, a>> ELSE <<a, Authority>>
      BY <3>1, SweepShape
    <3>3. Len(Sweep(a, h).signers) = 2
      BY <3>2
    <3> QED BY <3>1, <3>3, SweepShape, EnvelopeShape
  <2>2. \A w \in proposed : Len(w.signatures) = Len(MessageOf(w).signers)
    BY <2>1 DEF IInv, ProposedFromNonce, MessageOf, Serialize, SerializeLegacy, NewUnsigned,
                MessageBytes, LegacyMessageBytes
  <2>3. \A w \in printed : Len(w.signatures) = Len(MessageOf(w).signers)
    <3> SUFFICES ASSUME NEW w \in printed PROVE Len(w.signatures) = Len(MessageOf(w).signers)
      OBVIOUS
    <3>1. PICK a \in Address, h \in ConfirmedHashes : w = Serialize(Signed(Sweep(a, h)))
      BY DEF IInv, PrintedFromProposed
    <3>2. w.signatures = Signed(Sweep(a, h)).signatures
      BY <3>1 DEF Serialize
    <3>3. MessageOf(w) = Sweep(a, h)
      BY <3>1 DEF Serialize, Signed, MessageOf, MessageBytes
    <3> QED BY <2>1, <3>2, <3>3
  <2>4. pool \subseteq printed
    BY DEF IInv, PoolPreflighted
  <2>5. ASSUME NEW s \in Session, held[s] # NoTx
        PROVE  Len(held[s].signatures) = Len(held[s].message.signers)
    <3>1. Serialize(held[s]) \in printed
      BY <2>5 DEF IInv, HeldPrinted
    <3> QED BY <2>3, <3>1 DEF Serialize, MessageOf, MessageBytes
  <2> QED BY <2>2, <2>3, <2>4, <2>5 DEF SlotPerSigner
<1> QED BY <1>1, Invariant, PTL

(* No nonce is spent twice, however many transactions were signed on it    *)
(* and whatever order they reach the cluster in (message.rs).              *)
THEOREM NonceSpentOnce == Spec => []SpentOnce
<1>1. IInv => SpentOnce
  <2> SUFFICES ASSUME IInv PROVE SpentOnce
    OBVIOUS
  <2>1. Tip = Len(chain) /\ Tip \in Nat /\ \A i \in 1 .. Tip : chain[i].nonce.slot \in Nat
    <3>1. Tip = Len(chain) /\ Tip \in Nat /\ \A i \in 1 .. Tip : chain[i] \in Blocks
      BY DEF IInv, TypeOK, Tip
    <3> QED BY <3>1 DEF Blocks, Hash
  <2>2. ASSUME NEW i \in 1 .. Tip, NEW j \in 1 .. Tip, i < j, Landed(i), Landed(j)
        PROVE  HashOf(chain[i].tx) # HashOf(chain[j].tx)
    <3>1. j \in 2 .. Len(chain) /\ j - 1 \in 1 .. Len(chain) /\ i <= j - 1 /\ i \in 1 .. Len(chain)
      BY <2>1, <2>2
    <3>2. HashOf(chain[j].tx) = chain[j - 1].nonce
      <4>1. Follows(chain[j - 1], chain[j])
        BY <3>1 DEF IInv, ChainOK, Linked
      <4> QED BY <2>2, <4>1 DEF Follows, Landed
    <3>3. HashOf(chain[i].tx).slot < chain[j - 1].nonce.slot
      BY <2>2, <3>1 DEF IInv, ChainOK, SpentIsOlder, Landed
    <3> QED BY <2>1, <3>1, <3>2, <3>3
  <2> QED BY <2>1, <2>2 DEF SpentOnce
<1> QED BY <1>1, Invariant, PTL

(* A sweep that lands pays; preflight keeps the nonce from being burned    *)
(* on an address that is empty already (RpcClient::send_transaction).      *)
THEOREM LandedSweepsPay == Spec => []NoBurnedNonce
<1>1. IInv => NoBurnedNonce
  <2> SUFFICES ASSUME IInv, NEW i \in 2 .. Tip, Landed(i)
               PROVE  From(MessageOf(chain[i].tx)) \notin chain[i - 1].swept
    BY DEF NoBurnedNonce
  <2>1. Follows(chain[i - 1], chain[i])
    BY DEF IInv, ChainOK, Linked, Tip
  <2> QED BY <2>1 DEF Follows, Landed
<1> QED BY <1>1, Invariant, PTL

(* A printed sweep is refused only when its nonce or its address was used: *)
(* approval may take any time (message.rs, durable nonce; nonce account    *)
(* fetched at commitment confirmed).                                       *)
THEOREM DelayIsHarmless == Spec => []ApprovalDelayHarmless
<1>1. IInv => ApprovalDelayHarmless
  <2> SUFFICES ASSUME IInv, NEW w \in printed, ~Preflight(w) PROVE Superseded(w)
    BY DEF ApprovalDelayHarmless
  <2>1. /\ Tip = Len(chain) /\ Tip \in Nat
        /\ confirmed \in 1 .. Tip /\ confirmed \in 1 .. confirmed
    BY DEF IInv, TypeOK, Tip
  <2>2. PICK a \in Address, h \in ConfirmedHashes :
            /\ MessageOf(w) = Sweep(a, h)
            /\ HashOf(w) = h /\ h \in Hash /\ h # NoNonce
            /\ From(MessageOf(w)) = a
            /\ Verifies(w)
    BY PrintedShape DEF IInv
  <2>3. PICK k \in 1 .. confirmed : chain[k].nonce = h
    BY DEF ConfirmedHashes
  <2>4. /\ IsNonceMessage(MessageOf(w))
        /\ MessageOf(w).recent_blockhash = h
        /\ MessageOf(w).signers[1] \in {a, Authority}
    <3>1. MessageOf(w).signers = IF AuthorityPays THEN <<Authority, a>> ELSE <<a, Authority>>
      <4>1. Sweep(a, h).signers = IF AuthorityPays THEN <<Authority, a>> ELSE <<a, Authority>>
        BY <2>2, SweepShape
      <4> QED BY <2>2, <4>1
    <3>2. MessageOf(w).signers[1] \in {a, Authority}
      BY <3>1
    <3>3. IsNonceMessage(Sweep(a, h)) /\ Sweep(a, h).recent_blockhash = h
      BY <2>2, SweepShape
    <3> QED BY <2>2, <3>2, <3>3
  <2>5. CASE chain[confirmed].nonce # h
    <3>1. k < confirmed /\ k \in 1 .. Len(chain) /\ confirmed \in 1 .. Len(chain)
      BY <2>1, <2>3, <2>5
    <3>2. \E l \in k + 1 .. confirmed : chain[l].tx # NoTx /\ HashOf(chain[l].tx) = h
      BY <2>2, <2>3, <2>5, <3>1 DEF IInv, ChainOK, GoneIsSpent
    <3> QED BY <2>1, <2>2, <3>1, <3>2 DEF Superseded, Landed
  <2>6. CASE a \in chain[confirmed].swept
    <3>1. \E i \in 1 .. confirmed : chain[i].tx # NoTx /\ From(MessageOf(chain[i].tx)) = a
      BY <2>1, <2>6 DEF IInv, ChainOK, SweptByLanded
    <3> QED BY <2>2, <3>1 DEF Superseded, Landed
  <2>7. CASE chain[confirmed].nonce = h /\ a \notin chain[confirmed].swept
    <3>1. Authority \notin chain[confirmed].swept
      <4>1. chain[confirmed] \in Blocks
        BY <2>1 DEF IInv, TypeOK
      <4> QED BY <4>1, SignersAssumption DEF Blocks
    <3>2. HashAccepted(confirmed, MessageOf(w)) /\ FeePayable(confirmed, MessageOf(w))
      BY <2>4, <2>7, <3>1 DEF HashAccepted, FeePayable
    <3>3. Preflight(w)
      BY <2>2, <2>7, <3>2 DEF Preflight, Simulates
    <3> QED BY <3>3
  <2> QED BY <2>5, <2>6, <2>7
<1> QED BY <1>1, Invariant, PTL

(* What lands was handed out for approval as it is and carries exactly the *)
(* signatures its header asks for (transaction.rs).                        *)
THEOREM LandsAsProposed == Spec => []LandedAsProposed
<1>1. IInv => LandedAsProposed
  <2> SUFFICES ASSUME IInv, NEW i \in 1 .. Tip, Landed(i)
               PROVE  /\ Verifies(chain[i].tx)
                      /\ Serialize(NewUnsigned(MessageOf(chain[i].tx))) \in proposed
    BY DEF LandedAsProposed
  <2>1. chain[i].tx \in printed
    BY DEF IInv, PoolPreflighted
  <2> QED BY <2>1, PrintedShape DEF IInv
<1> QED BY <1>1, Invariant, PTL

(* Everything printed as signed verifies (sign_and_broadcast_sweep.rs).    *)
THEOREM PrintedVerifies == Spec => []SignedComplete
<1>1. IInv => SignedComplete
  BY PrintedShape DEF IInv, SignedComplete
<1> QED BY <1>1, Invariant, PTL

(* Only ConfirmBlock changes what the confirmed chain holds: new blocks    *)
(* and forks lie above it, and nobody else touches the cluster.            *)
LEMMA ConfirmedStays ==
    ASSUME IInv, [Next]_vars
    PROVE  \/ ConfirmBlock
           \/ /\ confirmed' = confirmed
              /\ \A k \in 1 .. confirmed : chain'[k] = chain[k]
<1>1. Tip = Len(chain) /\ Tip \in Nat /\ confirmed \in 1 .. Tip /\ chain \in Seq(Blocks)
  BY DEF IInv, TypeOK, Tip
<1>2. CASE CreateNonce \/ EmptyBlock \/ \E w \in pool : IncludeTx(w)
  <2>1. confirmed' = confirmed /\ \E b : chain' = Append(chain, b)
    BY <1>2 DEF CreateNonce, EmptyBlock, IncludeTx, NewBlock
  <2>2. ASSUME NEW b, chain' = Append(chain, b)
        PROVE  \A k \in 1 .. confirmed : chain'[k] = chain[k]
    BY <1>1, <2>2
  <2> QED BY <2>1, <2>2
<1>3. CASE ForkSwitch
  <2>1. confirmed' = confirmed /\ \E n \in confirmed .. Tip - 1 : chain' = SubSeq(chain, 1, n)
    BY <1>3 DEF ForkSwitch
  <2> QED BY <1>1, <2>1
<1>4. CASE UNCHANGED cluster
  BY <1>4 DEF cluster
<1>5. Plugin \/ (\E s \in Session : Run(s)) \/ (\E w \in printed : Resubmit(w)) => UNCHANGED cluster
  BY DEF Plugin, ProposeV0, ProposeLegacy, Run, SignSweep, RejectSweep, Simulate, Confirm,
         Decline, Send, Abort, Resubmit
<1>6. UNCHANGED vars => UNCHANGED cluster
  BY DEF vars, cluster
<1> QED BY <1>2, <1>3, <1>4, <1>5, <1>6 DEF Next, Cluster, Leader

(* The confirmed chain implements SweepOnce: every step of the system is a *)
(* step of it, or none.                                                    *)
THEOREM Refinement == Spec => ImplementsSweepOnce
<1> DEFINE spent == {HashOf(chain[i].tx) : i \in {k \in 1 .. confirmed : Landed(k)}}
<1>1. Init => Abstract!Init
  <2> SUFFICES ASSUME Init PROVE Abstract!Init
    OBVIOUS
  <2>1. chain[1].nonce = NoNonce /\ chain[1].swept = {} /\ chain[1].tx = NoTx /\ confirmed = 1
    BY DEF Init
  <2>2. spent = {}
    BY <2>1 DEF Landed
  <2> QED BY <2>1, <2>2 DEF Abstract!Init
<1>2. IInv /\ IInv' /\ [Next]_vars => [Abstract!Next]_(Abstract!vars)
  <2> SUFFICES ASSUME IInv, IInv', [Next]_vars
               PROVE  Abstract!Next \/ UNCHANGED Abstract!vars
    OBVIOUS
  <2>1. /\ Tip = Len(chain) /\ Tip \in Nat /\ confirmed \in 1 .. Tip
        /\ chain \in Seq(Blocks)
    BY DEF IInv, TypeOK, Tip
  <2>2. CASE /\ confirmed' = confirmed
             /\ \A k \in 1 .. confirmed : chain'[k] = chain[k]
    <3>1. spent' = spent
      BY <2>2 DEF Landed
    <3>2. chain'[confirmed'].swept = chain[confirmed].swept
          /\ chain'[confirmed'].nonce = chain[confirmed].nonce
      BY <2>1, <2>2
    <3> QED BY <3>1, <3>2 DEF Abstract!vars
  <2>3. CASE ConfirmBlock
    <3> DEFINE n == confirmed + 1
    <3>1. n \in 2 .. Len(chain) /\ confirmed' = n /\ chain' = chain /\ confirmed \in Nat
      BY <2>1, <2>3 DEF ConfirmBlock
    <3>2. Follows(chain[confirmed], chain[n]) /\ chain[n] \in Blocks
      BY <2>1, <3>1 DEF IInv, ChainOK, Linked
    <3>3. spent' = spent \cup (IF Landed(n) THEN {HashOf(chain[n].tx)} ELSE {})
      BY <3>1 DEF Landed
    <3> HIDE DEF n
    <3>4. CASE ~Landed(n)
      <4>1. /\ spent' = spent
            /\ chain'[confirmed'].swept = chain[confirmed].swept
        BY <3>1, <3>2, <3>3, <3>4 DEF Follows, Landed
      <4>2. CASE chain[n].nonce = chain[confirmed].nonce
        BY <3>1, <4>1, <4>2 DEF Abstract!vars
      <4>3. CASE chain[n].nonce # chain[confirmed].nonce
        <5>1. chain[confirmed].nonce = NoNonce /\ chain[n].nonce \in Hash
          BY <3>2, <3>4, <4>3 DEF Follows, Landed, Blocks
        <5> QED BY <3>1, <4>1, <4>3, <5>1 DEF Abstract!Next, Abstract!Create
      <4> QED BY <4>2, <4>3
    <3>5. CASE Landed(n)
      <4> DEFINE a == From(MessageOf(chain[n].tx))
      <4>1. /\ chain[confirmed].nonce # NoNonce
            /\ HashOf(chain[n].tx) = chain[confirmed].nonce
            /\ a \notin chain[confirmed].swept
            /\ chain[n].swept = chain[confirmed].swept \cup {a}
        BY <3>2, <3>5 DEF Follows, Landed
      <4>2. a \in Address /\ chain[n].nonce \in Hash
        <5>1. chain[n].swept \subseteq Address /\ chain[n].nonce \in Hash
          BY <3>2 DEF Blocks
        <5> QED BY <4>1, <5>1
      <4>3. \A i \in 1 .. n : chain[i].nonce.slot \in Nat
        <5>1. \A i \in 1 .. n : chain[i] \in Blocks
          BY <2>1, <3>1
        <5> QED BY <5>1 DEF Blocks, Hash
      <4>4. ASSUME NEW i \in 1 .. confirmed, Landed(i)
            PROVE  /\ HashOf(chain[i].tx) # chain[confirmed].nonce
                   /\ HashOf(chain[i].tx) # chain[n].nonce
        <5>1. i \in 1 .. Len(chain) /\ confirmed \in 1 .. Len(chain) /\ n \in 1 .. Len(chain)
              /\ i <= confirmed /\ i <= n /\ i \in 1 .. n /\ confirmed \in 1 .. n /\ n \in 1 .. n
          BY <2>1, <3>1 DEF n
        <5>2. /\ HashOf(chain[i].tx).slot < chain[confirmed].nonce.slot
              /\ HashOf(chain[i].tx).slot < chain[n].nonce.slot
          BY <4>4, <5>1 DEF IInv, ChainOK, SpentIsOlder, Landed
        <5> QED BY <4>3, <5>1, <5>2
      <4>5. HashOf(chain[n].tx) # chain[n].nonce
        <5>1. n \in 1 .. Len(chain) /\ n <= n /\ n \in 1 .. n
          BY <2>1, <3>1 DEF n
        <5>2. HashOf(chain[n].tx).slot < chain[n].nonce.slot
          BY <3>5, <5>1 DEF IInv, ChainOK, SpentIsOlder, Landed
        <5> QED BY <4>3, <5>1, <5>2
      <4>6. chain[n].nonce # NoNonce
        <5>1. chain[n].nonce = DurableNonce(chain[n].slot)
          BY <3>2, <3>5 DEF Follows, Landed
        <5> QED BY <5>1 DEF DurableNonce, NoNonce
      <4>7. spent' = spent \cup {chain[confirmed].nonce}
        BY <3>3, <3>5, <4>1
      <4>8. chain[confirmed].nonce \notin spent /\ chain[n].nonce \notin spent'
        BY <4>1, <4>4, <4>5, <4>7
      <4> HIDE DEF a, spent
      <4>9. Abstract!Pay(a)
        BY <3>1, <4>1, <4>2, <4>6, <4>7, <4>8 DEF Abstract!Pay, spent
      <4> QED BY <4>2, <4>9 DEF Abstract!Next
    <3> QED BY <3>4, <3>5
  <2>4. \/ ConfirmBlock
        \/ /\ confirmed' = confirmed
           /\ \A k \in 1 .. confirmed : chain'[k] = chain[k]
    BY ConfirmedStays
  <2> QED BY <2>2, <2>3, <2>4
<1> QED BY <1>1, <1>2, Invariant, PTL DEF Spec, ImplementsSweepOnce, Abstract!Spec

-----------------------------------------------------------------------------
(* What never stands in the way of BroadcastSettles.                       *)

(* A transaction on w's nonce is among the first n blocks.                 *)
NonceUsed(w, n) == \E i \in 1 .. n : Landed(i) /\ HashOf(chain[i].tx) = HashOf(w)

(* The next leader could execute w, and w would pay.                       *)
CanLand(w) ==
    LET m == MessageOf(w)
    IN  HashAccepted(Tip, m) /\ FeePayable(Tip, m) /\ From(m) \notin chain[Tip].swept

AcceptedCanLand == \A w \in pool : NonceUsed(w, Tip) \/ CanLand(w)

(* Whatever a node accepted can be executed and pays, on every fork and    *)
(* however long after, until a transaction on its nonce is executed: it    *)
(* never expires and never loses its fee payer (message.rs, durable nonce; *)
(* send_transaction, preflight at commitment confirmed).                   *)
THEOREM AcceptedNeverExpires == Spec => []AcceptedCanLand
<1>1. IInv => AcceptedCanLand
  <2> SUFFICES ASSUME IInv, NEW w \in pool, ~NonceUsed(w, Tip) PROVE CanLand(w)
    BY DEF AcceptedCanLand
  <2>1. /\ Tip = Len(chain) /\ Tip \in Nat /\ confirmed \in 1 .. Tip /\ Tip \in 1 .. Tip
        /\ w \in printed
    BY DEF IInv, TypeOK, Tip, PoolPreflighted
  <2>2. PICK a \in Address, h \in ConfirmedHashes :
            /\ MessageOf(w) = Sweep(a, h)
            /\ HashOf(w) = h /\ h \in Hash /\ h # NoNonce
            /\ From(MessageOf(w)) = a
    BY <2>1, PrintedShape DEF IInv
  <2>3. PICK k \in 1 .. confirmed : chain[k].nonce = h /\ a \notin chain[k].swept
    <3>1. \E k \in 1 .. confirmed :
              chain[k].nonce = HashOf(w) /\ From(MessageOf(w)) \notin chain[k].swept
      BY DEF IInv, PoolPreflighted
    <3> QED BY <2>2, <3>1
  <2>4. chain[Tip].nonce = h
    <3> SUFFICES ASSUME chain[Tip].nonce # h PROVE FALSE
      OBVIOUS
    <3>1. k < Tip /\ k \in 1 .. Len(chain) /\ Tip \in 1 .. Len(chain)
      BY <2>1, <2>3
    <3>2. PICK l \in k + 1 .. Tip : chain[l].tx # NoTx /\ HashOf(chain[l].tx) = h
      BY <2>2, <2>3, <3>1 DEF IInv, ChainOK, GoneIsSpent
    <3>3. l \in 1 .. Tip
      BY <2>1, <3>1, <3>2
    <3> QED BY <2>2, <3>2, <3>3 DEF NonceUsed, Landed
  <2>5. a \notin chain[Tip].swept
    <3>1. k \in 1 .. Len(chain) /\ Tip \in 1 .. Len(chain)
      BY <2>1
    <3>2. chain[k].swept = chain[Tip].swept
      BY <2>2, <2>3, <2>4, <3>1 DEF IInv, ChainOK, NonceFixesSwept
    <3> QED BY <2>3, <3>2
  <2>6. Authority \notin chain[Tip].swept
    <3>1. chain[Tip] \in Blocks
      BY <2>1 DEF IInv, TypeOK
    <3> QED BY <3>1, SignersAssumption DEF Blocks
  <2>7. /\ IsNonceMessage(MessageOf(w)) /\ MessageOf(w).recent_blockhash = h
        /\ MessageOf(w).signers[1] \in {a, Authority}
    <3>1. /\ IsNonceMessage(Sweep(a, h)) /\ Sweep(a, h).recent_blockhash = h
          /\ Sweep(a, h).signers = IF AuthorityPays THEN <<Authority, a>> ELSE <<a, Authority>>
      BY <2>2, SweepShape
    <3>2. Sweep(a, h).signers[1] \in {a, Authority}
      BY <3>1
    <3> QED BY <2>2, <3>1, <3>2
  <2> QED BY <2>2, <2>4, <2>5, <2>6, <2>7 DEF CanLand, HashAccepted, FeePayable
<1> QED BY <1>1, Invariant, PTL

(* What is settled stays settled: no step takes an accepted transaction    *)
(* out of the nodes' hands, and no fork takes a confirmed spend of its     *)
(* nonce back.                                                             *)
THEOREM SettledForGood ==
    Spec => [][\A w \in pool : w \in pool' /\ (NonceUsed(w, confirmed) => NonceUsed(w, confirmed)')]_vars
<1>1. ASSUME IInv, [Next]_vars, NEW w \in pool
      PROVE  w \in pool' /\ (NonceUsed(w, confirmed) => NonceUsed(w, confirmed)')
  <2>1. confirmed \in Nat
    BY <1>1 DEF IInv, TypeOK
  <2>2. pool \subseteq pool'
    <3>1. Plugin => pool' = pool
      BY DEF Plugin, ProposeV0, ProposeLegacy
    <3>2. \A s \in Session : Run(s) => pool \subseteq pool'
      BY DEF Run, SignSweep, RejectSweep, Simulate, Confirm, Decline, Send, Abort
    <3>3. \A x \in printed : Resubmit(x) => pool \subseteq pool'
      BY DEF Resubmit
    <3>4. Cluster => pool' = pool
      BY DEF Cluster, CreateNonce, Leader, IncludeTx, EmptyBlock, ConfirmBlock, ForkSwitch
    <3>5. UNCHANGED vars => pool' = pool
      BY DEF vars
    <3> QED BY <1>1, <3>1, <3>2, <3>3, <3>4, <3>5 DEF Next
  <2>3. ASSUME NonceUsed(w, confirmed) PROVE NonceUsed(w, confirmed)'
    <3>1. PICK i \in 1 .. confirmed : Landed(i) /\ HashOf(chain[i].tx) = HashOf(w)
      BY <2>3 DEF NonceUsed
    <3>2. confirmed' \in Nat /\ confirmed <= confirmed' /\ chain'[i] = chain[i]
      <4>1. CASE ConfirmBlock
        BY <2>1, <4>1 DEF ConfirmBlock
      <4>2. CASE confirmed' = confirmed /\ \A k \in 1 .. confirmed : chain'[k] = chain[k]
        BY <2>1, <4>2
      <4> QED BY <1>1, <4>1, <4>2, ConfirmedStays
    <3>3. i \in 1 .. confirmed' /\ chain'[i].tx # NoTx /\ HashOf(chain'[i].tx) = HashOf(w)
      BY <2>1, <3>1, <3>2 DEF Landed
    <3> QED BY <3>3 DEF NonceUsed, Landed
  <2> QED BY <1>1, <2>2, <2>3
<1>2. IInv /\ [Next]_vars
        => [\A w \in pool : w \in pool' /\ (NonceUsed(w, confirmed) => NonceUsed(w, confirmed)')]_vars
  BY <1>1
<1> QED BY <1>2, Invariant, PTL DEF Spec

-----------------------------------------------------------------------------
(* The envelope, for any number of signers.                                *)

(* The transactions two parties hand to each other: a slot per required    *)
(* signer, and no signer listed twice (compiling a message merges the      *)
(* occurrences of an account).                                             *)
Envelopes(Message, Key, Sig) ==
    {t \in [signatures : Seq(Sig), message : Message] :
        /\ t.message.signers \in Seq(Key)
        /\ Len(t.signatures) = Len(t.message.signers)
        /\ \A i, j \in 1 .. Len(t.message.signers) :
               t.message.signers[i] = t.message.signers[j] => i = j}

(* The slots that hold what the runtime wants there.                       *)
SignedSlots(t) ==
    {i \in 1 .. Len(t.message.signers) :
        t.signatures[i] = SignMessage(t.message.signers[i], MessageBytes(t.message))}

(* The search of sign_into and insert_signature ends at the key's slot.    *)
LEMMA SlotIsTheKeys ==
    ASSUME NEW Message, NEW Key, NEW Sig, NEW t \in Envelopes(Message, Key, Sig),
           NEW k, IsRequiredSigner(t.message, k)
    PROVE  /\ SlotOf(t.message, k) \in 1 .. Len(t.message.signers)
           /\ t.message.signers[SlotOf(t.message, k)] = k
<1> DEFINE m == t.message
<1>1. PICK i \in 1 .. Len(m.signers) : m.signers[i] = k
  BY DEF IsRequiredSigner
<1>2. m.signers \in Seq(Key) /\ Len(m.signers) \in Nat
  BY DEF Envelopes
<1>3. \A j \in 1 .. i - 1 : j \in 1 .. Len(m.signers) /\ j # i
  BY <1>2
<1>4. \A j \in 1 .. i - 1 : m.signers[j] # k
  BY <1>1, <1>3 DEF Envelopes
<1> QED BY <1>1, <1>4 DEF SlotOf

(* A transaction that is serialized, parsed and signed by one key gains    *)
(* exactly that key's slot: nobody's signature is lost, moved or made      *)
(* worthless on the way (serialize, try_from_bytes, sign_into).            *)
THEOREM SigningFillsOneSlot ==
    ASSUME NEW Message, NEW Key, NEW Sig, NEW t \in Envelopes(Message, Key, Sig),
           NEW k, IsRequiredSigner(t.message, k)
    PROVE  /\ Parsed(Serialize(t)) = t /\ IsVersioned(Serialize(t))
           /\ HasSlot(t, k)
           /\ TrySign(t, k).message = t.message
           /\ SignedSlots(TrySign(t, k)) = SignedSlots(t) \cup {SlotOf(t.message, k)}
<1> DEFINE m == t.message
           n == SlotOf(m, k)
           s == SignMessage(k, MessageBytes(m))
<1>1. /\ t = [signatures |-> t.signatures, message |-> m]
      /\ t.signatures \in Seq(Sig) /\ Len(t.signatures) = Len(m.signers)
      /\ m.signers \in Seq(Key) /\ Len(m.signers) \in Nat
  BY DEF Envelopes
<1>2. n \in 1 .. Len(m.signers) /\ m.signers[n] = k
  BY SlotIsTheKeys
<1>3. Parsed(Serialize(t)) = t /\ IsVersioned(Serialize(t))
  BY <1>1 DEF Parsed, Serialize, IsVersioned, MessageBytes
<1>4. HasSlot(t, k)
  BY <1>1, <1>2 DEF HasSlot
<1> HIDE DEF n, s
<1>5. TrySign(t, k) = [signatures |-> [t.signatures EXCEPT ![n] = s], message |-> m]
  BY <1>1 DEF TrySign, InsertSignature, n, s
<1>6. \A i \in 1 .. Len(m.signers) :
          TrySign(t, k).signatures[i] = IF i = n THEN s ELSE t.signatures[i]
  BY <1>1, <1>2, <1>5
<1>7. SignedSlots(TrySign(t, k)) = SignedSlots(t) \cup {n}
  <2>1. TrySign(t, k).message = m
    BY <1>5
  <2>2. SignMessage(m.signers[n], MessageBytes(m)) = s
    BY <1>2 DEF s
  <2> QED BY <1>2, <1>6, <2>1, <2>2 DEF SignedSlots
<1> QED BY <1>3, <1>4, <1>5, <1>7 DEF n

(* Two signers may sign in either order, on different machines: the        *)
(* transaction is the same.                                                *)
THEOREM SigningOrderIrrelevant ==
    ASSUME NEW Message, NEW Key, NEW Sig, NEW t \in Envelopes(Message, Key, Sig),
           NEW j, IsRequiredSigner(t.message, j),
           NEW k, IsRequiredSigner(t.message, k)
    PROVE  TrySign(TrySign(t, j), k) = TrySign(TrySign(t, k), j)
<1> DEFINE m == t.message
           SJ == SlotOf(m, j)
           SK == SlotOf(m, k)
           sj == SignMessage(j, MessageBytes(m))
           sk == SignMessage(k, MessageBytes(m))
<1>1. /\ t = [signatures |-> t.signatures, message |-> m]
      /\ t.signatures \in Seq(Sig) /\ Len(t.signatures) = Len(m.signers)
  BY DEF Envelopes
<1>2. /\ SJ \in 1 .. Len(m.signers) /\ m.signers[SJ] = j
      /\ SK \in 1 .. Len(m.signers) /\ m.signers[SK] = k
  BY SlotIsTheKeys
<1>3. CASE j = k
  BY <1>3
<1>4. CASE j # k
  <2>1. SJ # SK
    BY <1>2, <1>4
  <2> HIDE DEF SJ, SK, sj, sk
  <2>2. ASSUME NEW f, NEW x
        PROVE  TrySign([signatures |-> f, message |-> m], x) =
                  [signatures |-> [f EXCEPT ![SlotOf(m, x)] = SignMessage(x, MessageBytes(m))],
                   message |-> m]
    BY DEF TrySign, InsertSignature
  <2> HIDE DEF m
  <2> DEFINE f == t.signatures
             fj == [f EXCEPT ![SJ] = sj]
             fk == [f EXCEPT ![SK] = sk]
  <2>3. /\ TrySign(TrySign(t, j), k) = [signatures |-> [fj EXCEPT ![SK] = sk], message |-> m]
        /\ TrySign(TrySign(t, k), j) = [signatures |-> [fk EXCEPT ![SJ] = sj], message |-> m]
    <3>1. /\ \A g : TrySign([signatures |-> g, message |-> m], j) =
                       [signatures |-> [g EXCEPT ![SJ] = sj], message |-> m]
          /\ \A g : TrySign([signatures |-> g, message |-> m], k) =
                       [signatures |-> [g EXCEPT ![SK] = sk], message |-> m]
      BY <2>2, Zenon DEF SJ, SK, sj, sk
    <3> HIDE DEF f
    <3>2. t = [signatures |-> f, message |-> m]
      BY <1>1 DEF f
    <3>3. /\ TrySign(t, j) = [signatures |-> fj, message |-> m]
          /\ TrySign(t, k) = [signatures |-> fk, message |-> m]
      BY <3>1, <3>2, Zenon
    <3> HIDE DEF fj, fk
    <3> QED BY <3>1, <3>3, Zenon
  <2>4. [[t.signatures EXCEPT ![SJ] = sj] EXCEPT ![SK] = sk] =
        [[t.signatures EXCEPT ![SK] = sk] EXCEPT ![SJ] = sj]
    BY <2>1, Zenon
  <2> QED BY <2>3, <2>4
<1> QED BY <1>3, <1>4

(* A transaction verifies once every required signer has signed it, and    *)
(* not before (what the runtime checks, on the bytes serialize makes).     *)
THEOREM VerifiesWhenAllSigned ==
    ASSUME NEW Message, NEW Key, NEW Sig, NEW t \in Envelopes(Message, Key, Sig)
    PROVE  Verifies(Serialize(t)) <=> SignedSlots(t) = 1 .. Len(t.message.signers)
<1>1. /\ Serialize(t).signatures = t.signatures
      /\ Serialize(t).bytes = MessageBytes(t.message)
      /\ Serialize(t).bytes.message = t.message
  BY DEF Serialize, MessageBytes
<1>2. Len(t.signatures) = Len(t.message.signers)
  BY DEF Envelopes
<1>3. Verifies(Serialize(t)) <=>
        \A i \in 1 .. Len(t.message.signers) :
            t.signatures[i] = SignMessage(t.message.signers[i], MessageBytes(t.message))
  BY <1>1, <1>2 DEF Verifies
<1> QED BY <1>3 DEF SignedSlots

(* What a run of the signing program can be given.                         *)
Signatures == [by : Keys, over : [first : Nat, message : Messages]] \cup {NoSignature}

PendingInOrder ==
    \A w \in proposed \cup printed :
        IsVersioned(w) => Parsed(w) \in Envelopes(Messages, Keys, Signatures)

(* Every versioned transaction waiting for approval or signed before is of *)
(* the kind the theorems above are about, whoever pays its fee: so a human *)
(* who signs again, late or in another order, loses nobody's signature     *)
(* (sign_and_broadcast_sweep.rs, try_from_bytes on what was pasted).       *)
THEOREM PendingAreEnvelopes == Spec => []PendingInOrder
<1>1. IInv => PendingInOrder
  <2> SUFFICES ASSUME IInv, NEW w \in proposed \cup printed, IsVersioned(w)
               PROVE  Parsed(w) \in Envelopes(Messages, Keys, Signatures)
    BY DEF PendingInOrder
  <2>1. PICK a \in Address, h \in ConfirmedHashes :
            \/ w = Serialize(NewUnsigned(Sweep(a, h)))
            \/ w = SerializeLegacy(NewUnsigned(Sweep(a, h)))
            \/ w = Serialize(Signed(Sweep(a, h)))
    BY DEF IInv, ProposedFromNonce, PrintedFromProposed
  <2>2. h \in Hash
    BY ConfirmedHashesAreNonces DEF IInv
  <2> DEFINE m == Sweep(a, h)
  <2>3. /\ m \in Messages /\ a # Authority
        /\ m.signers = IF AuthorityPays THEN <<Authority, a>> ELSE <<a, Authority>>
    BY <2>2, SweepShape
  <2> HIDE DEF m
  <2>4. Len(m.signers) = 2 /\ m.signers[1] # m.signers[2]
    BY <2>3
  <2>5. \A i, j \in 1 .. Len(m.signers) : m.signers[i] = m.signers[j] => i = j
    <3>1. \A i \in 1 .. Len(m.signers) : i = 1 \/ i = 2
      BY <2>4
    <3> QED BY <2>4, <3>1
  <2>6. PICK t \in {NewUnsigned(m), Signed(m)} : Parsed(w) = t
    BY <2>1, <2>3, <2>4, EnvelopeShape DEF m
  <2>7. t \in Transactions /\ t.message = m /\ Len(t.signatures) = 2
    <3>1. /\ NewUnsigned(m) \in Transactions /\ Len(NewUnsigned(m).signatures) = 2
          /\ Signed(m) \in Transactions /\ Len(Signed(m).signatures) = 2
      BY <2>3, <2>4, EnvelopeShape
    <3>2. NewUnsigned(m).message = m /\ Signed(m).message = m
      BY DEF NewUnsigned, Signed
    <3> QED BY <2>6, <3>1, <3>2
  <2>8. t \in [signatures : Seq(Signatures), message : Messages] /\ m.signers \in Seq(Keys)
    BY <2>3, <2>7 DEF Transactions, Messages, Signatures
  <2> QED BY <2>4, <2>5, <2>6, <2>7, <2>8 DEF Envelopes
<1> QED BY <1>1, Invariant, PTL

=============================================================================
