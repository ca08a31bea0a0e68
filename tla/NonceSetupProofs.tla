-------------------------- MODULE NonceSetupProofs --------------------------
(***************************************************************************)
(* Proofs about NonceSetup, for any finite set of runs, any balance, age   *)
(* of block hashes and length of the chain.                                *)
(***************************************************************************)
EXTENDS NonceSetup, FiniteSetTheorems, TLAPS

Heights == height \in 1 .. MaxHeight /\ confirmed \in 1 .. height /\ finalized \in 1 .. confirmed

Unsigned(r) == \E h \in 1 .. confirmed : tx[r] = NewUnsigned(CreationMessage(r, h))

Signed(r) ==
    \E h \in 1 .. confirmed :
        tx[r] = TrySignLegacy(TrySignLegacy(NewUnsigned(CreationMessage(r, h)), Payer), r)

(* Where each run's transaction stands, and what it ended with.            *)
Progress(r) ==
    \/ pc[r] \in {"rent", "blockhash"} /\ tx[r] = NoTx /\ cause[r] = "none"
    \/ pc[r] = "sign" /\ Unsigned(r) /\ cause[r] = "none"
    \/ pc[r] \in {"send", "printed"} /\ Signed(r) /\ cause[r] = "none"
    \/ pc[r] = "failed" /\ tx[r] = NoTx /\ cause[r] = "rpc"
    \/ pc[r] = "failed" /\ Signed(r) /\ cause[r] \in {"rpc", "lost answer"}
    \/ /\ pc[r] = "failed" /\ Signed(r) /\ cause[r] = "blockhash"
       /\ confirmed > HashOf(r) + MaxAge
    \/ /\ pc[r] = "failed" /\ Signed(r) /\ cause[r] = "funds"
       /\ Cardinality(CreatedBy(confirmed)) >= Funds

(* The run's transaction was accepted by a node.                           *)
Accepted(r) ==
    \/ pc[r] = "printed"
    \/ pc[r] = "failed" /\ cause[r] = "lost answer"

(* Only what its run signed is in a node's queue, and only that creates.   *)
FromRuns ==
    /\ \A w \in pool : \E r \in Run : Accepted(r) /\ Signed(r) /\ w = SerializeLegacy(tx[r])
    /\ created \in [Run -> 0 .. height]
    /\ \A r \in Run : created[r] > 0 => Accepted(r)

Shape ==
    /\ pc \in [Run -> {"rent", "blockhash", "sign", "send"} \cup Over]
    /\ cause \in [Run -> {"none", "rpc", "lost answer", "signature", "blockhash", "funds"}]
    /\ tx = [r \in Run |-> tx[r]]

IInv == Heights /\ Shape /\ (\A r \in Run : Progress(r)) /\ FromRuns

-----------------------------------------------------------------------------
(* The envelope of a creation.                                             *)

(* Signing with both keys fills both slots with signatures over the bytes  *)
(* on the wire (transaction.rs, sign_into; the program's two try_sign).    *)
LEMMA SignedCreation ==
    ASSUME NEW r \in Run, NEW h \in Nat, NEW t,
           t = TrySignLegacy(TrySignLegacy(NewUnsigned(CreationMessage(r, h)), Payer), r)
    PROVE  /\ t = [signatures |-> << SignMessage(Payer, LegacyMessageBytes(CreationMessage(r, h))),
                                    SignMessage(r, LegacyMessageBytes(CreationMessage(r, h))) >>,
                   message |-> CreationMessage(r, h)]
           /\ Verifies(SerializeLegacy(t))
           /\ SerializeLegacy(t).bytes.message = CreationMessage(r, h)
           /\ SerializeLegacy(t).bytes.first = 2
           /\ AccountOf(SerializeLegacy(t)) = r
<1> DEFINE m == CreationMessage(r, h)
           b == LegacyMessageBytes(m)
           p == SignMessage(Payer, b)
           s == SignMessage(r, b)
           u == NewUnsigned(m)
<1>1. m = [signers |-> <<Payer, r>>, recent_blockhash |-> h] /\ Payer # r
  BY SetupAssumption DEF CreationMessage
<1>2. m.signers = <<Payer, r>> /\ Len(m.signers) = 2 /\ m.signers[1] = Payer /\ m.signers[2] = r
  BY <1>1
<1>3. u = [signatures |-> <<NoSignature, NoSignature>>, message |-> m]
  BY <1>2 DEF NewUnsigned
<1>4. SlotOf(m, Payer) = 1
  <2>1. \E i \in 1 .. 2 : m.signers[i] = Payer /\ \A j \in 1 .. i - 1 : m.signers[j] # Payer
    BY <1>2
  <2>2. SlotOf(m, Payer) \in 1 .. 2 /\ m.signers[SlotOf(m, Payer)] = Payer
    BY <1>2, <2>1 DEF SlotOf
  <2> QED BY <1>1, <1>2, <2>2
<1>5. SlotOf(m, r) = 2
  <2>1. m.signers[2] = r /\ \A j \in 1 .. 2 - 1 : m.signers[j] # r
    BY <1>1, <1>2
  <2>2. SlotOf(m, r) \in 1 .. 2 /\ m.signers[SlotOf(m, r)] = r
    BY <1>2, <2>1 DEF SlotOf
  <2> QED BY <1>1, <1>2, <2>2
<1> HIDE DEF m, b, p, s, u
<1>6. TrySignLegacy(u, Payer) = [signatures |-> <<p, NoSignature>>, message |-> m]
  BY <1>3, <1>4 DEF TrySignLegacy, InsertSignature, b, p
<1>7. TrySignLegacy(TrySignLegacy(u, Payer), r) = [signatures |-> <<p, s>>, message |-> m]
  <2> DEFINE v == [signatures |-> <<p, NoSignature>>, message |-> m]
  <2>1. TrySignLegacy(v, r) = [signatures |-> <<p, s>>, message |-> m]
    BY <1>5 DEF TrySignLegacy, InsertSignature, b, s
  <2> QED BY <1>6, <2>1
<1>8. t = [signatures |-> <<p, s>>, message |-> m]
  BY <1>7 DEF m, u
<1>9. SerializeLegacy(t) = [signatures |-> <<p, s>>, bytes |-> b] /\ b = [first |-> 2, message |-> m]
  <2>1. b = [first |-> 2, message |-> m]
    BY <1>2 DEF LegacyMessageBytes, b
  <2>2. SerializeLegacy(t) = [signatures |-> <<p, s>>, bytes |-> b]
    BY <1>8 DEF SerializeLegacy, b
  <2> QED BY <2>1, <2>2
<1>10. Verifies(SerializeLegacy(t))
  <2> DEFINE w == SerializeLegacy(t)
  <2>1. w.signatures = <<p, s>> /\ w.bytes = b /\ w.bytes.message = m
    BY <1>9
  <2> HIDE DEF w
  <2>2. Len(w.signatures) = 2 /\ w.signatures[1] = p /\ w.signatures[2] = s
    BY <2>1
  <2>3. SignMessage(m.signers[1], w.bytes) = p /\ SignMessage(m.signers[2], w.bytes) = s
    BY <1>2, <2>1 DEF p, s
  <2>4. \A i \in 1 .. 2 : w.signatures[i] = SignMessage(m.signers[i], w.bytes)
    <3> SUFFICES ASSUME NEW i \in 1 .. 2
                 PROVE  w.signatures[i] = SignMessage(m.signers[i], w.bytes)
      OBVIOUS
    <3>1. i = 1 \/ i = 2
      OBVIOUS
    <3> QED BY <2>2, <2>3, <3>1
  <2>5. Verifies(w)
    BY <1>2, <2>1, <2>2, <2>4, Zenon DEF Verifies
  <2> QED BY <2>5 DEF w
<1>11. AccountOf(SerializeLegacy(t)) = r
  BY <1>2, <1>9 DEF AccountOf
<1> QED BY <1>8, <1>9, <1>10, <1>11 DEF m, b, p, s

(* What a signed run sends: it verifies, and names the run's own account.  *)
LEMMA SignedRun ==
    ASSUME NEW r \in Run, Signed(r), Heights
    PROVE  /\ Verifies(SerializeLegacy(tx[r]))
           /\ AccountOf(SerializeLegacy(tx[r])) = r
           /\ SerializeLegacy(tx[r]).bytes.message.recent_blockhash = HashOf(r)
           /\ SerializeLegacy(tx[r]).bytes.first = 2
           /\ SerializeLegacy(tx[r]).bytes.message \in Messages
           /\ tx[r].message \in Messages
           /\ Len(tx[r].signatures) = 2
           /\ \A i \in 1 .. 2 : tx[r].signatures[i] \in Signatures
           /\ HashOf(r) \in 1 .. confirmed
<1>1. PICK h \in 1 .. confirmed :
        tx[r] = TrySignLegacy(TrySignLegacy(NewUnsigned(CreationMessage(r, h)), Payer), r)
  BY DEF Signed
<1>2. h \in Nat /\ h \in 1 .. MaxHeight
  BY SetupAssumption DEF Heights
<1> DEFINE m == CreationMessage(r, h)
           b == LegacyMessageBytes(m)
<1>3. /\ tx[r] = [signatures |-> <<SignMessage(Payer, b), SignMessage(r, b)>>, message |-> m]
      /\ Verifies(SerializeLegacy(tx[r]))
      /\ SerializeLegacy(tx[r]).bytes.message = m
      /\ SerializeLegacy(tx[r]).bytes.first = 2
      /\ AccountOf(SerializeLegacy(tx[r])) = r
  BY <1>1, <1>2, SignedCreation
<1>4. m = [signers |-> <<Payer, r>>, recent_blockhash |-> h] /\ m \in Messages /\ m.recent_blockhash = h
  BY <1>2 DEF CreationMessage, Messages
<1>5. b = [first |-> 2, message |-> m]
  BY <1>4 DEF LegacyMessageBytes
<1> HIDE DEF m, b
<1>6. \A k \in Run \cup {Payer} : SignMessage(k, b) \in Signatures
  BY <1>4, <1>5 DEF SignMessage, Signatures
<1> QED BY <1>3, <1>4, <1>6 DEF HashOf

(* The accounts made up to a height are finitely many, and no fewer later. *)
LEMMA CreatedGrows ==
    ASSUME IsFiniteSet(Run), NEW X \in SUBSET Run, NEW Y \in SUBSET Run, X \subseteq Y,
           Cardinality(X) >= Funds
    PROVE  Cardinality(Y) >= Funds
<1>1. IsFiniteSet(Y) /\ IsFiniteSet(X)
  BY FS_Subset
<1>2. Cardinality(X) <= Cardinality(Y) /\ Cardinality(X) \in Nat /\ Cardinality(Y) \in Nat
  BY <1>1, FS_Subset, FS_CardinalityType
<1> QED BY <1>2, SetupAssumption

-----------------------------------------------------------------------------
(* The steps.                                                              *)

(* The invariant holds initially.                                          *)
LEMMA InitIInv == Init => IInv
<1> SUFFICES ASSUME Init PROVE IInv
  OBVIOUS
<1>1. MaxHeight \in Nat \ {0}
  BY SetupAssumption
<1> QED BY <1>1 DEF Init, IInv, Heights, Shape, Over, Progress, FromRuns

(* A step of a run that leaves the cluster and the queue alone keeps the   *)
(* invariant when it leaves that run where Progress says.                  *)
LEMMA QuietStep ==
    ASSUME IInv, NEW r \in Run, UNCHANGED <<cluster, pool>>, Shape', ~Accepted(r),
           \A s \in Run \ {r} : pc'[s] = pc[s] /\ tx'[s] = tx[s] /\ cause'[s] = cause[s],
           Progress(r)'
    PROVE  IInv'
<1>1. UNCHANGED <<height, confirmed, finalized, created, pool>>
  BY DEF cluster
<1>2. \A s \in Run \ {r} : Progress(s)' /\ (Signed(s)' <=> Signed(s)) /\ (Accepted(s)' <=> Accepted(s))
  <2> SUFFICES ASSUME NEW s \in Run \ {r}
               PROVE  Progress(s)' /\ (Signed(s)' <=> Signed(s)) /\ (Accepted(s)' <=> Accepted(s))
    OBVIOUS
  <2>1. pc'[s] = pc[s] /\ tx'[s] = tx[s] /\ cause'[s] = cause[s]
    OBVIOUS
  <2>2. /\ Signed(s)' <=> Signed(s)
        /\ Unsigned(s)' <=> Unsigned(s)
        /\ Accepted(s)' <=> Accepted(s)
        /\ HashOf(s)' = HashOf(s)
    BY <1>1, <2>1 DEF Signed, Unsigned, HashOf, Accepted
  <2>3. CreatedBy(confirmed)' = CreatedBy(confirmed) /\ confirmed' = confirmed
    BY <1>1 DEF CreatedBy
  <2>4. Progress(s)
    BY DEF IInv
  <2>5. Progress(s)'
    BY <2>1, <2>2, <2>3, <2>4 DEF Progress
  <2> QED BY <2>2, <2>5
<1>3. FromRuns'
  <2>1. \A w \in pool : \E s \in Run \ {r} : Accepted(s) /\ Signed(s) /\ w = SerializeLegacy(tx[s])
    BY DEF IInv, FromRuns
  <2>2. \A w \in pool' : \E s \in Run : (Accepted(s) /\ Signed(s))' /\ w = SerializeLegacy(tx'[s])
    BY <1>1, <1>2, <2>1
  <2>3. \A s \in Run : created[s] > 0 => s # r
    BY DEF IInv, FromRuns
  <2> QED BY <1>1, <1>2, <2>2, <2>3 DEF IInv, FromRuns
<1> QED BY <1>1, <1>2, <1>3 DEF IInv, Heights

(* The requests before the transaction is signed, and the signing.         *)
LEMMA PrepareStep ==
    ASSUME IInv, NEW r \in Run, FetchRent(r) \/ FetchBlockhash(r) \/ Sign(r)
    PROVE  IInv'
<1>1. Progress(r) /\ Shape
  BY DEF IInv
<1>2. CASE FetchRent(r)
  <2>1. /\ pc[r] = "rent" /\ tx' = tx /\ UNCHANGED <<cluster, pool>>
        /\ \/ pc' = [pc EXCEPT ![r] = "blockhash"] /\ cause' = cause
           \/ pc' = [pc EXCEPT ![r] = "failed"] /\ cause' = [cause EXCEPT ![r] = "rpc"]
    BY <1>2 DEF FetchRent, Fail
  <2>2. Shape' /\ Progress(r)'
    BY <1>1, <2>1 DEF Shape, Over, Progress
  <2> QED BY <1>1, <2>1, <2>2, QuietStep DEF Shape, Accepted
<1>3. CASE FetchBlockhash(r)
  <2>1. /\ pc[r] = "blockhash" /\ UNCHANGED <<cluster, pool>> /\ confirmed' = confirmed
        /\ \/ /\ tx' = [tx EXCEPT ![r] = NewUnsigned(CreationMessage(r, confirmed))]
              /\ pc' = [pc EXCEPT ![r] = "sign"] /\ cause' = cause
           \/ /\ tx' = tx
              /\ pc' = [pc EXCEPT ![r] = "failed"] /\ cause' = [cause EXCEPT ![r] = "rpc"]
    BY <1>3 DEF FetchBlockhash, Fail, cluster
  <2>2. confirmed \in 1 .. confirmed
    BY DEF IInv, Heights
  <2>3. tx[r] = NoTx /\ cause[r] = "none"
    BY <1>1, <2>1 DEF Progress
  <2>4. Shape'
    BY <1>1, <2>1 DEF Shape, Over
  <2>5. Progress(r)'
    BY <1>1, <2>1, <2>2, <2>3 DEF Shape, Progress, Unsigned
  <2> QED BY <1>1, <2>1, <2>4, <2>5, QuietStep DEF Shape, Accepted
<1>4. CASE Sign(r)
  <2>1. /\ pc[r] = "sign" /\ UNCHANGED <<cluster, pool>> /\ confirmed' = confirmed /\ cause' = cause
        /\ tx' = [tx EXCEPT ![r] = TrySignLegacy(TrySignLegacy(tx[r], Payer), r)]
        /\ pc' = [pc EXCEPT ![r] = "send"]
    BY <1>4 DEF Sign, cluster
  <2>2. Unsigned(r) /\ cause[r] = "none"
    BY <1>1, <2>1 DEF Progress
  <2>3. Shape'
    BY <1>1, <2>1 DEF Shape, Over
  <2>4. tx'[r] = TrySignLegacy(TrySignLegacy(tx[r], Payer), r)
    BY <1>1, <2>1 DEF Shape
  <2>5. Signed(r)'
    BY <2>1, <2>2, <2>4 DEF Unsigned, Signed
  <2>6. Progress(r)'
    BY <1>1, <2>1, <2>2, <2>5 DEF Shape, Progress
  <2> QED BY <1>1, <2>1, <2>3, <2>6, QuietStep DEF Shape, Accepted
<1> QED BY <1>2, <1>3, <1>4

(* Sending: accepted and printed, accepted with the answer lost, or        *)
(* refused with its cause on the confirmed chain (send_transaction).       *)
LEMMA SendStep ==
    ASSUME IsFiniteSet(Run), IInv, NEW r \in Run, Send(r)
    PROVE  IInv'
<1> DEFINE w == SerializeLegacy(tx[r])
<1>1. Progress(r) /\ Shape /\ Heights /\ pc[r] = "send" /\ Signed(r) /\ cause[r] = "none"
  BY DEF IInv, Send, Progress
<1>2. /\ Verifies(w) /\ AccountOf(w) = r /\ w.bytes.message.recent_blockhash = HashOf(r)
      /\ HashOf(r) \in 1 .. confirmed
  BY <1>1, SignedRun
<1>3. /\ UNCHANGED <<height, confirmed, finalized, created, tx, cluster>>
  BY DEF Send, cluster
<1>4. \/ /\ pool' = pool \cup {w}
         /\ \/ pc' = [pc EXCEPT ![r] = "printed"] /\ cause' = cause
            \/ pc' = [pc EXCEPT ![r] = "failed"] /\ cause' = [cause EXCEPT ![r] = "lost answer"]
      \/ /\ pool' = pool /\ pc' = [pc EXCEPT ![r] = "failed"]
         /\ \/ ~KnownHash(confirmed, HashOf(r)) /\ cause' = [cause EXCEPT ![r] = "blockhash"]
            \/ /\ KnownHash(confirmed, HashOf(r)) /\ ~Executes(confirmed, w)
               /\ cause' = [cause EXCEPT ![r] = "funds"]
            \/ cause' = [cause EXCEPT ![r] = "rpc"]
  BY <1>2 DEF Send, Fail, PreflightBank
<1>5. Shape'
  BY <1>1, <1>3, <1>4 DEF Shape, Over
<1>6. \A s \in Run \ {r} : pc'[s] = pc[s] /\ tx'[s] = tx[s] /\ cause'[s] = cause[s]
  BY <1>1, <1>3, <1>4 DEF Shape
<1>7. ~Accepted(r)
  BY <1>1 DEF Accepted
<1>8. Signed(r)' /\ HashOf(r)' = HashOf(r) /\ CreatedBy(confirmed)' = CreatedBy(confirmed)
  BY <1>1, <1>3 DEF Signed, HashOf, CreatedBy
<1>9. CASE pool' = pool \cup {w} /\ (\/ pc' = [pc EXCEPT ![r] = "printed"] /\ cause' = cause
                                     \/ /\ pc' = [pc EXCEPT ![r] = "failed"]
                                        /\ cause' = [cause EXCEPT ![r] = "lost answer"])
  <2>1. Progress(r)' /\ Accepted(r)'
    <3>1. \/ pc'[r] = "printed" /\ cause'[r] = cause[r]
          \/ pc'[r] = "failed" /\ cause'[r] = "lost answer"
      BY <1>1, <1>9 DEF Shape
    <3>2. Accepted(r)'
      BY <3>1 DEF Accepted
    <3> QED BY <1>1, <1>8, <3>1, <3>2 DEF Progress
  <2>2. \A s \in Run \ {r} : Progress(s)' /\ (Signed(s)' <=> Signed(s)) /\ (Accepted(s)' <=> Accepted(s))
    <3> SUFFICES ASSUME NEW s \in Run \ {r}
                 PROVE  Progress(s)' /\ (Signed(s)' <=> Signed(s)) /\ (Accepted(s)' <=> Accepted(s))
      OBVIOUS
    <3>1. pc'[s] = pc[s] /\ tx'[s] = tx[s] /\ cause'[s] = cause[s] /\ confirmed' = confirmed
      BY <1>3, <1>6
    <3>2. (Signed(s)' <=> Signed(s)) /\ (Unsigned(s)' <=> Unsigned(s)) /\ HashOf(s)' = HashOf(s)
      BY <3>1 DEF Signed, Unsigned, HashOf
    <3>3. Accepted(s)' <=> Accepted(s)
      BY <3>1 DEF Accepted
    <3>4. Progress(s)
      BY DEF IInv
    <3>5. Progress(s)'
      BY <1>8, <3>1, <3>2, <3>4 DEF Progress
    <3> QED BY <3>2, <3>3, <3>5
  <2>3. \A v \in pool : \E s \in Run : (Accepted(s) /\ Signed(s))' /\ v = SerializeLegacy(tx'[s])
    BY <1>3, <1>7, <2>2 DEF IInv, FromRuns
  <2>4. \A v \in pool' : \E s \in Run : (Accepted(s) /\ Signed(s))' /\ v = SerializeLegacy(tx'[s])
    BY <1>3, <1>8, <1>9, <2>1, <2>3
  <2>5. FromRuns'
    BY <1>3, <1>7, <2>2, <2>4 DEF IInv, FromRuns
  <2> QED BY <1>3, <1>5, <2>1, <2>2, <2>5 DEF IInv, Heights
<1>10. CASE pool' = pool /\ pc' = [pc EXCEPT ![r] = "failed"] /\ cause' = [cause EXCEPT ![r] = "rpc"]
  <2>1. Progress(r)'
    BY <1>1, <1>8, <1>10 DEF Shape, Progress
  <2> QED BY <1>3, <1>5, <1>6, <1>7, <1>10, <2>1, QuietStep
<1>11. CASE /\ pool' = pool /\ pc' = [pc EXCEPT ![r] = "failed"]
            /\ ~KnownHash(confirmed, HashOf(r)) /\ cause' = [cause EXCEPT ![r] = "blockhash"]
  <2>1. confirmed > HashOf(r) + MaxAge
    BY <1>1, <1>2, <1>11, SetupAssumption DEF KnownHash, Heights
  <2>2. Progress(r)'
    BY <1>1, <1>3, <1>8, <1>11, <2>1 DEF Shape, Progress
  <2> QED BY <1>3, <1>5, <1>6, <1>7, <1>11, <2>2, QuietStep
<1>12. CASE /\ pool' = pool /\ pc' = [pc EXCEPT ![r] = "failed"]
            /\ KnownHash(confirmed, HashOf(r)) /\ ~Executes(confirmed, w)
            /\ cause' = [cause EXCEPT ![r] = "funds"]
  <2>1. r \notin CreatedBy(confirmed)
    <3>1. ~(created[r] > 0)
      BY <1>7 DEF IInv, FromRuns
    <3> QED BY <1>1, <3>1 DEF CreatedBy, Heights
  <2>2. ~(Cardinality(CreatedBy(confirmed)) < Funds)
    BY <1>2, <1>12, <2>1 DEF Executes
  <2>3. Cardinality(CreatedBy(confirmed)) >= Funds
    <3>1. IsFiniteSet(CreatedBy(confirmed))
      BY FS_Subset DEF CreatedBy
    <3>2. Cardinality(CreatedBy(confirmed)) \in Nat
      BY <3>1, FS_CardinalityType
    <3> QED BY <2>2, <3>2, SetupAssumption
  <2>4. Progress(r)'
    BY <1>1, <1>3, <1>8, <1>12, <2>3 DEF Shape, Progress
  <2> QED BY <1>3, <1>5, <1>6, <1>7, <1>12, <2>4, QuietStep
<1> QED BY <1>4, <1>9, <1>10, <1>11, <1>12

(* A step of the cluster keeps the invariant when the confirmed chain does *)
(* not shrink and nothing is created but from the queue.                   *)
LEMMA ClusterStep ==
    ASSUME IsFiniteSet(Run), IInv, UNCHANGED <<pool, pc, tx, cause>>, Heights',
           confirmed' >= confirmed, created' \in [Run -> 0 .. height'],
           CreatedBy(confirmed) \subseteq CreatedBy(confirmed)',
           \A r \in Run : created'[r] > 0 => Accepted(r)
    PROVE  IInv'
<1>1. confirmed \in Nat /\ confirmed' \in Nat /\ Heights
  BY DEF IInv, Heights
<1>2. \A r \in Run : /\ Unsigned(r) => Unsigned(r)'
                     /\ Signed(r) => Signed(r)'
                     /\ Accepted(r)' <=> Accepted(r)
                     /\ HashOf(r)' = HashOf(r)
  <2> SUFFICES ASSUME NEW r \in Run
               PROVE  /\ Unsigned(r) => Unsigned(r)'
                      /\ Signed(r) => Signed(r)'
                      /\ Accepted(r)' <=> Accepted(r)
                      /\ HashOf(r)' = HashOf(r)
    OBVIOUS
  <2>1. Accepted(r)' <=> Accepted(r)
    BY DEF Accepted
  <2>2. HashOf(r)' = HashOf(r)
    BY DEF HashOf
  <2>3. 1 .. confirmed \subseteq 1 .. confirmed'
    BY <1>1
  <2>4. Unsigned(r) => Unsigned(r)'
    BY <2>3 DEF Unsigned
  <2>5. Signed(r) => Signed(r)'
    BY <2>3 DEF Signed
  <2> QED BY <2>1, <2>2, <2>4, <2>5
<1>3. Cardinality(CreatedBy(confirmed)) >= Funds => Cardinality(CreatedBy(confirmed))' >= Funds
  BY CreatedGrows DEF CreatedBy
<1>4. \A r \in Run : Progress(r)'
  <2> SUFFICES ASSUME NEW r \in Run PROVE Progress(r)'
    OBVIOUS
  <2>1. Signed(r) => HashOf(r) \in Nat
    BY <1>1, SignedRun
  <2>2. Signed(r) /\ confirmed > HashOf(r) + MaxAge => confirmed' > HashOf(r) + MaxAge
    BY <1>1, <2>1, SetupAssumption
  <2> QED BY <1>2, <1>3, <2>2 DEF IInv, Progress
<1>5. FromRuns'
  BY <1>2 DEF IInv, FromRuns
<1> QED BY <1>4, <1>5 DEF IInv, Shape

(* Blocks are made, confirmed, finalized and abandoned.                    *)
LEMMA ChainStep ==
    ASSUME IsFiniteSet(Run), IInv,
           (\E w \in pool : Include(w)) \/ EmptyBlock \/ Confirm \/ Finalize \/ ForkSwitch
    PROVE  IInv'
<1>1. /\ Heights /\ MaxHeight \in Nat /\ height \in Nat /\ confirmed \in Nat /\ finalized \in Nat
      /\ created \in [Run -> 0 .. height]
      /\ \A r \in Run : created[r] > 0 => Accepted(r)
  BY SetupAssumption DEF IInv, Heights, FromRuns
<1>2. ASSUME NEW w \in pool, Include(w)
      PROVE  IInv'
  <2>1. PICK r \in Run : Accepted(r) /\ Signed(r) /\ w = SerializeLegacy(tx[r])
    BY DEF IInv, FromRuns
  <2>2. AccountOf(w) = r
    BY <1>1, <2>1, SignedRun
  <2>3. /\ height' = height + 1 /\ height < MaxHeight
        /\ created' = [created EXCEPT ![r] = height + 1]
        /\ UNCHANGED <<confirmed, finalized, pool, pc, tx, cause>>
        /\ r \notin CreatedBy(height)
    BY <1>2, <2>2 DEF Include, Executes
  <2>4. Heights' /\ created' \in [Run -> 0 .. height'] /\ confirmed' >= confirmed
    BY <1>1, <2>3 DEF Heights
  <2>5. CreatedBy(confirmed) \subseteq CreatedBy(confirmed)'
    BY <1>1, <2>3 DEF CreatedBy, Heights
  <2>6. \A s \in Run : created'[s] > 0 => Accepted(s)
    BY <1>1, <2>1, <2>3
  <2> QED BY <2>3, <2>4, <2>5, <2>6, ClusterStep
<1>3. CASE EmptyBlock \/ Confirm \/ Finalize
  <2>1. /\ UNCHANGED <<created, pool, pc, tx, cause>> /\ Heights'
        /\ confirmed' >= confirmed /\ height' >= height /\ height' \in Nat /\ confirmed' \in Nat
    BY <1>1, <1>3 DEF EmptyBlock, Confirm, Finalize, Heights
  <2>2. created' \in [Run -> 0 .. height']
    BY <1>1, <2>1
  <2>3. CreatedBy(confirmed) \subseteq CreatedBy(confirmed)'
    BY <1>1, <2>1 DEF CreatedBy
  <2> QED BY <1>1, <2>1, <2>2, <2>3, ClusterStep
<1>4. CASE ForkSwitch
  <2>1. PICK h \in confirmed .. height - 1 :
          /\ height' = h
          /\ created' = [r \in Run |-> IF created[r] > h THEN 0 ELSE created[r]]
    BY <1>4 DEF ForkSwitch
  <2>2. UNCHANGED <<confirmed, finalized, pool, pc, tx, cause>>
    BY <1>4 DEF ForkSwitch
  <2>3. Heights' /\ created' \in [Run -> 0 .. height'] /\ confirmed' >= confirmed
    BY <1>1, <2>1, <2>2 DEF Heights
  <2>4. CreatedBy(confirmed) \subseteq CreatedBy(confirmed)'
    BY <1>1, <2>1, <2>2 DEF CreatedBy, Heights
  <2> QED BY <1>1, <2>1, <2>2, <2>3, <2>4, ClusterStep
<1> QED BY <1>2, <1>3, <1>4

(* Every step keeps the invariant.                                         *)
LEMMA NextIInv ==
    ASSUME IsFiniteSet(Run), IInv, [Next]_vars
    PROVE  IInv'
<1>1. CASE Next
  BY <1>1, PrepareStep, SendStep, ChainStep DEF Next
<1>2. CASE UNCHANGED vars
  <2>1. UNCHANGED <<height, confirmed, finalized, created, pool, pc, tx, cause>>
    BY <1>2 DEF vars
  <2>2. confirmed \in Nat /\ created \in [Run -> 0 .. height] /\ \A r \in Run : created[r] > 0 => Accepted(r)
    BY DEF IInv, Heights, FromRuns
  <2>3. Heights' /\ CreatedBy(confirmed) \subseteq CreatedBy(confirmed)'
    BY <2>1 DEF IInv, Heights, CreatedBy
  <2> QED BY <2>1, <2>2, <2>3, ClusterStep
<1> QED BY <1>1, <1>2

-----------------------------------------------------------------------------

(* Every state satisfies the invariant (create_durable_nonce_account.rs).  *)
THEOREM Invariant == IsFiniteSet(Run) => (Spec => []IInv)
<1> SUFFICES ASSUME IsFiniteSet(Run) PROVE Spec => []IInv
  OBVIOUS
<1>1. IInv /\ [Next]_vars => IInv'
  BY NextIInv
<1> QED BY InitIInv, <1>1, PTL DEF Spec

(* A refusal has its cause on the confirmed chain: an aged block hash or   *)
(* spent funds, never a signature (send_transaction's commitment).         *)
THEOREM RefusalsJustified == IsFiniteSet(Run) => (Spec => []RefusedForCause)
<1> SUFFICES ASSUME IsFiniteSet(Run) PROVE Spec => []RefusedForCause
  OBVIOUS
<1>1. IInv => RefusedForCause
  BY DEF IInv, Progress, RefusedForCause
<1>2. Spec => []IInv
  BY Invariant
<1> QED BY <1>1, <1>2, PTL

(* Rent spent by a run that is over was reported, unless the answer was    *)
(* lost (the program's last match).                                        *)
THEOREM SpendingReported == IsFiniteSet(Run) => (Spec => []SpentIsReported)
<1> SUFFICES ASSUME IsFiniteSet(Run) PROVE Spec => []SpentIsReported
  OBVIOUS
<1>1. IInv => SpentIsReported
  BY DEF IInv, FromRuns, Accepted, SpentIsReported
<1>2. Spec => []IInv
  BY Invariant
<1> QED BY <1>1, <1>2, PTL

(* The chain heights stay in order, and every transaction is a creation    *)
(* with two slots that hold nothing but the two signatures.                *)
THEOREM TypeCorrect == IsFiniteSet(Run) => (Spec => []TypeOK)
<1> SUFFICES ASSUME IsFiniteSet(Run) PROVE Spec => []TypeOK
  OBVIOUS
<1>1. IInv => TypeOK
  <2> SUFFICES ASSUME IInv PROVE TypeOK
    OBVIOUS
  <2>1. Heights /\ Shape /\ FromRuns
    BY DEF IInv
  <2>2. \A w \in pool : w.bytes.first = 2 /\ w.bytes.message \in Messages
    BY <2>1, SignedRun DEF FromRuns
  <2>3. ASSUME NEW r \in Run, tx[r] # NoTx
        PROVE  /\ tx[r].message \in Messages /\ Len(tx[r].signatures) = 2
               /\ \A i \in 1 .. 2 : tx[r].signatures[i] \in Signatures \cup {NoSignature}
    <3>1. CASE Signed(r)
      BY <2>1, <3>1, SignedRun
    <3>2. CASE Unsigned(r)
      <4>1. PICK h \in 1 .. confirmed : tx[r] = NewUnsigned(CreationMessage(r, h))
        BY <3>2 DEF Unsigned
      <4>2. CreationMessage(r, h) \in Messages /\ Len(CreationMessage(r, h).signers) = 2
        BY <2>1, SetupAssumption DEF CreationMessage, Messages, Heights
      <4> QED BY <4>1, <4>2 DEF NewUnsigned
    <3>3. Signed(r) \/ Unsigned(r)
      BY <2>3 DEF IInv, Progress
    <3> QED BY <3>1, <3>2, <3>3
  <2> QED BY <2>1, <2>2, <2>3 DEF TypeOK, Heights, Shape, FromRuns
<1>2. Spec => []IInv
  BY Invariant
<1> QED BY <1>1, <1>2, PTL

-----------------------------------------------------------------------------
(* When the outcome of a run is settled.                                   *)

(* No account is created on a block hash that has run out.                 *)
InTime == \A r \in Run : created[r] > 0 => created[r] <= HashOf(r) + MaxAge + 1

(* What a step does to the accounts and to the transactions behind them:   *)
(* it leaves both alone, creates an account on a hash still known, or      *)
(* abandons blocks above the confirmed ones.                               *)
LEMMA CreationStep ==
    ASSUME IInv, [Next]_vars
    PROVE  /\ \A r \in Run : pc[r] \notin {"rent", "blockhash"} => HashOf(r)' = HashOf(r)
           /\ \/ created' = created
              \/ \E r \in Run : /\ HashOf(r) \in Nat /\ HashOf(r)' = HashOf(r)
                               /\ height - HashOf(r) <= MaxAge
                               /\ created' = [created EXCEPT ![r] = height + 1]
              \/ \E h \in confirmed .. height - 1 :
                     created' = [r \in Run |-> IF created[r] > h THEN 0 ELSE created[r]]
<1>1. Heights /\ Shape /\ \A r \in Run : Progress(r)
  BY DEF IInv
<1>2. ASSUME NEW r \in Run, FetchRent(r) \/ FetchBlockhash(r) \/ Send(r)
      PROVE  /\ \A s \in Run : pc[s] \notin {"rent", "blockhash"} => HashOf(s)' = HashOf(s)
             /\ created' = created
  <2>1. created' = created
    BY <1>2 DEF FetchRent, FetchBlockhash, Send, cluster
  <2>2. CASE tx' = tx
    BY <2>1, <2>2 DEF HashOf
  <2>3. CASE FetchBlockhash(r)
    <3>1. pc[r] = "blockhash" /\ \A s \in Run \ {r} : tx'[s] = tx[s]
      BY <1>1, <2>3 DEF FetchBlockhash, Shape
    <3> QED BY <2>1, <3>1 DEF HashOf
  <2> QED BY <1>2, <2>2, <2>3 DEF FetchRent, Send
<1>3. ASSUME NEW r \in Run, Sign(r)
      PROVE  /\ \A s \in Run : HashOf(s)' = HashOf(s)
             /\ created' = created
  <2>1. /\ tx' = [tx EXCEPT ![r] = TrySignLegacy(TrySignLegacy(tx[r], Payer), r)]
        /\ created' = created /\ pc[r] = "sign"
    BY <1>3 DEF Sign, cluster
  <2>2. Unsigned(r)
    BY <1>1, <2>1 DEF Progress
  <2>3. PICK h \in 1 .. confirmed : tx[r] = NewUnsigned(CreationMessage(r, h))
    BY <2>2 DEF Unsigned
  <2>4. h \in Nat
    BY <1>1, <2>3 DEF Heights
  <2>5. tx'[r] = TrySignLegacy(TrySignLegacy(NewUnsigned(CreationMessage(r, h)), Payer), r)
    BY <1>1, <2>1, <2>3 DEF Shape
  <2>6. tx'[r].message = CreationMessage(r, h)
    BY <2>4, <2>5, SignedCreation
  <2>7. tx[r].message = CreationMessage(r, h)
    BY <2>3 DEF NewUnsigned
  <2>8. \A s \in Run \ {r} : tx'[s] = tx[s]
    BY <1>1, <2>1 DEF Shape
  <2> QED BY <2>1, <2>6, <2>7, <2>8 DEF HashOf
<1>4. ASSUME NEW w \in pool, Include(w)
      PROVE  /\ tx' = tx
             /\ \E r \in Run : /\ HashOf(r) \in Nat /\ HashOf(r)' = HashOf(r)
                              /\ height - HashOf(r) <= MaxAge
                              /\ created' = [created EXCEPT ![r] = height + 1]
  <2>1. PICK r \in Run : Accepted(r) /\ Signed(r) /\ w = SerializeLegacy(tx[r])
    BY DEF IInv, FromRuns
  <2>2. AccountOf(w) = r /\ w.bytes.message.recent_blockhash = HashOf(r)
    BY <1>1, <2>1, SignedRun
  <2>3. HashOf(r) \in Nat
    BY <1>1, <2>1, SignedRun DEF Heights
  <2>4. /\ tx' = tx /\ created' = [created EXCEPT ![r] = height + 1]
        /\ height - HashOf(r) <= MaxAge
    BY <1>4, <2>2 DEF Include, Executes, KnownHash
  <2>5. HashOf(r)' = HashOf(r)
    BY <2>4 DEF HashOf
  <2> QED BY <2>3, <2>4, <2>5
<1>5. CASE EmptyBlock \/ Confirm \/ Finalize \/ UNCHANGED vars
  BY <1>5 DEF EmptyBlock, Confirm, Finalize, vars, HashOf
<1>6. CASE ForkSwitch
  BY <1>6 DEF ForkSwitch, HashOf
<1>7. (\E w \in pool : Include(w)) => \A r \in Run : HashOf(r)' = HashOf(r)
  BY <1>4 DEF HashOf
<1> QED BY <1>2, <1>3, <1>4, <1>5, <1>6, <1>7 DEF Next

(* A run past its fetches has a block hash of the confirmed chain's; what  *)
(* is created belongs to such a run.                                       *)
LEMMA HashFetched ==
    ASSUME IInv, NEW r \in Run, pc[r] \notin {"rent", "blockhash"}, tx[r] # NoTx
    PROVE  HashOf(r) \in Nat
<1>1. Heights /\ Progress(r) /\ confirmed \in Nat
  BY DEF IInv, Heights
<1>2. CASE Signed(r)
  BY <1>1, <1>2, SignedRun
<1>3. CASE Unsigned(r)
  <2>1. PICK h \in 1 .. confirmed : tx[r] = NewUnsigned(CreationMessage(r, h))
    BY <1>3 DEF Unsigned
  <2>2. HashOf(r) = h
    BY <2>1 DEF HashOf, NewUnsigned, CreationMessage
  <2> QED BY <1>1, <2>1, <2>2
<1> QED BY <1>1, <1>2, <1>3 DEF Progress

(* An account made was accepted by a node, from a run that had signed.     *)
LEMMA CreatorSigned ==
    ASSUME IInv, NEW r \in Run, created[r] > 0
    PROVE  pc[r] \notin {"rent", "blockhash"} /\ HashOf(r) \in Nat
<1>1. Heights /\ confirmed \in Nat /\ Accepted(r) /\ Progress(r)
  BY DEF IInv, Heights, FromRuns
<1>2. Signed(r) /\ pc[r] \notin {"rent", "blockhash"}
  BY <1>1 DEF Accepted, Progress
<1> QED BY <1>1, <1>2, SignedRun

(* A creation in time stays in time.                                       *)
LEMMA InTimeStep ==
    ASSUME IInv, InTime, [Next]_vars
    PROVE  InTime'
<1> SUFFICES ASSUME NEW r \in Run, created'[r] > 0
             PROVE  created'[r] <= HashOf(r)' + MaxAge + 1
  BY DEF InTime
<1>1. /\ height \in Nat /\ confirmed \in Nat /\ MaxAge \in Nat
      /\ created \in [Run -> 0 .. height] /\ created[r] \in Nat
  BY SetupAssumption DEF IInv, Heights, FromRuns
<1>2. created[r] > 0 /\ created'[r] = created[r] => created'[r] <= HashOf(r)' + MaxAge + 1
  BY CreatorSigned, CreationStep DEF InTime
<1>3. ASSUME NEW q \in Run, HashOf(q) \in Nat, HashOf(q)' = HashOf(q),
             height - HashOf(q) <= MaxAge, created' = [created EXCEPT ![q] = height + 1]
      PROVE  created'[r] <= HashOf(r)' + MaxAge + 1
  <2>1. CASE r # q
    BY <1>1, <1>2, <1>3, <2>1
  <2>2. CASE r = q
    BY <1>1, <1>3, <2>2
  <2> QED BY <2>1, <2>2
<1>4. ASSUME NEW h \in confirmed .. height - 1,
             created' = [s \in Run |-> IF created[s] > h THEN 0 ELSE created[s]]
      PROVE  created'[r] <= HashOf(r)' + MaxAge + 1
  <2>1. created'[r] = created[r]
    BY <1>4
  <2> QED BY <1>2, <2>1
<1>5. CASE created' = created
  BY <1>2, <1>5
<1> QED BY <1>3, <1>4, <1>5, CreationStep

(* In every state nothing was created on a block hash that had run out.    *)
THEOREM CreationsInTime == IsFiniteSet(Run) => (Spec => []InTime)
<1> SUFFICES ASSUME IsFiniteSet(Run) PROVE Spec => []InTime
  OBVIOUS
<1>1. Init => InTime
  BY DEF Init, InTime
<1>2. IInv /\ InTime /\ [Next]_vars => InTime'
  BY InTimeStep
<1>3. Spec => []IInv
  BY Invariant
<1> QED BY <1>1, <1>2, <1>3, PTL DEF Spec

(* What became of a run is settled once the confirmed chain has outlived   *)
(* its block hash: no step makes its account any more or unmakes it        *)
(* (create_durable_nonce_account.rs, what main prints on acceptance).      *)
THEOREM OutcomesSettle == IsFiniteSet(Run) => (Spec => OutcomeIsFinal)
<1> SUFFICES ASSUME IsFiniteSet(Run) PROVE Spec => OutcomeIsFinal
  OBVIOUS
<1>1. IInv /\ InTime /\ [Next]_vars =>
          [\A r \in Run :
               tx[r] # NoTx /\ confirmed > HashOf(r) + MaxAge => created'[r] = created[r]]_vars
  <2> SUFFICES ASSUME IInv, InTime, [Next]_vars, NEW r \in Run,
                      tx[r] # NoTx, confirmed > HashOf(r) + MaxAge
               PROVE  created'[r] = created[r]
    OBVIOUS
  <2>1. /\ height \in Nat /\ confirmed \in 1 .. height /\ MaxAge \in Nat
        /\ created \in [Run -> 0 .. height] /\ created[r] \in Nat
    BY SetupAssumption DEF IInv, Heights, FromRuns
  <2>2. HashOf(r) \in Nat
    <3>1. CASE pc[r] \notin {"rent", "blockhash"}
      BY <3>1, HashFetched
    <3>2. CASE pc[r] \in {"rent", "blockhash"}
      BY <3>2 DEF IInv, Progress
    <3> QED BY <3>1, <3>2
  <2>3. created[r] <= confirmed
    BY <2>1, <2>2 DEF InTime
  <2>4. ASSUME NEW q \in Run, height - HashOf(q) <= MaxAge,
               created' = [created EXCEPT ![q] = height + 1]
        PROVE  created'[r] = created[r]
    <3>1. r # q
      BY <2>1, <2>2, <2>4
    <3> QED BY <2>1, <2>4, <3>1
  <2>5. ASSUME NEW h \in confirmed .. height - 1,
               created' = [s \in Run |-> IF created[s] > h THEN 0 ELSE created[s]]
        PROVE  created'[r] = created[r]
    BY <2>1, <2>3, <2>5
  <2>6. CASE created' = created
    BY <2>6
  <2> QED BY <2>4, <2>5, <2>6, CreationStep
<1>2. Spec => []IInv
  BY Invariant
<1>3. Spec => []InTime
  BY CreationsInTime
<1> QED BY <1>1, <1>2, <1>3, PTL DEF Spec, OutcomeIsFinal

=============================================================================
