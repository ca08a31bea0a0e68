------------------------- MODULE SweepFlowInductive -------------------------
(***************************************************************************)
(* An inductive invariant of SweepFlow: where every transaction comes from *)
(* and how each bank of the chain follows from the one before it.          *)
(***************************************************************************)
EXTENDS SweepFlow

(* The message of the sweep of address a on nonce h, and the transaction   *)
(* with both its signatures.                                               *)
Sweep(a, h) == CompileV0WithDurableNonce(Payer(a), Authority, h, <<Transfer(a)>>)

Signed(m) ==
    [signatures |-> [i \in 1 .. Len(m.signers) |-> SignMessage(m.signers[i], MessageBytes(m))],
     message    |-> m]


(* The nonces of the banks confirmed by now.                               *)
ConfirmedHashes == {chain[k].nonce : k \in 1 .. confirmed} \ {NoNonce}

ProposedFromNonce ==
    \A w \in proposed : \E a \in Address, h \in ConfirmedHashes :
        \/ w = Serialize(NewUnsigned(Sweep(a, h)))
        \/ w = SerializeLegacy(NewUnsigned(Sweep(a, h)))

PrintedFromProposed ==
    \A w \in printed : \E a \in Address, h \in ConfirmedHashes :
        /\ w = Serialize(Signed(Sweep(a, h)))
        /\ Serialize(NewUnsigned(Sweep(a, h))) \in proposed

HeldPrinted ==
    \A s \in Session : held[s] # NoTx => Serialize(held[s]) \in printed

(* A node accepted w in a confirmed bank that w pays in.                   *)
PoolPreflighted ==
    \A w \in pool :
        /\ w \in printed
        /\ \E k \in 1 .. confirmed :
               chain[k].nonce = HashOf(w) /\ From(MessageOf(w)) \notin chain[k].swept

-----------------------------------------------------------------------------
(* The chain, as a property of any sequence of blocks c.                   *)

GenesisOK(c) ==
    Len(c) > 0 /\ c[1].nonce = NoNonce /\ c[1].swept = {} /\ c[1].tx = NoTx /\ c[1].slot = 0

(* How block b may follow block p.                                         *)
Follows(p, b) ==
    /\ b.slot > p.slot
    /\ \/ /\ b.tx # NoTx
          /\ p.nonce # NoNonce
          /\ HashOf(b.tx) = p.nonce
          /\ From(MessageOf(b.tx)) \notin p.swept
          /\ b.swept = p.swept \cup {From(MessageOf(b.tx))}
          /\ b.nonce = DurableNonce(b.slot)
       \/ /\ b.tx = NoTx
          /\ b.swept = p.swept
          /\ \/ b.nonce = p.nonce
             \/ p.nonce = NoNonce /\ b.nonce = DurableNonce(b.slot)

Linked(c) == \A i \in 2 .. Len(c) : Follows(c[i - 1], c[i])

(* Nonces grow with the chain and are never younger than their block.      *)
NoncesGrow(c) ==
    /\ \A i \in 1 .. Len(c) : c[i].nonce.slot <= c[i].slot
    /\ \A i, j \in 1 .. Len(c) : i <= j => c[i].nonce.slot <= c[j].nonce.slot
    /\ \A i \in 1 .. Len(c) : c[i].nonce = NoNonce \/ c[i].nonce = DurableNonce(c[i].nonce.slot)

(* A nonce that is gone was spent by a transaction in between.             *)
GoneIsSpent(c) ==
    \A i, j \in 1 .. Len(c) :
        i < j /\ c[i].nonce # NoNonce /\ c[i].nonce # c[j].nonce =>
            \E l \in i + 1 .. j : c[l].tx # NoTx /\ HashOf(c[l].tx) = c[i].nonce

(* Nothing is paid while the nonce stays.                                  *)
NonceFixesSwept(c) ==
    \A i, j \in 1 .. Len(c) :
        c[i].nonce # NoNonce /\ c[i].nonce = c[j].nonce => c[i].swept = c[j].swept

(* A landed transaction's nonce is older than every nonce from then on.    *)
SpentIsOlder(c) ==
    \A i, j \in 1 .. Len(c) :
        i <= j /\ c[i].tx # NoTx => HashOf(c[i].tx).slot < c[j].nonce.slot

(* An address is swept by a landed transaction.                            *)
SweptByLanded(c) ==
    \A k \in 1 .. Len(c) : \A a \in c[k].swept :
        \E i \in 1 .. k : c[i].tx # NoTx /\ From(MessageOf(c[i].tx)) = a

ChainOK(c) ==
    /\ GenesisOK(c) /\ Linked(c) /\ NoncesGrow(c) /\ GoneIsSpent(c)
    /\ NonceFixesSwept(c) /\ SpentIsOlder(c) /\ SweptByLanded(c)

(* IInv: every transaction in flight is a sweep on a nonce that was        *)
(* confirmed when it was built, and every bank follows from the one before *)
(* it by the durable-nonce rules (message.rs, send_transaction).           *)
IInv ==
    /\ TypeOK
    /\ ProposedFromNonce /\ PrintedFromProposed /\ HeldPrinted /\ PoolPreflighted
    /\ \A i \in 1 .. Tip : Landed(i) => chain[i].tx \in pool
    /\ \A i \in 1 .. Tip : chain[i].slot <= slot
    /\ ChainOK(chain)

=============================================================================
