----------------------------- MODULE NonceSetup -----------------------------
(***************************************************************************)
(* Runs of examples/create_durable_nonce_account.rs with one payer: each   *)
(* makes a key for its own nonce account, fetches the rent and a block     *)
(* hash, signs the legacy creation transaction with both keys and sends    *)
(* it.  Every request can fail, and an answer can be lost after the node   *)
(* has accepted the transaction; blocks are made, confirmed, finalized and *)
(* abandoned meanwhile, and block hashes age.                              *)
(*                                                                         *)
(* A block hash is the height of its block: only hashes of confirmed       *)
(* blocks are fetched, and those are on every later fork.                  *)
(***************************************************************************)
EXTENDS Envelope, FiniteSets

CONSTANTS
    Run,        \* runs of the program; each run's nonce key goes by its name
    Payer,      \* the payer's key, the nonce authority to be
    MaxAge,     \* blocks for which a block hash stays valid
    Funds,      \* how many accounts the payer's balance creates
    NoTx,
    MaxHeight   \* bound: blocks

ASSUME SetupAssumption ==
    /\ Payer \notin Run
    /\ MaxAge \in Nat /\ Funds \in Nat /\ MaxHeight \in Nat \ {0}

VARIABLES
    height,     \* the highest block of the heaviest fork
    confirmed, finalized,
    created,    \* the block that created each run's nonce account, 0 for none
    pool,       \* the transactions an RPC node has accepted
    pc, tx,     \* of each run
    cause       \* history: why a run failed

vars == <<height, confirmed, finalized, created, pool, pc, tx, cause>>

cluster == <<height, confirmed, finalized, created>>

Over == {"printed", "failed"}

Init ==
    /\ height = 1 /\ confirmed = 1 /\ finalized = 1
    /\ created = [r \in Run |-> 0]
    /\ pool = {}
    /\ pc = [r \in Run |-> "rent"]
    /\ tx = [r \in Run |-> NoTx]
    /\ cause = [r \in Run |-> "none"]

-----------------------------------------------------------------------------
(* The runtime's rules, in a bank at height h.                             *)

KnownHash(h, hash) == hash \in 1 .. h /\ h - hash <= MaxAge

CreatedBy(h) == {r \in Run : created[r] \in 1 .. h}

(* The new account's address, the second signer.                           *)
AccountOf(w) == w.bytes.message.signers[2]

Executes(h, w) ==
    /\ KnownHash(h, w.bytes.message.recent_blockhash)
    /\ Cardinality(CreatedBy(h)) < Funds
    /\ AccountOf(w) \notin CreatedBy(h)

-----------------------------------------------------------------------------

Fail(r, why) ==
    /\ pc' = [pc EXCEPT ![r] = "failed"]
    /\ cause' = [cause EXCEPT ![r] = why]

(* get_minimum_balance_for_rent_exemption; a run that could not read its   *)
(* arguments or the payer's key has ended before.                          *)
FetchRent(r) ==
    /\ pc[r] = "rent"
    /\ \/ /\ pc' = [pc EXCEPT ![r] = "blockhash"]
          /\ UNCHANGED cause
       \/ Fail(r, "rpc")
    /\ UNCHANGED <<cluster, pool, tx>>

(* Message::new(create_nonce_account(...), payer) with the hash filled in. *)
CreationMessage(r, hash) == [signers |-> <<Payer, r>>, recent_blockhash |-> hash]

(* get_latest_blockhash, at commitment confirmed, and the unsigned         *)
(* transaction on what it returned.                                        *)
FetchBlockhash(r) ==
    /\ pc[r] = "blockhash"
    /\ \/ /\ tx' = [tx EXCEPT ![r] = NewUnsigned(CreationMessage(r, confirmed))]
          /\ pc' = [pc EXCEPT ![r] = "sign"]
          /\ UNCHANGED cause
       \/ /\ Fail(r, "rpc")
          /\ UNCHANGED tx
    /\ UNCHANGED <<cluster, pool>>

(* Mutant of Sign: the nonce account's own signature is forgotten.         *)
SignPayerOnly(r) ==
    /\ pc[r] = "sign"
    /\ tx' = [tx EXCEPT ![r] = TrySignLegacy(@, Payer)]
    /\ pc' = [pc EXCEPT ![r] = "send"]
    /\ UNCHANGED <<cluster, pool, cause>>

Sign(r) ==
    /\ pc[r] = "sign"
    /\ tx' = [tx EXCEPT ![r] = TrySignLegacy(TrySignLegacy(@, Payer), r)]
    /\ pc' = [pc EXCEPT ![r] = "send"]
    /\ UNCHANGED <<cluster, pool, cause>>

(* Mutant of PreflightBank: the node's default commitment.                 *)
FinalizedBank == finalized

(* preflightCommitment: confirmed.                                         *)
PreflightBank == confirmed

(* Mutant of Send: a transaction that is not on the confirmed chain by the *)
(* time of the answer counts as failed.                                    *)
SendExpectingCreation(r) ==
    LET w == SerializeLegacy(tx[r]) IN
    /\ pc[r] = "send"
    /\ Verifies(w) /\ Executes(PreflightBank, w)
    /\ pool' = pool \cup {w}
    /\ Fail(r, "unconfirmed")
    /\ UNCHANGED <<cluster, tx>>

(* Mutant of Send: the creation is rebuilt on the newest block hash, and   *)
(* the transaction the program holds is not.                               *)
SendRebuilt(r) ==
    LET w == SerializeLegacy(TrySignLegacy(
                 TrySignLegacy(NewUnsigned(CreationMessage(r, confirmed)), Payer), r))
    IN
    /\ pc[r] = "send"
    /\ Executes(PreflightBank, w)
    /\ pool' = pool \cup {w}
    /\ pc' = [pc EXCEPT ![r] = "printed"]
    /\ UNCHANGED <<cluster, tx, cause>>

(* send_transaction, and what the program makes of the answer, which can   *)
(* be lost or unreadable after the node has accepted the transaction.      *)
Send(r) ==
    LET w    == SerializeLegacy(tx[r])
        hash == w.bytes.message.recent_blockhash
    IN
    /\ pc[r] = "send"
    /\ \/ /\ Verifies(w) /\ Executes(PreflightBank, w)
          /\ pool' = pool \cup {w}
          /\ \/ pc' = [pc EXCEPT ![r] = "printed"] /\ UNCHANGED cause
             \/ Fail(r, "lost answer")
       \/ /\ ~Verifies(w)
          /\ Fail(r, "signature")
          /\ UNCHANGED pool
       \/ /\ Verifies(w) /\ ~KnownHash(PreflightBank, hash)
          /\ Fail(r, "blockhash")
          /\ UNCHANGED pool
       \/ /\ Verifies(w) /\ KnownHash(PreflightBank, hash) /\ ~Executes(PreflightBank, w)
          /\ Fail(r, "funds")
          /\ UNCHANGED pool
       \/ /\ Fail(r, "rpc")                 \* the request never arrived
          /\ UNCHANGED pool
    /\ UNCHANGED <<cluster, tx>>

-----------------------------------------------------------------------------
(* The cluster.                                                            *)

Include(w) ==
    /\ height < MaxHeight
    /\ Executes(height, w)
    /\ height' = height + 1
    /\ created' = [created EXCEPT ![AccountOf(w)] = height + 1]
    /\ UNCHANGED <<confirmed, finalized, pool, pc, tx, cause>>

EmptyBlock ==
    /\ height < MaxHeight
    /\ height' = height + 1
    /\ UNCHANGED <<confirmed, finalized, created, pool, pc, tx, cause>>

Confirm ==
    /\ confirmed < height
    /\ confirmed' = confirmed + 1
    /\ UNCHANGED <<height, finalized, created, pool, pc, tx, cause>>

Finalize ==
    /\ finalized < confirmed
    /\ finalized' = finalized + 1
    /\ UNCHANGED <<height, confirmed, created, pool, pc, tx, cause>>

(* Another fork wins; accounts created above its common part are gone.     *)
ForkSwitch ==
    /\ \E h \in confirmed .. height - 1 :
           /\ height' = h
           /\ created' = [r \in Run |-> IF created[r] > h THEN 0 ELSE created[r]]
    /\ UNCHANGED <<confirmed, finalized, pool, pc, tx, cause>>

Next ==
    \/ \E r \in Run : FetchRent(r) \/ FetchBlockhash(r) \/ Sign(r) \/ Send(r)
    \/ \E w \in pool : Include(w)
    \/ EmptyBlock \/ Confirm \/ Finalize \/ ForkSwitch

Spec == Init /\ [][Next]_vars

-----------------------------------------------------------------------------

HashOf(r) == tx[r].message.recent_blockhash

Messages == [signers : {<<Payer, r>> : r \in Run}, recent_blockhash : 1 .. MaxHeight]

Signatures == [by : Run \cup {Payer}, over : [first : {2}, message : Messages]]

(* The shape of every variable; the three chain heights in their order.    *)
TypeOK ==
    /\ height \in 1 .. MaxHeight /\ confirmed \in 1 .. height /\ finalized \in 1 .. confirmed
    /\ created \in [Run -> 0 .. height]
    /\ \A w \in pool : w.bytes.first = 2 /\ w.bytes.message \in Messages
    /\ pc \in [Run -> {"rent", "blockhash", "sign", "send"} \cup Over]
    /\ cause \in [Run -> {"none", "rpc", "lost answer", "signature", "blockhash", "funds"}]
    /\ \A r \in Run : tx[r] # NoTx =>
           /\ tx[r].message \in Messages /\ Len(tx[r].signatures) = 2
           /\ \A i \in 1 .. 2 : tx[r].signatures[i] \in Signatures \cup {NoSignature}

(* "otherwise a blockhash fetched at `confirmed` can fail preflight"       *)
(* (send_transaction): with both at confirmed, a node refuses a creation   *)
(* for its block hash only when the hash is too old on the confirmed chain,*)
(* and for its funds only when the confirmed chain has spent them; never   *)
(* for a signature.                                                        *)
RefusedForCause ==
    \A r \in Run :
        /\ cause[r] = "blockhash" => confirmed > HashOf(r) + MaxAge
        /\ cause[r] = "funds" => Cardinality(CreatedBy(confirmed)) >= Funds
        /\ cause[r] # "signature"

(* An account that exists although its run has ended was printed, unless   *)
(* the node's answer was lost: no other way out of the program leaves rent *)
(* in an account whose address nobody was told.                            *)
SpentIsReported ==
    \A r \in Run :
        created[r] > 0 /\ pc[r] \in Over => pc[r] = "printed" \/ cause[r] = "lost answer"

(* "Created durable nonce account." is printed on acceptance, and "broad-  *)
(* cast failed" when only the answer is lost, while the creation may still *)
(* execute, go with its fork and execute again, or run out of time.  That  *)
(* is settled once the confirmed chain has outlived the block hash the     *)
(* program signed on: from then on no step makes the account or unmakes    *)
(* it, so whoever looks at it then, at commitment confirmed, knows whether *)
(* to run the program again (create_durable_nonce_account.rs, main).       *)
OutcomeIsFinal ==
    [][\A r \in Run :
           tx[r] # NoTx /\ confirmed > HashOf(r) + MaxAge => created'[r] = created[r]]_vars

=============================================================================
