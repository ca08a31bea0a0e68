------------------------------ MODULE SweepFlow -----------------------------
(***************************************************************************)
(* The life of a stealth sweep, end to end.  A plugin builds an unsigned   *)
(* durable-nonce transaction and hands it out (message.rs, nonce.rs,       *)
(* transaction.rs); it waits for a human for an unbounded time; runs of    *)
(* examples/sign_and_broadcast_sweep.rs parse it, sign it with the two     *)
(* required keys, print it, simulate it, ask and send it; whatever was     *)
(* printed may be submitted again later.  Runs, the plugin and the cluster *)
(* interleave freely.                                                      *)
(*                                                                         *)
(* The cluster is the environment: a chain of blocks of which a prefix is  *)
(* confirmed and the rest may still be abandoned for another fork.         *)
(***************************************************************************)
EXTENDS Envelope, DurableMessage, FiniteSets

CONSTANTS
    Address,        \* one-time stealth addresses holding a payment each
    Authority,      \* the nonce authority
    Keypairs,       \* what a nonce-authority keypair file may hold
    AuthorityPays,  \* is the fee payer the authority, or the swept address?
    Session,        \* runs of the signing program
    MaxAge,         \* blocks for which an ordinary blockhash stays valid
    NoTx,           \* no transaction
    MaxProposals,   \* bound: proposals in the approval queue
    MaxEmpty,       \* bound: blocks without a sweep
    MaxForks        \* bound: abandoned forks

ASSUME SignersAssumption ==
    /\ Authority \in Keypairs
    /\ Keypairs \cap Address = {}
    /\ AuthorityPays \in BOOLEAN
    /\ MaxAge \in Nat

VARIABLES
    chain,      \* the blocks of the heaviest fork, each with the bank after it
    confirmed,  \* the last confirmed block
    slot,       \* the last slot in which any block was made
    proposed,   \* wire transactions handed out unsigned
    printed,    \* signed wire transactions the program printed
    pool,       \* transactions an RPC node has accepted for forwarding
    pc, held,   \* of each run: where it is, and its `tx`
    empties, forks

vars == <<chain, confirmed, slot, proposed, printed, pool, pc, held, empties, forks>>

cluster == <<chain, confirmed, slot, empties, forks>>

NoNonce == [kind |-> "none", slot |-> 0]

Ended == {"broadcast", "declined", "failed"}

-----------------------------------------------------------------------------
(* The runtime's rules.                                                    *)

MessageOf(w) == w.bytes.message
HashOf(w)    == MessageOf(w).recent_blockhash
From(m)      == m.instructions[Len(m.instructions)].signer

IsNonceMessage(m) == m.instructions[1].op = "AdvanceNonceAccount"

(* In the bank of block k: the stored nonce itself, or a block hash no     *)
(* older than MaxAge with which the same message has not landed yet.       *)
HashAccepted(k, m) ==
    \/ IsNonceMessage(m) /\ m.recent_blockhash = chain[k].nonce
    \/ /\ \E i \in 1 .. k : m.recent_blockhash = BlockHash(chain[i].slot) /\ k - i <= MaxAge
       /\ \A i \in 1 .. k : chain[i].tx # NoTx => MessageOf(chain[i].tx) # m

FeePayable(k, m) == m.signers[1] \notin chain[k].swept

Simulates(k, m) == HashAccepted(k, m) /\ FeePayable(k, m) /\ From(m) \notin chain[k].swept

(* simulate_transaction: replays at the confirmed bank with sigVerify off. *)
SimulateTransaction(w) == Simulates(confirmed, MessageOf(w))

(* Mutant of Preflight: skipPreflight set. *)
SkipPreflight(w) == Verifies(w)

(* send_transaction: preflightCommitment confirmed, signatures verified.   *)
Preflight(w) == Verifies(w) /\ Simulates(confirmed, MessageOf(w))

-----------------------------------------------------------------------------

Init ==
    /\ chain = << [slot |-> 0, nonce |-> NoNonce, swept |-> {}, tx |-> NoTx] >>
    /\ confirmed = 1
    /\ slot = 0
    /\ proposed = {} /\ printed = {} /\ pool = {}
    /\ pc = [s \in Session |-> "idle"]
    /\ held = [s \in Session |-> NoTx]
    /\ empties = 0 /\ forks = 0

-----------------------------------------------------------------------------
(* The plugin: fetch the nonce account, compile, wrap, hand out.           *)

(* Mutant of FetchNonceAccount: reads at commitment processed. *)
FetchNonceAccountProcessed ==
    LET nonce == chain[Len(chain)].nonce
    IN  NonceAccount("Current", IF nonce = NoNonce THEN "Uninitialized" ELSE "Initialized", nonce)

(* Mutant of FetchNonceAccount: getLatestBlockhash in place of the nonce. *)
FetchLatestBlockhash ==
    NonceAccount("Current", "Initialized", BlockHash(chain[confirmed].slot))

FetchNonceAccount ==
    LET nonce == chain[confirmed].nonce
    IN  NonceAccount("Current", IF nonce = NoNonce THEN "Uninitialized" ELSE "Initialized", nonce)

Payer(a) == IF AuthorityPays THEN Authority ELSE a

ProposeV0(a) ==
    /\ Cardinality(proposed) < MaxProposals
    /\ IsUsable(FetchNonceAccount)
    /\ LET m == CompileV0WithDurableNonce(Payer(a), Authority,
                    UsableBlockhash(FetchNonceAccount), <<Transfer(a)>>)
       IN  proposed' = proposed \cup {Serialize(NewUnsigned(m))}
    /\ UNCHANGED <<cluster, printed, pool, pc, held>>

ProposeLegacy(a) ==
    /\ Cardinality(proposed) < MaxProposals
    /\ IsUsable(FetchNonceAccount)
    /\ LET m == CompileLegacyWithDurableNonce(Payer(a), Authority,
                    UsableBlockhash(FetchNonceAccount), <<Transfer(a)>>)
       IN  proposed' = proposed \cup {SerializeLegacy(NewUnsigned(m))}
    /\ UNCHANGED <<cluster, printed, pool, pc, held>>

-----------------------------------------------------------------------------
(* A run of the signing program.  The pasted transaction w may have been   *)
(* signed before; the key recovered from the scan and spend keys and the   *)
(* ephemeral key is that of some address a; the keypair file holds k.      *)

(* Mutant of WithOneTimeSignature: refreshes the nonce before signing. *)
RefreshedWithOneTimeSignature(tx, a) ==
    LET fresh == [tx EXCEPT !.message.recent_blockhash = chain[confirmed].nonce]
    IN  InsertSignature(fresh, a, SignMessage(a, MessageBytes(fresh.message)))

WithOneTimeSignature(tx, a) ==
    InsertSignature(tx, a, SignMessage(a, MessageBytes(tx.message)))

Signable(w, a, k) ==
    /\ IsVersioned(w)
    /\ HasSlot(Parsed(w), a)
    /\ HasSlot(WithOneTimeSignature(Parsed(w), a), k)

SignSweep(s, w, a, k) ==
    /\ pc[s] \in {"idle"} \cup Ended
    /\ Signable(w, a, k)
    /\ LET tx == TrySign(WithOneTimeSignature(Parsed(w), a), k)
       IN  /\ held' = [held EXCEPT ![s] = tx]
           /\ printed' = printed \cup {Serialize(tx)}
    /\ pc' = [pc EXCEPT ![s] = "signed"]
    /\ UNCHANGED <<cluster, proposed, pool>>

(* Mutant of RejectSweep: goes on after "not a required signer". *)
IgnoreRejection(s, w, a, k) ==
    /\ pc[s] \in {"idle"} \cup Ended
    /\ ~Signable(w, a, k)
    /\ pc' = [pc EXCEPT ![s] = "signed"]
    /\ UNCHANGED <<cluster, proposed, printed, pool, held>>

RejectSweep(s, w, a, k) ==
    /\ pc[s] \in {"idle"} \cup Ended
    /\ ~Signable(w, a, k)
    /\ pc' = [pc EXCEPT ![s] = "failed"]
    /\ UNCHANGED <<cluster, proposed, printed, pool, held>>

Exit(s, how) ==
    /\ pc' = [pc EXCEPT ![s] = how]
    /\ held' = [held EXCEPT ![s] = NoTx]

Simulate(s) ==
    /\ pc[s] = "signed"
    /\ \/ /\ SimulateTransaction(Serialize(held[s]))
          /\ pc' = [pc EXCEPT ![s] = "simulated"]
          /\ UNCHANGED held
       \/ /\ ~SimulateTransaction(Serialize(held[s]))
          /\ Exit(s, "failed")
    /\ UNCHANGED <<cluster, proposed, printed, pool>>

Confirm(s) ==
    /\ pc[s] = "simulated"
    /\ pc' = [pc EXCEPT ![s] = "sending"]
    /\ UNCHANGED <<cluster, proposed, printed, pool, held>>

Decline(s) ==
    /\ pc[s] = "simulated"
    /\ Exit(s, "declined")
    /\ UNCHANGED <<cluster, proposed, printed, pool>>

(* The node's answer can be lost after the node accepted the transaction;  *)
(* the program then reports a failed broadcast.                            *)
Send(s) ==
    /\ pc[s] = "sending"
    /\ \/ /\ Preflight(Serialize(held[s]))
          /\ pool' = pool \cup {Serialize(held[s])}
          /\ Exit(s, "broadcast") \/ Exit(s, "failed")
       \/ /\ ~Preflight(Serialize(held[s]))
          /\ Exit(s, "failed")
          /\ UNCHANGED pool
    /\ UNCHANGED <<cluster, proposed, printed>>

(* Any other way out: bad arguments, a request that never reached the node,*)
(* an unreadable answer, no terminal, the process killed.                  *)
Abort(s) ==
    /\ pc[s] \in {"idle", "signed", "simulated", "sending"}
    /\ Exit(s, "failed")
    /\ UNCHANGED <<cluster, proposed, printed, pool>>

(* "The signed transaction above can be submitted manually later."         *)
Resubmit(w) ==
    /\ Preflight(w)
    /\ pool' = pool \cup {w}
    /\ UNCHANGED <<cluster, proposed, printed, pc, held>>

-----------------------------------------------------------------------------
(* The cluster.                                                            *)

Tip == Len(chain)

NewBlock(nonce, swept, tx) ==
    /\ slot' = slot + 1
    /\ chain' = Append(chain, [slot |-> slot + 1, nonce |-> nonce, swept |-> swept, tx |-> tx])

(* examples/create_durable_nonce_account.rs has landed.                    *)
CreateNonce ==
    /\ chain[Tip].nonce = NoNonce
    /\ NewBlock(DurableNonce(slot + 1), chain[Tip].swept, NoTx)
    /\ UNCHANGED <<confirmed, proposed, printed, pool, pc, held, empties, forks>>

(* A leader executes w.  The advance comes first and sticks even when the  *)
(* transfer behind it fails.                                               *)
IncludeTx(w) ==
    LET m == MessageOf(w) IN
    /\ HashAccepted(Tip, m)
    /\ FeePayable(Tip, m)
    /\ NewBlock(IF IsNonceMessage(m) THEN DurableNonce(slot + 1) ELSE chain[Tip].nonce,
                chain[Tip].swept \cup {From(m)}, w)
    /\ UNCHANGED <<confirmed, proposed, printed, pool, pc, held, empties, forks>>

EmptyBlock ==
    /\ empties < MaxEmpty
    /\ empties' = empties + 1
    /\ NewBlock(chain[Tip].nonce, chain[Tip].swept, NoTx)
    /\ UNCHANGED <<confirmed, proposed, printed, pool, pc, held, forks>>

ConfirmBlock ==
    /\ confirmed < Tip
    /\ confirmed' = confirmed + 1
    /\ UNCHANGED <<chain, slot, proposed, printed, pool, pc, held, empties, forks>>

(* Another fork wins: unconfirmed blocks are gone, their slots are not     *)
(* used again.                                                             *)
ForkSwitch ==
    /\ forks < MaxForks
    /\ forks' = forks + 1
    /\ \E n \in confirmed .. Tip - 1 : chain' = SubSeq(chain, 1, n)
    /\ UNCHANGED <<confirmed, slot, proposed, printed, pool, pc, held, empties>>

-----------------------------------------------------------------------------

Plugin == \E a \in Address : ProposeV0(a) \/ ProposeLegacy(a)

Run(s) ==
    \/ \E w \in proposed \cup printed, a \in Address, k \in Keypairs :
           SignSweep(s, w, a, k) \/ RejectSweep(s, w, a, k)
    \/ Simulate(s) \/ Confirm(s) \/ Decline(s) \/ Send(s) \/ Abort(s)

Leader == \E w \in pool : IncludeTx(w)

Cluster == CreateNonce \/ Leader \/ EmptyBlock \/ ConfirmBlock \/ ForkSwitch

Next ==
    \/ Plugin
    \/ \E s \in Session : Run(s)
    \/ \E w \in printed : Resubmit(w)
    \/ Cluster

Spec == Init /\ [][Next]_vars

(* Nothing is assumed of the plugin, the human or the program's runs.  The *)
(* cluster keeps retrying a transaction a node accepted and keeps          *)
(* confirming blocks.                                                      *)
FairSpec == Spec /\ WF_vars(Leader) /\ WF_vars(ConfirmBlock)

-----------------------------------------------------------------------------
(* Properties.                                                             *)

Landed(k) == chain[k].tx # NoTx

Keys == Address \cup Keypairs

Hash == [kind : {"none", "nonce", "blockhash"}, slot : Nat]

Messages ==
    [signers          : Seq(Keys),
     recent_blockhash : Hash,
     instructions     : Seq([op : {"AdvanceNonceAccount", "Transfer"}, signer : Keys])]

Transactions ==
    [signatures : Seq([by : Keys, over : [first : Nat, message : Messages]] \cup {NoSignature}),
     message    : Messages]

Wires ==
    [signatures : Seq([by : Keys, over : [first : Nat, message : Messages]] \cup {NoSignature}),
     bytes      : [first : Nat, message : Messages]]

Blocks == [slot : Nat, nonce : Hash, swept : SUBSET Address, tx : Wires \cup {NoTx}]

ASSUME NoTxAssumption == NoTx \notin Wires \cup Transactions

(* The shape of every variable; a run holds a transaction exactly while it *)
(* is between signing and its end.                                         *)
TypeOK ==
    /\ chain \in Seq(Blocks)
    /\ confirmed \in 1 .. Tip
    /\ slot \in Nat
    /\ proposed \subseteq Wires /\ printed \subseteq Wires /\ pool \subseteq Wires
    /\ pc \in [Session -> {"idle", "signed", "simulated", "sending"} \cup Ended]
    /\ held \in [Session -> Transactions \cup {NoTx}]
    /\ \A s \in Session : (held[s] = NoTx) = (pc[s] \in {"idle"} \cup Ended)
    /\ empties \in Nat /\ forks \in Nat

(* Whatever is handed out has one signature slot per required signer, so   *)
(* that `signatures[index] = ...` in sign_into and insert_signature cannot *)
(* go out of bounds on a transaction of this code's own making, however    *)
(* often it is parsed, signed and serialized again.                        *)
SlotPerSigner ==
    /\ \A w \in proposed \cup printed \cup pool :
           Len(w.signatures) = Len(MessageOf(w).signers)
    /\ \A s \in Session :
           held[s] # NoTx => Len(held[s].signatures) = Len(held[s].message.signers)

(* No nonce is spent twice: of all the transactions signed on one fetched  *)
(* nonce, by any runs and in any state of resubmission, one chain holds at *)
(* most one (message.rs: the nonce is the message's recent_blockhash).     *)
SpentOnce ==
    \A i, j \in 1 .. Tip :
        i # j /\ Landed(i) /\ Landed(j) => HashOf(chain[i].tx) # HashOf(chain[j].tx)

(* A sweep that lands pays: preflight at the confirmed bank is enough to   *)
(* keep an address from being swept a second time, in which case the nonce *)
(* would be burned (and the fee lost) by a transfer that fails             *)
(* (send_transaction: preflight, commitment confirmed).                    *)
NoBurnedNonce ==
    \A i \in 2 .. Tip : Landed(i) => From(MessageOf(chain[i].tx)) \notin chain[i - 1].swept

(* The confirmed chain holds a transaction on w's nonce or for w's address.*)
Superseded(w) ==
    \E i \in 1 .. confirmed :
        /\ Landed(i)
        /\ \/ HashOf(chain[i].tx) = HashOf(w)
           \/ From(MessageOf(chain[i].tx)) = From(MessageOf(w))

(* Waiting costs nothing: a signed sweep the program printed is refused    *)
(* only because its nonce or its address was already used by another one,  *)
(* never because of the time or the blocks that passed, nor because the    *)
(* fork it was built on is gone (durable nonce, fetched at confirmed).     *)
ApprovalDelayHarmless ==
    \A w \in printed : ~Preflight(w) => Superseded(w)

(* What lands is, message for message, one of the transactions that were   *)
(* handed out for approval, carrying exactly the signatures its header     *)
(* requires: parsing, signing and serializing never change what is signed. *)
LandedAsProposed ==
    \A i \in 1 .. Tip : Landed(i) =>
        /\ Verifies(chain[i].tx)
        /\ Serialize(NewUnsigned(MessageOf(chain[i].tx))) \in proposed

(* Everything the program prints as a signed transaction verifies, the     *)
(* re-signed ones too; a run with a wrong key ends before it prints.       *)
SignedComplete == \A w \in printed : IsVersioned(w) /\ Verifies(w)

(* On the confirmed chain the pipeline does what SweepOnce promises.       *)
Abstract ==
    INSTANCE SweepOnce WITH
        swept <- chain[confirmed].swept,
        nonce <- chain[confirmed].nonce,
        spent <- {HashOf(chain[i].tx) : i \in {k \in 1 .. confirmed : Landed(k)}}

ImplementsSweepOnce == Abstract!Spec

(* A broadcast settles: whatever a node accepted is on the confirmed chain *)
(* sooner or later, or another transaction on the same nonce is. A durable *)
(* nonce does not expire on the way there.                                 *)
BroadcastSettles ==
    []<>(\A w \in pool :
            \E i \in 1 .. confirmed : Landed(i) /\ HashOf(chain[i].tx) = HashOf(w))

=============================================================================
