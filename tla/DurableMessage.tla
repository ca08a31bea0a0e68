--------------------------- MODULE DurableMessage ---------------------------
(***************************************************************************)
(* Building a message on a durable nonce (src/src/message.rs) from a nonce *)
(* account as fetched (src/src/nonce.rs).                                  *)
(*                                                                         *)
(* A hash is the kind of value it is and the slot that made it: a block    *)
(* hash, or the durable nonce stored by an advance in that slot.           *)
(***************************************************************************)
EXTENDS Naturals, Sequences

BlockHash(slot)    == [kind |-> "blockhash", slot |-> slot]
DurableNonce(slot) == [kind |-> "nonce", slot |-> slot]

(* A nonce account as parse_nonce_account decodes it.                      *)
NonceAccount(version, state, blockhash) ==
    [version |-> version, state |-> state, blockhash |-> blockhash]

(* usable_blockhash: Some exactly for a Current, Initialized account.      *)
IsUsable(account) == account.version = "Current" /\ account.state = "Initialized"

UsableBlockhash(account) == account.blockhash

-----------------------------------------------------------------------------

AdvanceNonce(authority) == [op |-> "AdvanceNonceAccount", signer |-> authority]
Transfer(from)          == [op |-> "Transfer", signer |-> from]

(* Message compilation in solana-message, for the two-instruction messages *)
(* built here: the fee payer's key comes first, the other signer behind it.*)
CompileMessage(payer, all, hash) ==
    [signers |-> <<payer, IF payer = all[1].signer THEN all[2].signer ELSE all[1].signer>>,
     recent_blockhash |-> hash,
     instructions |-> all]

CompileV0WithDurableNonce(payer, authority, nonce, instructions) ==
    CompileMessage(payer, <<AdvanceNonce(authority)>> \o instructions, nonce)

(* The legacy builder compiles first and stores the nonce afterwards; the  *)
(* default hash in between never leaves the function.                      *)
CompileLegacyWithDurableNonce(payer, authority, nonce, instructions) ==
    LET message == CompileMessage(payer, <<AdvanceNonce(authority)>> \o instructions,
                                  [kind |-> "default", slot |-> 0])
    IN  [message EXCEPT !.recent_blockhash = nonce]

=============================================================================
