------------------------------ MODULE Envelope ------------------------------
(***************************************************************************)
(* The transaction envelope of src/src/transaction.rs: a message, one      *)
(* signature slot per required signer, and the wire form the two are       *)
(* shipped in.  Signing is symbolic: a signature is the key that made it   *)
(* and the bytes it covers.                                                *)
(*                                                                         *)
(* A message is a record with (at least) the field `signers`, the account  *)
(* keys below header.num_required_signatures in their wire order.  Message *)
(* bytes are split at the one place the code looks at: `first` is their    *)
(* first byte, `message` what the bytes behind it decode to.  In a legacy  *)
(* message the first byte is the header's num_required_signatures itself.  *)
(***************************************************************************)
EXTENDS Naturals, Sequences

CONSTANT NoSignature                \* the all-zero placeholder signature

VersionPrefix == 128                \* solana_message::MESSAGE_VERSION_PREFIX

-----------------------------------------------------------------------------

MessageBytes(m) == [first |-> VersionPrefix, message |-> m]

LegacyMessageBytes(m) == [first |-> Len(m.signers), message |-> m]

(* Mutant of NewUnsigned: a slot for the fee payer only. *)
NewUnsignedPayerOnly(m) == [signatures |-> <<NoSignature>>, message |-> m]

(* new_unsigned of either transaction type. *)
NewUnsigned(m) ==
    [signatures |-> [i \in 1 .. Len(m.signers) |-> NoSignature], message |-> m]

Serialize(tx) ==
    [signatures |-> tx.signatures, bytes |-> MessageBytes(tx.message)]

SerializeLegacy(tx) ==
    [signatures |-> tx.signatures, bytes |-> LegacyMessageBytes(tx.message)]

(* try_from_bytes: NotVersioned unless the byte behind the signatures is   *)
(* the prefix.  The signature count is not compared with the header.       *)
IsVersioned(w) == w.bytes.first = VersionPrefix

Parsed(w) == [signatures |-> w.signatures, message |-> w.bytes.message]

-----------------------------------------------------------------------------

SignMessage(key, bytes) == [by |-> key, over |-> bytes]

(* The search `position` of sign_into and insert_signature; a key that is  *)
(* not found is the error NotARequiredSigner.                              *)
IsRequiredSigner(m, key) == \E i \in 1 .. Len(m.signers) : m.signers[i] = key

SlotOf(m, key) ==
    CHOOSE i \in 1 .. Len(m.signers) :
        m.signers[i] = key /\ \A j \in 1 .. i - 1 : m.signers[j] # key

(* `signatures[index] = ...` panics when the slot is not there.            *)
HasSlot(tx, key) ==
    IsRequiredSigner(tx.message, key) /\ SlotOf(tx.message, key) \in 1 .. Len(tx.signatures)

(* Mutant of InsertSignature: fills the fee payer's slot.                  *)
InsertInFirstSlot(tx, key, signature) ==
    [tx EXCEPT !.signatures = [@ EXCEPT ![1] = signature]]

InsertSignature(tx, key, signature) ==
    [tx EXCEPT !.signatures = [@ EXCEPT ![SlotOf(tx.message, key)] = signature]]

(* Mutant of TrySign: signs the bincode bytes, without the version prefix. *)
TrySignWithoutPrefix(tx, key) ==
    InsertSignature(tx, key, SignMessage(key, LegacyMessageBytes(tx.message)))

TrySign(tx, key) ==
    InsertSignature(tx, key, SignMessage(key, MessageBytes(tx.message)))

TrySignLegacy(tx, key) ==
    InsertSignature(tx, key, SignMessage(key, LegacyMessageBytes(tx.message)))

-----------------------------------------------------------------------------

(* What the runtime demands of a transaction's signatures: exactly one per *)
(* required signer, each by that signer and over the bytes on the wire.    *)
Verifies(w) ==
    LET signers == w.bytes.message.signers
    IN  /\ Len(w.signatures) = Len(signers)
        /\ \A i \in 1 .. Len(signers) :
               w.signatures[i] = SignMessage(signers[i], w.bytes)

=============================================================================
