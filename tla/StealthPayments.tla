-------------------------- MODULE StealthPayments ---------------------------
(***************************************************************************)
(* Payments to stealth addresses.  A recipient makes a meta-address once   *)
(* (examples/generate_stealth_meta_address.rs); senders derive a one-time  *)
(* address each, pay it and publish their ephemeral key, which can be      *)
(* lost, late, repeated, or drowned in keys others publish; a scanner that *)
(* holds the scan key recomputes addresses and reports the funded ones; an *)
(* operator recovers the key of a reported payment and signs its sweep     *)
(* (examples/sign_and_broadcast_sweep.rs), with keys and an ephemeral key  *)
(* typed or pasted by hand.                                                *)
(***************************************************************************)
EXTENDS StealthAddress, Envelope, FiniteSets

CONSTANTS
    Drawn,          \* bound: the scalars a random draw may return
    Foreign,        \* bound: what others may publish as an ephemeral key
    Typed,          \* bound: the hex strings an operator may type
    Authority,      \* the nonce authority, the sweep's other signer
    MaxPayments,    \* bound: payments made
    MaxForeign      \* bound: keys published by others

ASSUME DrawAssumption ==
    /\ Drawn \subseteq Scalars
    /\ Foreign \subseteq PublicKeys
    /\ Typed \subseteq Int
    /\ Authority \notin PublicKeys
    /\ MaxPayments \in Nat /\ MaxForeign \in Nat

VARIABLES
    scan, spend,    \* the recipient's two private scalars
    payments,       \* history: what senders paid, and their ephemeral keys
    funded,         \* the one-time addresses that hold a payment
    announced,      \* the ephemeral keys published so far
    foreign,        \* how many of them are somebody else's
    found,          \* what the scanner reported
    signed,         \* the sweeps an operator has signed
    typed           \* history: the strings the last of them was signed with

vars == <<scan, spend, payments, funded, announced, foreign, found, signed, typed>>

(* generate_keypair twice; the public halves are the meta-address.         *)
Init ==
    /\ scan \in Drawn /\ spend \in Drawn
    /\ payments = {} /\ funded = {}
    /\ announced = {} /\ foreign = 0
    /\ found = {}
    /\ signed = {} /\ typed = {}

scan_pub  == PublicKey(scan)
spend_pub == PublicKey(spend)

-----------------------------------------------------------------------------

(* ephemeral_keypair, then derive_one_time_address; an error ends the      *)
(* payment before anything is paid.                                        *)
Pay(r) ==
    LET address == DeriveOneTimeAddress(scan_pub, spend_pub, r) IN
    /\ Cardinality(payments) < MaxPayments
    /\ address.ok
    /\ payments' = payments \cup {[ephemeral |-> PublicKey(r), address |-> address.key]}
    /\ funded' = funded \cup {address.key}
    /\ UNCHANGED <<scan, spend, announced, foreign, found, signed, typed>>

Announce(p) ==
    /\ announced' = announced \cup {p.ephemeral}
    /\ UNCHANGED <<scan, spend, payments, funded, foreign, found, signed, typed>>

AnnounceForeign(key) ==
    /\ foreign < MaxForeign
    /\ foreign' = foreign + 1
    /\ announced' = announced \cup {key}
    /\ UNCHANGED <<scan, spend, payments, funded, found, signed, typed>>

(* Mutant of Scan: reports whatever the recomputation returns.             *)
ScanReportingAll(key) ==
    /\ found' = found \cup
           {[ephemeral |-> key, address |-> RecomputeOneTimeAddress(scan, key, spend_pub).key]}
    /\ UNCHANGED <<scan, spend, payments, funded, announced, foreign, signed, typed>>

(* recompute_one_time_address for one published key.                       *)
Scan(key) ==
    LET address == RecomputeOneTimeAddress(scan, key, spend_pub) IN
    /\ address.ok /\ address.key \in funded
    /\ found' = found \cup {[ephemeral |-> key, address |-> address.key]}
    /\ UNCHANGED <<scan, spend, payments, funded, announced, foreign, signed, typed>>

(* A sweep of one address, the fee paid by either of its two signers.      *)
SweepsOf(address) ==
    { [signers |-> <<address, Authority>>], [signers |-> <<Authority, address>>] }

(* What the signer's key checks come to for keys typed as x and y.         *)
Recovered(x, key, y) ==
    IF ScalarFromHex(x).ok /\ ScalarFromHex(y).ok
    THEN RecoverOneTimePrivkey(x, key, y) ELSE Err("InvalidScalarHex")

(* sign_with_recovered_key and insert_signature: the signature goes to the *)
(* slot of the recovered key, which has to be a required signer.           *)
Sign(address, x, key, y) ==
    LET t  == Recovered(x, key, y)
        by == PublicKey(t.key)
    IN  \E m \in SweepsOf(address) :
        /\ t.ok
        /\ HasSlot(NewUnsigned(m), by)
        /\ signed' = signed \cup
               {Serialize(InsertSignature(NewUnsigned(m), by, SignMessage(by, MessageBytes(m))))}
        /\ typed' = {x, y}
        /\ UNCHANGED <<scan, spend, payments, funded, announced, foreign, found>>

Next ==
    \/ \E r \in Drawn : Pay(r)
    \/ \E p \in payments : Announce(p)
    \/ \E key \in Foreign : AnnounceForeign(key)
    \/ \E key \in announced : Scan(key)
    \/ \E f \in found, x, y \in Typed, key \in announced : Sign(f.address, x, key, y)

Spec == Init /\ [][Next]_vars

-----------------------------------------------------------------------------

Seen == [ephemeral : Points, address : Points]

(* Keys, addresses and reports are decodable points; what is published may *)
(* be any 32 bytes (stealth.rs: decompress is asked again for each).       *)
TypeOK ==
    /\ scan \in Scalars /\ spend \in Scalars
    /\ payments \subseteq Seen
    /\ funded = {p.address : p \in payments}
    /\ announced \subseteq PublicKeys
    /\ foreign \in 0 .. MaxForeign
    /\ found \subseteq Seen

(* However late a payment's key is published, the scanner recomputes the   *)
(* very address the sender paid (derive_one_time_address against           *)
(* recompute_one_time_address: r V = v R).                                 *)
NothingMissed ==
    \A p \in payments :
        RecomputeOneTimeAddress(scan, p.ephemeral, spend_pub) = Ok(p.address)

(* Whatever the scanner reports can be spent: the key the signer recovers  *)
(* (recover_one_time_privkey) opens the reported address, also when the    *)
(* published key it was found with lies outside the base point's subgroup. *)
Spendable ==
    \A f \in found :
        LET t == RecoverOneTimePrivkey(scan, f.ephemeral, spend)
        IN  t.ok /\ PublicKey(t.key) = f.address

(* Whatever was typed or pasted, a sweep leaves the signer only with a     *)
(* signature of its own one-time address, in that signer's slot and over   *)
(* the bytes on the wire: mistyped keys are refused and never sign, and no *)
(* string is taken for the key it is congruent to (scalar_from_hex: "does  *)
(* not reduce mod L silently").                                            *)
SignedByAddressOnly ==
    /\ typed \subseteq Scalars
    /\ \A w \in signed : \A i \in 1 .. Len(w.bytes.message.signers) :
           LET signer == w.bytes.message.signers[i] IN
           w.signatures[i] =
               IF signer = Authority THEN NoSignature ELSE SignMessage(signer, w.bytes)

=============================================================================
