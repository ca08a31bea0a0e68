------------------------------ MODULE RpcReads ------------------------------
(***************************************************************************)
(* The typed methods of src/src/rpc/mod.rs and what can become of an       *)
(* answer on its way: the cluster moves on while a request travels, the    *)
(* node that answers lags, the exchange fails, the node refuses, or what   *)
(* comes back lacks something.                                             *)
(*                                                                         *)
(* A method is a schema of what its decoder asks of a response.  An entry  *)
(* of a response is `null`, or a content of which at most one field is     *)
(* missing or mistyped.  The envelope's error/result order is RpcClient's. *)
(***************************************************************************)
EXTENDS Integers, Sequences, SequencesExt

CONSTANTS
    Key,            \* what requests ask about
    Version,        \* bound: contents a key can have
    Request,        \* bound: the sequences of keys asked for at once
    MaxBanks        \* bound: banks the cluster goes through

ASSUME ReadsAssumption ==
    /\ 0 \notin Version
    /\ Request \subseteq Seq(Key) /\ \A r \in Request : Len(r) > 0
    /\ MaxBanks \in Nat \ {0}

VARIABLES
    banks,          \* the banks so far; 0 is a key that holds nothing
    pc,
    method, request,
    reply,          \* the response on its way
    damage,         \* history: what happened to it
    outcome

vars == <<banks, pc, method, request, reply, damage, outcome>>

-----------------------------------------------------------------------------
(* Schemas: `typed` fields have to be there and of their type, `present`   *)
(* ones only there, `optional` ones neither; those two read as a default.  *)
(* `nullable` is whether `null` decodes: to None, or, where no field has   *)
(* to be there (simulateTransaction), to nothing but defaults.             *)

Schema(name, wrapped, list, nullable, typed, present, optional) ==
    [name |-> name, wrapped |-> wrapped, list |-> list, nullable |-> nullable,
     typed |-> typed, present |-> present, optional |-> optional]

AccountTyped   == {"lamports", "owner", "rentEpoch", "data"}
AccountPresent == {"executable"}

OneField(name, wrapped) == Schema(name, wrapped, FALSE, FALSE, {"value"}, {}, {})

GetLatestBlockhash ==
    Schema("getLatestBlockhash", TRUE, FALSE, FALSE,
           {"blockhash", "lastValidBlockHeight"}, {}, {})

GetBalance == OneField("getBalance", TRUE)

(* Mutant of GetAccountInfo: decodes `null` like any other value.          *)
GetAccountInfoNeverNull ==
    Schema("getAccountInfo", TRUE, FALSE, FALSE, AccountTyped, AccountPresent, {})

GetAccountInfo ==
    Schema("getAccountInfo", TRUE, FALSE, TRUE, AccountTyped, AccountPresent, {})

GetMultipleAccounts ==
    Schema("getMultipleAccounts", TRUE, TRUE, TRUE, AccountTyped, AccountPresent, {})

GetTokenAccountBalance ==
    Schema("getTokenAccountBalance", TRUE, FALSE, FALSE, {"amount", "decimals"}, {}, {"uiAmount"})

GetTokenAccountsByOwner ==
    Schema("getTokenAccountsByOwner", TRUE, TRUE, FALSE,
           AccountTyped \cup {"pubkey", "account"}, AccountPresent, {})

SimulateTransaction ==
    Schema("simulateTransaction", TRUE, FALSE, TRUE, {}, {}, {"err", "logs", "unitsConsumed"})

SendTransaction == OneField("sendTransaction", FALSE)

GetSignatureStatuses ==
    Schema("getSignatureStatuses", TRUE, TRUE, TRUE,
           {"slot"}, {}, {"confirmations", "err", "confirmationStatus"})

GetSignaturesForAddress ==
    Schema("getSignaturesForAddress", FALSE, TRUE, FALSE,
           {"signature", "slot"}, {}, {"err", "memo", "blockTime", "confirmationStatus"})

GetMinimumBalanceForRentExemption == OneField("getMinimumBalanceForRentExemption", FALSE)

Methods ==
    { GetLatestBlockhash, GetBalance, GetAccountInfo, GetMultipleAccounts,
      GetTokenAccountBalance, GetTokenAccountsByOwner, SimulateTransaction, SendTransaction,
      GetSignatureStatuses, GetSignaturesForAddress, GetMinimumBalanceForRentExemption }

Fields(schema) == schema.typed \cup schema.present \cup schema.optional

-----------------------------------------------------------------------------
(* What a node answers from a bank: for what is not there `null`, no entry *)
(* in a list of what there is, or an RPC error.                            *)

SaysNull(schema) ==
    schema.name \in {"getAccountInfo", "getMultipleAccounts", "getSignatureStatuses"}

Entry(v) == [null |-> v = 0, content |-> v, flaw |-> "none", how |-> "none"]

(* What there is is listed in some order of the node's.                    *)
Listed(r, bank) == SetToSeq({i \in 1 .. Len(r) : bank[r[i]] # 0})

View(schema, r, bank) ==
    IF ~schema.list THEN <<bank[r[1]]>>
    ELSE IF SaysNull(schema) THEN [i \in 1 .. Len(r) |-> bank[r[i]]]
    ELSE [i \in DOMAIN Listed(r, bank) |-> bank[r[Listed(r, bank)[i]]]]

Entries(view) == [i \in 1 .. Len(view) |-> Entry(view[i])]

Refused(schema, r, bank) == ~schema.list /\ ~SaysNull(schema) /\ bank[r[1]] = 0

Response(envelope, entries) ==
    [http |-> "ok", envelope |-> envelope, value |-> TRUE, array |-> TRUE, entries |-> entries]

Conforming(schema, r, bank) ==
    IF Refused(schema, r, bank) THEN Response("error", <<>>)
    ELSE Response("result", Entries(View(schema, r, bank)))

(* Ways to spoil a result that conforms, and the result.                   *)
Shapes == {"neither", "no_value", "no_array"}

Misshaped(response, shape) ==
    CASE shape = "neither"  -> [response EXCEPT !.envelope = "neither"]
      [] shape = "no_value" -> [response EXCEPT !.value = FALSE]
      [] shape = "no_array" -> [response EXCEPT !.array = FALSE]

Flaw(entry, field, how) == [entry EXCEPT !.flaw = field, !.how = how]

Flawed(response, i, field, how) == [response EXCEPT !.entries[i] = Flaw(@, field, how)]

-----------------------------------------------------------------------------
(* Decoding.                                                               *)

Ok(value)  == [kind |-> "Ok", value |-> value]
Err(error) == [kind |-> error, value |-> <<>>]

Decodes(schema, entry) ==
    IF entry.null THEN schema.nullable
    ELSE /\ entry.flaw \notin schema.typed
         /\ ~(entry.flaw \in schema.present /\ entry.how = "missing")

(* An entry as the caller gets it; `unread` fields are None or a default.  *)
Decoded(entry) ==
    [content |-> entry.content,
     unread  |-> IF entry.flaw = "none" THEN {} ELSE {entry.flaw}]

DecodedAll(entries) == [i \in 1 .. Len(entries) |-> Decoded(entries[i])]

(* Mutant of Decode: an entry that does not decode is left out.            *)
DecodeSkippingBad(schema, response) ==
    IF response.http # "ok" THEN Err("Transport")
    ELSE IF response.envelope = "error" THEN Err("Rpc")
    ELSE IF response.envelope = "neither" \/ (schema.wrapped /\ ~response.value) THEN Err("Decode")
    ELSE Ok(DecodedAll(SelectSeq(response.entries, LAMBDA e : Decodes(schema, e))))

(* Transport, then call, then call_value for wrapped methods, then the     *)
(* method's own decoder, whose `collect` stops at the first bad entry.     *)
Decode(schema, response) ==
    IF response.http # "ok" THEN Err("Transport")
    ELSE IF response.envelope = "error" THEN Err("Rpc")
    ELSE IF \/ response.envelope = "neither"
            \/ schema.wrapped /\ ~response.value
            \/ schema.list /\ ~response.array
            \/ \E i \in 1 .. Len(response.entries) : ~Decodes(schema, response.entries[i])
         THEN Err("Decode")
    ELSE Ok(DecodedAll(response.entries))

-----------------------------------------------------------------------------

None == [kind |-> "none", value |-> <<>>]

Init ==
    /\ \E bank \in [Key -> Version \cup {0}] : banks = <<bank>>
    /\ pc = "idle"
    /\ method = GetBalance /\ request \in Request
    /\ reply = Response("neither", <<>>)
    /\ damage = "none" /\ outcome = None

Call(schema, r) ==
    /\ pc = "idle"
    /\ pc' = "sent"
    /\ method' = schema /\ request' = r
    /\ UNCHANGED <<banks, reply, damage, outcome>>

(* Some node answers, from a bank that may be behind; what arrives may     *)
(* have been spoilt.                                                       *)
Serve ==
    /\ pc = "sent"
    /\ pc' = "answered"
    /\ \E n \in 1 .. Len(banks) :
          LET response == Conforming(method, request, banks[n]) IN
          \/ reply' = response /\ damage' = "none"
          \/ \E shape \in Shapes :
                /\ response.envelope = "result"
                /\ shape = "no_value" => method.wrapped
                /\ shape = "no_array" => method.list
                /\ reply' = Misshaped(response, shape) /\ damage' = shape
          \/ \E i \in 1 .. Len(response.entries), field \in Fields(method),
                how \in {"missing", "mistyped"} :
                /\ ~response.entries[i].null
                /\ reply' = Flawed(response, i, field, how) /\ damage' = "field"
    /\ UNCHANGED <<banks, method, request, outcome>>

(* The request or the answer is lost, the status is not a success, or the  *)
(* body is not JSON: the three map_err of the transports.                  *)
FailExchange(http) ==
    /\ pc \in {"sent", "answered"}
    /\ pc' = "answered"
    /\ reply' = [Response("neither", <<>>) EXCEPT !.http = http]
    /\ damage' = "exchange"
    /\ UNCHANGED <<banks, method, request, outcome>>

Return ==
    /\ pc = "answered"
    /\ pc' = "done"
    /\ outcome' = Decode(method, reply)
    /\ UNCHANGED <<banks, method, request, reply, damage>>

NextBank(bank) ==
    /\ Len(banks) < MaxBanks
    /\ banks' = Append(banks, bank)
    /\ UNCHANGED <<pc, method, request, reply, damage, outcome>>

Next ==
    \/ \E schema \in Methods, r \in Request : Call(schema, r)
    \/ Serve
    \/ \E http \in {"lost", "status", "not_json"} : FailExchange(http)
    \/ Return
    \/ \E bank \in [Key -> Version \cup {0}] : NextBank(bank)

Spec == Init /\ [][Next]_vars

-----------------------------------------------------------------------------

(* An answer of a method that returns one thing has one, an error none.    *)
TypeOK ==
    /\ Len(banks) \in 1 .. MaxBanks
    /\ \A n \in 1 .. Len(banks) : banks[n] \in [Key -> Version \cup {0}]
    /\ pc \in {"idle", "sent", "answered", "done"}
    /\ method \in Methods /\ request \in Request
    /\ damage \in {"none", "exchange", "field"} \cup Shapes
    /\ outcome.kind \in {"none", "Ok", "Transport", "Rpc", "Decode"}
    /\ outcome.kind = "Ok" /\ ~method.list => Len(outcome.value) = 1
    /\ outcome.kind # "Ok" => outcome.value = <<>>

(* What a call returns as Ok is one bank's answer: every entry at its      *)
(* place, `None` only for what did not exist, nothing left out because it  *)
(* did not decode, and no field defaulted that the decoder requires.       *)
OkIsOneBank ==
    outcome.kind = "Ok" =>
        /\ \E n \in 1 .. Len(banks) :
               LET view == View(method, request, banks[n])
               IN  /\ Len(outcome.value) = Len(view)
                   /\ \A i \in 1 .. Len(view) : outcome.value[i].content = view[i]
        /\ \A i \in 1 .. Len(outcome.value) : outcome.value[i].unread \cap method.typed = {}

(* A failure is named for its cause (RpcError): the transport's for a      *)
(* failed exchange, the node's for its own error, Decode only for an       *)
(* answer that lacks something; an answer that conforms never fails.       *)
ErrorHasCause ==
    pc = "done" =>
        /\ outcome.kind = "Transport" <=> damage = "exchange"
        /\ outcome.kind = "Rpc" => reply.envelope = "error"
        /\ outcome.kind = "Decode" => damage \notin {"none", "exchange"}
        /\ damage \in Shapes => outcome.kind = "Decode"

=============================================================================
