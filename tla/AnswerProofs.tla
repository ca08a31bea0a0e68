---------------------------- MODULE AnswerProofs ----------------------------
(***************************************************************************)
(* Proofs about what a caller is given of a node's answers: RpcReads, for  *)
(* any keys, contents, requests and number of banks; SignaturePoll, for    *)
(* any page limit and number of signatures; ShapeBudget, for any values,   *)
(* however they are cut and measured; and ShapeLevel, for JSON trees of    *)
(* any shape and height.                                                   *)
(***************************************************************************)
EXTENDS RpcReads, SignaturePoll, ShapeLevel, FiniteSetTheorems, TLAPS

-----------------------------------------------------------------------------
(* The reads of RpcReads.                                                  *)

(* What may have happened to a node's response on its way.                 *)
Spoilt(response) ==
    \/ damage = "none" /\ reply = response
    \/ /\ damage \in Shapes
       /\ response.envelope = "result"
       /\ damage = "no_value" => method.wrapped
       /\ damage = "no_array" => method.list
       /\ reply = Misshaped(response, damage)
    \/ /\ damage = "field"
       /\ \E i \in 1 .. Len(response.entries), field \in Fields(method),
             how \in {"missing", "mistyped"} :
             ~response.entries[i].null /\ reply = Flawed(response, i, field, how)

(* What arrived is one bank's answer, spoilt or not, or a failure of the   *)
(* exchange; and what was returned is what the decoder makes of it.        *)
Arrived ==
    \/ damage = "exchange" /\ reply.http # "ok"
    \/ \E n \in 1 .. Len(banks) : Spoilt(Conforming(method, request, banks[n]))

Banks == Len(banks) \in 1 .. MaxBanks /\ banks \in Seq([Key -> Version \cup {0}])

ReadInv ==
    /\ Banks
    /\ pc \in {"idle", "sent", "answered", "done"}
    /\ method \in Methods /\ request \in Request
    /\ damage \in {"none", "exchange", "field"} \cup Shapes
    /\ pc \in {"answered", "done"} => Arrived
    /\ outcome = IF pc = "done" THEN Decode(method, reply) ELSE None

-----------------------------------------------------------------------------

(* The listing of a part of an interval is a sequence of its elements.     *)
LEMMA ListingType ==
    ASSUME NEW n \in Nat, NEW S \in SUBSET (1 .. n)
    PROVE  \E c \in Nat : SetToSeq(S) \in [1 .. c -> S]
<1>1. IsFiniteSet(1 .. n)
  BY FS_Interval
<1>2. IsFiniteSet(S)
  BY <1>1, FS_Subset
<1>3. Cardinality(S) \in Nat /\ ExistsBijection(1 .. Cardinality(S), S)
  BY <1>2, FS_CardinalityType
<1>4. \E f \in [1 .. Cardinality(S) -> S] : IsInjective(f)
  BY <1>3 DEF ExistsBijection, Bijection, Injection, IsInjective
<1>5. SetToSeq(S) \in [1 .. Cardinality(S) -> S]
  BY <1>4 DEF SetToSeq
<1> QED BY <1>3, <1>5

(* What every decoder of the client has in common: a field that is there   *)
(* is not confused with one that is not, and `null` is accepted where a    *)
(* node says it.                                                           *)
LEMMA MethodFacts ==
    ASSUME NEW schema \in Methods
    PROVE  /\ schema.list \in BOOLEAN /\ schema.wrapped \in BOOLEAN /\ schema.nullable \in BOOLEAN
           /\ SaysNull(schema) => schema.nullable
           /\ "none" \notin schema.typed /\ "none" \notin schema.present
           /\ "none" \notin Fields(schema)
<1> USE DEF OneField, Schema, SaysNull, AccountTyped, AccountPresent, Fields
<1>1. CASE schema = GetLatestBlockhash
  BY <1>1 DEF GetLatestBlockhash
<1>2. CASE schema = GetBalance
  BY <1>2 DEF GetBalance
<1>3. CASE schema = GetAccountInfo
  BY <1>3 DEF GetAccountInfo
<1>4. CASE schema = GetMultipleAccounts
  BY <1>4 DEF GetMultipleAccounts
<1>5. CASE schema = GetTokenAccountBalance
  BY <1>5 DEF GetTokenAccountBalance
<1>6. CASE schema = GetTokenAccountsByOwner
  BY <1>6 DEF GetTokenAccountsByOwner
<1>7. CASE schema = SimulateTransaction
  BY <1>7 DEF SimulateTransaction
<1>8. CASE schema = SendTransaction
  BY <1>8 DEF SendTransaction
<1>9. CASE schema = GetSignatureStatuses
  BY <1>9 DEF GetSignatureStatuses
<1>10. CASE schema = GetSignaturesForAddress
  BY <1>10 DEF GetSignaturesForAddress
<1>11. CASE schema = GetMinimumBalanceForRentExemption
  BY <1>11 DEF GetMinimumBalanceForRentExemption
<1> QED BY <1>1, <1>2, <1>3, <1>4, <1>5, <1>6, <1>7, <1>8, <1>9, <1>10, <1>11 DEF Methods

(* A node's view of a request is a sequence; what does not exist is in it  *)
(* only for methods that answer `null` for it, unless the node refuses.    *)
LEMMA ViewFacts ==
    ASSUME NEW schema \in Methods, NEW r \in Request, NEW bank \in [Key -> Version \cup {0}]
    PROVE  /\ View(schema, r, bank) \in Seq(Version \cup {0})
           /\ ~schema.list => Len(View(schema, r, bank)) = 1
           /\ Refused(schema, r, bank) \/ SaysNull(schema)
                \/ \A i \in 1 .. Len(View(schema, r, bank)) : View(schema, r, bank)[i] # 0
<1> DEFINE v == View(schema, r, bank)
<1>1. r \in Seq(Key) /\ Len(r) \in Nat /\ Len(r) > 0 /\ \A i \in 1 .. Len(r) : r[i] \in Key
  BY ReadsAssumption
<1>2. CASE ~schema.list
  BY <1>1, <1>2 DEF View, Refused
<1>3. CASE schema.list /\ SaysNull(schema)
  BY <1>1, <1>3 DEF View
<1>4. CASE schema.list /\ ~SaysNull(schema)
  <2> DEFINE there == {i \in 1 .. Len(r) : bank[r[i]] # 0}
  <2>1. there \in SUBSET (1 .. Len(r))
    OBVIOUS
  <2>2. PICK c \in Nat : SetToSeq(there) \in [1 .. c -> there]
    <3> HIDE DEF there
    <3> QED BY <1>1, <2>1, ListingType
  <2>3. Listed(r, bank) \in [1 .. c -> there]
    BY <2>2 DEF Listed
  <2>4. v = [i \in 1 .. c |-> bank[r[Listed(r, bank)[i]]]]
    BY <1>4, <2>3 DEF View
  <2>5. \A i \in 1 .. c : bank[r[Listed(r, bank)[i]]] \in (Version \cup {0}) \ {0}
    BY <1>1, <2>3
  <2>6. v \in Seq(Version \cup {0}) /\ Len(v) = c /\ \A i \in 1 .. c : v[i] # 0
    BY <2>4, <2>5
  <2> QED BY <1>4, <2>6
<1> QED BY <1>2, <1>3, <1>4

(* A response that conforms: the node's error, or an entry for each thing  *)
(* in its view.                                                            *)
LEMMA ConformingFacts ==
    ASSUME NEW schema \in Methods, NEW r \in Request, NEW bank \in [Key -> Version \cup {0}],
           NEW response, response = Conforming(schema, r, bank)
    PROVE  \/ response = Response("error", <<>>)
           \/ \E v \in Seq(Version \cup {0}) :
                 /\ v = View(schema, r, bank)
                 /\ response = Response("result", Entries(v))
                 /\ SaysNull(schema) \/ \A i \in 1 .. Len(v) : v[i] # 0
                 /\ ~schema.list => Len(v) = 1
<1>1. CASE Refused(schema, r, bank)
  BY <1>1 DEF Conforming
<1>2. CASE ~Refused(schema, r, bank)
  <2> DEFINE v == View(schema, r, bank)
  <2>1. v \in Seq(Version \cup {0}) /\ (~schema.list => Len(v) = 1)
        /\ (SaysNull(schema) \/ \A i \in 1 .. Len(v) : v[i] # 0)
    BY <1>2, ViewFacts
  <2>2. response = Response("result", Entries(v))
    BY <1>2 DEF Conforming
  <2> HIDE DEF v
  <2>3. v = View(schema, r, bank)
    BY DEF v
  <2> QED BY <2>1, <2>2, <2>3
<1> QED BY <1>1, <1>2

-----------------------------------------------------------------------------
(* Decoding.                                                               *)

(* The errors of a call, in the order the code looks for them: transport,  *)
(* RPC error, then whatever cannot be decoded; only an Ok has a value.     *)
LEMMA DecodeErrors ==
    ASSUME NEW schema, NEW response, NEW o, o = Decode(schema, response)
    PROVE  /\ o.kind \in {"Ok", "Transport", "Rpc", "Decode"}
           /\ o.kind # "Ok" => o.value = <<>>
           /\ o.kind = "Transport" <=> response.http # "ok"
           /\ o.kind = "Rpc" => response.envelope = "error"
BY DEF Decode, Ok, Err

LEMMA EntryFacts ==
    ASSUME NEW x
    PROVE  Entry(x).content = x /\ Entry(x).flaw = "none" /\ (Entry(x).null <=> x = 0)
<1>1. Entry(x).content = x
  BY DEF Entry
<1>2. Entry(x).flaw = "none"
  BY DEF Entry
<1>3. Entry(x).null <=> x = 0
  BY DEF Entry
<1> QED BY <1>1, <1>2, <1>3

LEMMA DecodedContent == ASSUME NEW x PROVE Decoded(x).content = x.content
BY DEF Decoded

(* An entry with a flaw is otherwise the entry it was.                     *)
LEMMA FlawedEntry ==
    ASSUME NEW x, NEW field, NEW how
    PROVE  /\ Flaw(Entry(x), field, how).content = x
           /\ Flaw(Entry(x), field, how).null <=> x = 0
<1>1. Flaw(Entry(x), field, how).content = Entry(x).content
  BY DEF Flaw, Entry
<1>2. Flaw(Entry(x), field, how).null = Entry(x).null
  BY DEF Flaw, Entry
<1> QED BY <1>1, <1>2, EntryFacts

(* Entries that are all decoded arrive each at its own place, and a field  *)
(* that a decoder insists on is not among those left at their default.     *)
LEMMA EntriesDecode ==
    ASSUME NEW schema \in Methods, NEW response, NEW v \in Seq(Version \cup {0}),
           Len(response.entries) = Len(v),
           \A i \in 1 .. Len(v) : response.entries[i].content = v[i],
           NEW o, o = Decode(schema, response), o.kind = "Ok"
    PROVE  /\ Len(o.value) = Len(v)
           /\ \A i \in 1 .. Len(v) : o.value[i].content = v[i]
           /\ \A i \in 1 .. Len(v) :
                 response.entries[i].flaw = "none" \/ ~response.entries[i].null
                     => o.value[i].unread \cap schema.typed = {}
<1> DEFINE entries == response.entries
<1>1. /\ o = Ok(DecodedAll(entries))
      /\ \A i \in 1 .. Len(v) : Decodes(schema, entries[i])
  BY DEF Decode, Ok, Err
<1>2. o.value = [i \in 1 .. Len(v) |-> Decoded(entries[i])]
  BY <1>1 DEF Ok, DecodedAll
<1>3. Len(o.value) = Len(v) /\ \A i \in 1 .. Len(v) : o.value[i] = Decoded(entries[i])
  BY <1>2
<1>4. ASSUME NEW i \in 1 .. Len(v), entries[i].flaw = "none" \/ ~entries[i].null
      PROVE  Decoded(entries[i]).unread \cap schema.typed = {}
  <2>1. CASE entries[i].flaw = "none"
    BY <2>1 DEF Decoded
  <2>2. CASE entries[i].flaw # "none" /\ ~entries[i].null
    <3>1. entries[i].flaw \notin schema.typed
      BY <1>1, <2>2 DEF Decodes
    <3>2. Decoded(entries[i]).unread = {entries[i].flaw}
      BY <2>2 DEF Decoded
    <3> QED BY <3>1, <3>2
  <2> QED BY <1>4, <2>1, <2>2
<1>5. ASSUME NEW i \in 1 .. Len(v) PROVE o.value[i].content = v[i]
  <2>1. o.value[i] = Decoded(entries[i]) /\ entries[i].content = v[i]
    BY <1>3
  <2> QED BY <2>1, DecodedContent
<1> QED BY <1>3, <1>4, <1>5

(* One bank's answer, whatever of it was spoilt: an Ok is that answer, a   *)
(* refusal to decode has something spoilt behind it.                       *)
LEMMA SpoiltDecodes ==
    ASSUME method \in Methods, request \in Request, NEW bank \in [Key -> Version \cup {0}],
           Spoilt(Conforming(method, request, bank)),
           NEW o, o = Decode(method, reply)
    PROVE  /\ reply.http = "ok" /\ damage # "exchange"
           /\ o.kind = "Ok" =>
                 /\ Len(o.value) = Len(View(method, request, bank))
                 /\ \A i \in 1 .. Len(View(method, request, bank)) :
                        o.value[i].content = View(method, request, bank)[i]
                 /\ \A i \in 1 .. Len(o.value) : o.value[i].unread \cap method.typed = {}
                 /\ ~method.list => Len(o.value) = 1
           /\ o.kind = "Decode" => damage # "none"
           /\ damage \in Shapes => o.kind = "Decode"
<1> DEFINE response == Conforming(method, request, bank)
<1>1. \/ response = Response("error", <<>>)
      \/ \E v \in Seq(Version \cup {0}) :
            /\ v = View(method, request, bank)
            /\ response = Response("result", Entries(v))
            /\ SaysNull(method) \/ \A i \in 1 .. Len(v) : v[i] # 0
            /\ ~method.list => Len(v) = 1
  <2> HIDE DEF response
  <2>1. response = Conforming(method, request, bank)
    BY DEF response
  <2> QED BY <2>1, ConformingFacts
<1>2. Spoilt(response)
  OBVIOUS
<1> HIDE DEF response
<1>3. CASE response = Response("error", <<>>)
  <2>1. damage = "none" /\ reply = response
    BY <1>2, <1>3 DEF Spoilt, Response
  <2>2. o = Err("Rpc")
    BY <1>3, <2>1 DEF Decode, Response
  <2> QED BY <1>3, <2>1, <2>2 DEF Err, Shapes, Response
<1>4. ASSUME NEW v \in Seq(Version \cup {0}),
             v = View(method, request, bank),
             response = Response("result", Entries(v)),
             SaysNull(method) \/ \A i \in 1 .. Len(v) : v[i] # 0,
             ~method.list => Len(v) = 1
      PROVE  /\ reply.http = "ok" /\ damage # "exchange"
             /\ o.kind = "Ok" =>
                   /\ Len(o.value) = Len(v)
                   /\ \A i \in 1 .. Len(v) : o.value[i].content = v[i]
                   /\ \A i \in 1 .. Len(v) : o.value[i].unread \cap method.typed = {}
             /\ o.kind = "Decode" => damage # "none"
             /\ damage \in Shapes => o.kind = "Decode"
  <2> DEFINE entries == Entries(v)
  <2>1. /\ response = [http |-> "ok", envelope |-> "result", value |-> TRUE, array |-> TRUE,
                       entries |-> entries]
        /\ Len(entries) = Len(v)
        /\ \A i \in 1 .. Len(v) : entries[i] = Entry(v[i])
    BY <1>4 DEF Response, Entries
  <2> HIDE DEF entries
  <2>2. CASE damage = "none" /\ reply = response
    <3>1. ASSUME NEW i \in 1 .. Len(v)
          PROVE  entries[i].content = v[i] /\ entries[i].flaw = "none" /\ (entries[i].null <=> v[i] = 0)
      <4>1. entries[i] = Entry(v[i])
        BY <2>1
      <4> QED BY <4>1, EntryFacts
    <3>2. reply.entries = entries /\ reply.http = "ok"
      BY <2>1, <2>2
    <3>3. ASSUME NEW i \in 1 .. Len(v) PROVE Decodes(method, entries[i])
      <4>1. entries[i].flaw = "none" /\ (entries[i].null <=> v[i] = 0)
        BY <3>1
      <4>2. v[i] = 0 => method.nullable
        BY <1>4, MethodFacts
      <4>3. "none" \notin method.typed /\ "none" \notin method.present
        BY MethodFacts
      <4> QED BY <4>1, <4>2, <4>3 DEF Decodes
    <3>4. o.kind # "Decode"
      BY <2>1, <2>2, <3>2, <3>3 DEF Decode, Ok, Err
    <3>5. o.kind = "Ok" =>
             /\ Len(o.value) = Len(v)
             /\ \A i \in 1 .. Len(v) : o.value[i].content = v[i]
             /\ \A i \in 1 .. Len(v) : o.value[i].unread \cap method.typed = {}
      <4> SUFFICES ASSUME o.kind = "Ok"
                   PROVE  /\ Len(o.value) = Len(v)
                          /\ \A i \in 1 .. Len(v) : o.value[i].content = v[i]
                          /\ \A i \in 1 .. Len(v) : o.value[i].unread \cap method.typed = {}
        OBVIOUS
      <4>1. /\ Len(reply.entries) = Len(v)
            /\ \A i \in 1 .. Len(v) : reply.entries[i].content = v[i]
            /\ \A i \in 1 .. Len(v) : reply.entries[i].flaw = "none"
        BY <2>1, <3>1, <3>2
      <4>2. /\ Len(o.value) = Len(v)
            /\ \A i \in 1 .. Len(v) : o.value[i].content = v[i]
            /\ \A i \in 1 .. Len(v) :
                  reply.entries[i].flaw = "none" \/ ~reply.entries[i].null
                      => o.value[i].unread \cap method.typed = {}
        BY <4>1, EntriesDecode
      <4> QED BY <4>1, <4>2
    <3> QED BY <2>2, <3>2, <3>4, <3>5 DEF Shapes
  <2>3. CASE /\ damage \in Shapes
             /\ damage = "no_value" => method.wrapped
             /\ damage = "no_array" => method.list
             /\ reply = Misshaped(response, damage)
    <3>1. CASE damage = "neither"
      <4>1. reply = [response EXCEPT !.envelope = "neither"]
        BY <2>3, <3>1 DEF Misshaped
      <4>2. reply.http = "ok" /\ reply.envelope = "neither"
        BY <2>1, <4>1
      <4> QED BY <3>1, <4>2 DEF Decode, Err
    <3>2. CASE damage = "no_value"
      <4>1. reply = [response EXCEPT !.value = FALSE]
        BY <2>3, <3>2 DEF Misshaped
      <4>2. reply.http = "ok" /\ reply.envelope = "result" /\ reply.value = FALSE
        BY <2>1, <4>1
      <4> QED BY <2>3, <3>2, <4>2 DEF Decode, Err
    <3>3. CASE damage = "no_array"
      <4>1. reply = [response EXCEPT !.array = FALSE]
        BY <2>3, <3>3 DEF Misshaped
      <4>2. reply.http = "ok" /\ reply.envelope = "result" /\ reply.array = FALSE
        BY <2>1, <4>1
      <4> QED BY <2>3, <3>3, <4>2 DEF Decode, Err
    <3> QED BY <2>3, <3>1, <3>2, <3>3 DEF Shapes
  <2>4. ASSUME damage = "field",
               NEW i \in 1 .. Len(response.entries), NEW field \in Fields(method),
               NEW how \in {"missing", "mistyped"},
               ~response.entries[i].null, reply = Flawed(response, i, field, how)
        PROVE  /\ reply.http = "ok"
               /\ o.kind = "Ok" =>
                     /\ Len(o.value) = Len(v)
                     /\ \A k \in 1 .. Len(v) : o.value[k].content = v[k]
                     /\ \A k \in 1 .. Len(v) : o.value[k].unread \cap method.typed = {}
    <3>1. i \in 1 .. Len(v) /\ response.entries = entries
      BY <2>1, <2>4
    <3> DEFINE flawed == [entries EXCEPT ![i] = Flaw(entries[i], field, how)]
    <3>2. reply.entries = flawed /\ reply.http = "ok"
      BY <2>1, <2>4 DEF Flawed
    <3>3. Len(flawed) = Len(v) /\ \A k \in 1 .. Len(v) :
             flawed[k] = IF k = i THEN Flaw(Entry(v[k]), field, how) ELSE Entry(v[k])
      BY <2>1, <3>1 DEF entries, Entries
    <3> HIDE DEF flawed
    <3>4. v[i] # 0
      <4>1. entries[i] = Entry(v[i]) /\ ~entries[i].null
        BY <2>1, <2>4, <3>1
      <4> QED BY <4>1, EntryFacts
    <3>5. ASSUME NEW k \in 1 .. Len(v)
          PROVE  flawed[k].content = v[k] /\ (flawed[k].flaw = "none" \/ ~flawed[k].null)
      <4>1. CASE k = i
        BY <3>3, <3>4, <4>1, FlawedEntry
      <4>2. CASE k # i
        BY <3>3, <4>2, EntryFacts
      <4> QED BY <4>1, <4>2
    <3>6. /\ Len(reply.entries) = Len(v)
          /\ \A k \in 1 .. Len(v) : reply.entries[k].content = v[k]
          /\ \A k \in 1 .. Len(v) : reply.entries[k].flaw = "none" \/ ~reply.entries[k].null
      BY <3>2, <3>3, <3>5
    <3>7. o.kind = "Ok" =>
             /\ Len(o.value) = Len(v)
             /\ \A k \in 1 .. Len(v) : o.value[k].content = v[k]
             /\ \A k \in 1 .. Len(v) :
                   reply.entries[k].flaw = "none" \/ ~reply.entries[k].null
                       => o.value[k].unread \cap method.typed = {}
      <4> SUFFICES ASSUME o.kind = "Ok"
                   PROVE  /\ Len(o.value) = Len(v)
                          /\ \A k \in 1 .. Len(v) : o.value[k].content = v[k]
                          /\ \A k \in 1 .. Len(v) :
                                reply.entries[k].flaw = "none" \/ ~reply.entries[k].null
                                    => o.value[k].unread \cap method.typed = {}
        OBVIOUS
      <4> QED BY <3>6, EntriesDecode
    <3> QED BY <3>2, <3>6, <3>7
  <2> QED BY <1>2, <2>1, <2>2, <2>3, <2>4 DEF Spoilt, Shapes
<1> QED BY <1>1, <1>3, <1>4

-----------------------------------------------------------------------------
(* Steps.                                                                  *)

LEMMA InitReadInv == Init => ReadInv
<1> SUFFICES ASSUME Init PROVE ReadInv
  OBVIOUS
<1>1. PICK bank \in [Key -> Version \cup {0}] : banks = <<bank>>
  BY DEF Init
<1>2. Banks
  BY <1>1, ReadsAssumption DEF Banks
<1>3. GetBalance \in Methods
  BY DEF Methods
<1> QED BY <1>2, <1>3 DEF Init, ReadInv

(* What was answered stays one of the banks' answers when others follow.   *)
LEMMA BanksGrow ==
    ASSUME ReadInv, NEW bank \in [Key -> Version \cup {0}], NextBank(bank)
    PROVE  ReadInv'
<1>1. banks' = Append(banks, bank) /\ UNCHANGED <<pc, method, request, reply, damage, outcome>>
  BY DEF NextBank
<1>2. Banks'
  BY <1>1, ReadsAssumption DEF ReadInv, Banks, NextBank
<1>3. \A n \in 1 .. Len(banks) : n \in 1 .. Len(banks') /\ banks'[n] = banks[n]
  BY <1>1 DEF ReadInv, Banks
<1>4. ASSUME pc \in {"answered", "done"} PROVE Arrived'
  <2>1. CASE damage = "exchange" /\ reply.http # "ok"
    BY <1>1, <2>1 DEF Arrived
  <2>2. ASSUME NEW n \in 1 .. Len(banks), Spoilt(Conforming(method, request, banks[n]))
        PROVE  Arrived'
    <3> DEFINE response == Conforming(method, request, banks[n])
    <3>1. response = Conforming(method', request', banks'[n])
      BY <1>1, <1>3
    <3> HIDE DEF response
    <3>2. Spoilt(response)
      BY <2>2 DEF response
    <3>3. Spoilt(response)'
      <4>1. response' = response
        BY <1>1, <1>3 DEF response
      <4> QED BY <1>1, <3>2, <4>1 DEF Spoilt
    <3> QED BY <1>3, <3>3 DEF Arrived, response
  <2> QED BY <1>4, <2>1, <2>2 DEF ReadInv, Arrived
<1> QED BY <1>1, <1>2, <1>4 DEF ReadInv

(* A node answers from a bank there is.                                    *)
LEMMA ServeStep == ASSUME ReadInv, Serve PROVE ReadInv'
<1>1. /\ pc = "sent" /\ pc' = "answered"
      /\ UNCHANGED <<banks, method, request, outcome>>
  BY DEF Serve
<1>2. PICK n \in 1 .. Len(banks) :
         LET response == Conforming(method, request, banks[n]) IN
         \/ reply' = response /\ damage' = "none"
         \/ \E shape \in Shapes :
               /\ response.envelope = "result"
               /\ shape = "no_value" => method.wrapped
               /\ shape = "no_array" => method.list
               /\ reply' = Misshaped(response, shape) /\ damage' = shape
         \/ \E i \in 1 .. Len(response.entries), field \in Fields(method),
               how \in {"missing", "mistyped"} :
               /\ ~response.entries[i].null
               /\ reply' = Flawed(response, i, field, how) /\ damage' = "field"
  BY DEF Serve
<1> DEFINE response == Conforming(method, request, banks[n])
<1>3. response' = response
  BY <1>1
<1> HIDE DEF response
<1>4. \/ reply' = response /\ damage' = "none"
      \/ \E shape \in Shapes :
            /\ response.envelope = "result"
            /\ shape = "no_value" => method.wrapped
            /\ shape = "no_array" => method.list
            /\ reply' = Misshaped(response, shape) /\ damage' = shape
      \/ \E i \in 1 .. Len(response.entries), field \in Fields(method),
            how \in {"missing", "mistyped"} :
            /\ ~response.entries[i].null
            /\ reply' = Flawed(response, i, field, how) /\ damage' = "field"
  BY <1>2 DEF response
<1>5. Spoilt(response)' /\ damage' \in {"none", "exchange", "field"} \cup Shapes
  BY <1>1, <1>3, <1>4 DEF Spoilt
<1>6. Arrived'
  BY <1>1, <1>3, <1>5 DEF Arrived, response
<1> QED BY <1>1, <1>5, <1>6 DEF ReadInv, Banks

(* Every step keeps the invariant.                                         *)
LEMMA NextReadInv == ASSUME ReadInv, [Next]_vars PROVE ReadInv'
<1>1. ASSUME NEW schema \in Methods, NEW r \in Request, Call(schema, r)
      PROVE  ReadInv'
  BY <1>1 DEF Call, ReadInv, Banks
<1>2. CASE Serve
  BY <1>2, ServeStep
<1>3. ASSUME NEW http \in {"lost", "status", "not_json"}, FailExchange(http)
      PROVE  ReadInv'
  <2>1. reply'.http = http
    BY <1>3 DEF FailExchange, Response
  <2>2. Arrived'
    BY <1>3, <2>1 DEF FailExchange, Arrived
  <2> QED BY <1>3, <2>2 DEF FailExchange, ReadInv, Banks
<1>4. CASE Return
  <2>1. /\ pc = "answered" /\ pc' = "done" /\ outcome' = Decode(method, reply)
        /\ UNCHANGED <<banks, method, request, reply, damage>>
    BY <1>4 DEF Return
  <2>2. Arrived
    BY <2>1 DEF ReadInv
  <2>3. Arrived'
    BY <2>1, <2>2 DEF Arrived, Spoilt
  <2> QED BY <2>1, <2>3 DEF ReadInv, Banks
<1>5. ASSUME NEW bank \in [Key -> Version \cup {0}], NextBank(bank)
      PROVE  ReadInv'
  BY <1>5, BanksGrow
<1>6. CASE UNCHANGED vars
  <2>1. UNCHANGED <<banks, pc, method, request, reply, damage, outcome>>
    BY <1>6 DEF vars
  <2>2. Arrived => Arrived'
    BY <2>1 DEF Arrived, Spoilt
  <2> QED BY <2>1, <2>2 DEF ReadInv, Banks
<1> QED BY <1>1, <1>2, <1>3, <1>4, <1>5, <1>6 DEF Next

(* Every answer on its way is one bank's, spoilt or not, or a failure of   *)
(* the exchange.                                                           *)
THEOREM ReadInvariant == Spec => []ReadInv
<1>1. ReadInv /\ [Next]_vars => ReadInv'
  BY NextReadInv
<1> QED BY InitReadInv, <1>1, PTL DEF Spec

(* A method that returns one thing returns one, and an error carries none  *)
(* (the decoders of mod.rs), for any keys, requests and number of banks.   *)
THEOREM ReadsTypeCorrect == Spec => []TypeOK
<1>1. ReadInv => TypeOK
  <2> SUFFICES ASSUME ReadInv PROVE TypeOK
    OBVIOUS
  <2>1. /\ Len(banks) \in 1 .. MaxBanks
        /\ \A n \in 1 .. Len(banks) : banks[n] \in [Key -> Version \cup {0}]
    BY DEF ReadInv, Banks
  <2>2. CASE pc # "done"
    <3>1. outcome.kind = "none" /\ outcome.value = <<>>
      BY <2>2 DEF ReadInv, None
    <3> QED BY <2>1, <3>1 DEF ReadInv, TypeOK
  <2>3. CASE pc = "done"
    <3>1. outcome = Decode(method, reply) /\ Arrived
      BY <2>3 DEF ReadInv
    <3>2. /\ outcome.kind \in {"Ok", "Transport", "Rpc", "Decode"}
          /\ outcome.kind # "Ok" => outcome.value = <<>>
          /\ outcome.kind = "Transport" <=> reply.http # "ok"
      BY <3>1, DecodeErrors
    <3>3. outcome.kind = "Ok" /\ ~method.list => Len(outcome.value) = 1
      BY <2>1, <3>1, <3>2, SpoiltDecodes DEF ReadInv, Arrived
    <3> QED BY <2>1, <3>2, <3>3 DEF ReadInv, TypeOK
  <2> QED BY <2>2, <2>3
<1> QED BY <1>1, ReadInvariant, PTL

(* An Ok is one bank's answer, entry by entry and with every field the     *)
(* decoder insists on (call, call_value and the decoders of mod.rs),       *)
(* however nodes lag and answers are spoilt.                               *)
THEOREM AnswersAreOneBanks == Spec => []OkIsOneBank
<1>1. ReadInv => OkIsOneBank
  <2> SUFFICES ASSUME ReadInv, outcome.kind = "Ok" PROVE OkIsOneBank
    BY DEF OkIsOneBank
  <2>1. pc = "done" /\ outcome = Decode(method, reply) /\ Arrived
    BY DEF ReadInv, None
  <2>2. reply.http = "ok"
    BY <2>1, DecodeErrors
  <2>3. PICK n \in 1 .. Len(banks) : Spoilt(Conforming(method, request, banks[n]))
    BY <2>1, <2>2 DEF Arrived
  <2>4. banks[n] \in [Key -> Version \cup {0}]
    BY <2>3 DEF ReadInv, Banks
  <2>5. /\ Len(outcome.value) = Len(View(method, request, banks[n]))
        /\ \A i \in 1 .. Len(View(method, request, banks[n])) :
               outcome.value[i].content = View(method, request, banks[n])[i]
        /\ \A i \in 1 .. Len(outcome.value) : outcome.value[i].unread \cap method.typed = {}
    BY <2>1, <2>3, <2>4, SpoiltDecodes DEF ReadInv
  <2> QED BY <2>3, <2>5 DEF OkIsOneBank
<1> QED BY <1>1, ReadInvariant, PTL

(* An error is named for its cause, and an answer that conforms never      *)
(* fails (RpcError, the map_err of the transports and of the decoders).    *)
THEOREM ErrorsNameTheirCause == Spec => []ErrorHasCause
<1>1. ReadInv => ErrorHasCause
  <2> SUFFICES ASSUME ReadInv, pc = "done" PROVE ErrorHasCause
    BY DEF ErrorHasCause
  <2>1. outcome = Decode(method, reply) /\ Arrived
    BY DEF ReadInv
  <2>2. /\ outcome.kind \in {"Ok", "Transport", "Rpc", "Decode"}
        /\ outcome.kind = "Transport" <=> reply.http # "ok"
        /\ outcome.kind = "Rpc" => reply.envelope = "error"
    BY <2>1, DecodeErrors
  <2>3. CASE damage = "exchange" /\ reply.http # "ok"
    BY <2>2, <2>3 DEF ErrorHasCause, Shapes
  <2>4. ASSUME NEW n \in 1 .. Len(banks), Spoilt(Conforming(method, request, banks[n]))
        PROVE  ErrorHasCause
    <3>1. banks[n] \in [Key -> Version \cup {0}]
      BY DEF ReadInv, Banks
    <3>2. /\ reply.http = "ok" /\ damage # "exchange"
          /\ outcome.kind = "Decode" => damage # "none"
          /\ damage \in Shapes => outcome.kind = "Decode"
      BY <2>1, <2>4, <3>1, SpoiltDecodes DEF ReadInv
    <3> QED BY <2>2, <3>2 DEF ErrorHasCause
  <2> QED BY <2>1, <2>3, <2>4 DEF Arrived
<1> QED BY <1>1, ReadInvariant, PTL

-----------------------------------------------------------------------------
(* The poller of SignaturePoll, however many arrive between two polls.     *)

(* What a page holds is a stretch of the history up to the newest.         *)
Stretch(low, high) == [i \in 1 .. high - low |-> high - i + 1]

(* It fits a page, and fills it unless it begins right above the cursor.   *)
PageBegins(low) == known - low <= PageLimit /\ (low = cursor \/ known - low = PageLimit)

OnItsWay ==
    /\ asked # Nothing => asked = Options(cursor)
    /\ page # Nothing =>
           /\ asked # Nothing
           /\ known \in cursor .. history
           /\ \E low \in cursor .. known : PageBegins(low) /\ page = Stretch(low, known)

PollShape ==
    /\ history \in Nat /\ history <= MaxSignatures
    /\ unreadable \subseteq 1 .. history
    /\ cursor \in 0 .. history
    /\ history - cursor <= Burst

(* The reports so far, none twice, the newest of them last and remembered. *)
Rising ==
    /\ reported \in Seq(1 .. cursor) /\ Len(reported) <= cursor
    /\ \A i, j \in 1 .. Len(reported) : i < j => reported[i] < reported[j]
    /\ cursor > 0 => reported # <<>> /\ reported[Len(reported)] = cursor

(* Where one was left out, a full page follows.                            *)
GapsAreBursts ==
    \A i \in 1 .. Len(reported) : reported[i] = Previous(i) + 1 \/ FullPageAt(i)

PollInv == PollShape /\ OnItsWay /\ Rising /\ GapsAreBursts

(* A node's answer to the poller's own options (the method's `options`)    *)
(* begins no lower than `until`, and higher only to fill the page.         *)
LEMMA AnswerIsStretch ==
    ASSUME history \in Nat, cursor \in 0 .. history
    PROVE  \E low \in cursor .. history :
              /\ history - low <= PageLimit /\ (low = cursor \/ history - low = PageLimit)
              /\ Answer(Options(cursor)) = Stretch(low, history)
<1> DEFINE from == IF history - cursor > PageLimit THEN history - PageLimit ELSE cursor
<1>1. PageLimit \in Nat
  BY PollAssumption
<1>2. /\ from \in cursor .. history
      /\ history - from <= PageLimit /\ (from = cursor \/ history - from = PageLimit)
  BY <1>1
<1>3. Answer(Options(cursor)) = Stretch(from, history)
  <2>1. (IF Options(cursor) = <<>> THEN 0 ELSE Options(cursor)[1]) = cursor
    BY DEF Options
  <2> QED BY <2>1 DEF Answer, Stretch
<1> HIDE DEF from
<1> QED BY <1>2, <1>3

(* A stretch read backwards rises to its upper end.                        *)
LEMMA StretchRises ==
    ASSUME NEW low \in Nat, NEW high \in Nat, low <= high
    PROVE  /\ Reverse(Stretch(low, high)) = [i \in 1 .. high - low |-> low + i]
           /\ Len(Stretch(low, high)) = high - low
           /\ Stretch(low, high) # <<>> => low < high /\ Stretch(low, high)[1] = high
<1>1. /\ Stretch(low, high) \in Seq(Int) /\ Len(Stretch(low, high)) = high - low
      /\ \A i \in 1 .. high - low : Stretch(low, high)[i] = high - i + 1
  BY DEF Stretch
<1>2. Reverse(Stretch(low, high)) = [i \in 1 .. high - low |-> low + i]
  BY <1>1 DEF Reverse
<1>3. Stretch(low, high) # <<>> => low < high
  BY <1>1
<1>4. low < high => Stretch(low, high)[1] = high
  BY <1>1
<1> QED BY <1>1, <1>2, <1>3, <1>4

(* A call that returns either changes nothing but the messages, or it      *)
(* reports a stretch above the cursor and moves the cursor to its end.     *)
LEMMA ReceiveReports ==
    ASSUME PollInv, Receive
    PROVE  \/ reported' = reported /\ cursor' = cursor
           \/ \E low \in cursor .. known :
                 /\ low < known /\ PageBegins(low) /\ page = Stretch(low, known)
                 /\ reported' = reported \o [i \in 1 .. known - low |-> low + i]
                 /\ cursor' = known
<1>1. PICK low \in cursor .. known : PageBegins(low) /\ page = Stretch(low, known)
  BY DEF Receive, PollInv, OnItsWay
<1>2. /\ low \in Nat /\ known \in Nat /\ low <= known
      /\ reported \in Seq(1 .. cursor)
  BY <1>1 DEF Receive, PollInv, PollShape, OnItsWay, Rising
<1>3. CASE DecodePage(page).page = <<>>
  <2>1. reported' = reported \o Reverse(<<>>) /\ cursor' = cursor
    BY <1>3 DEF Receive
  <2>2. Reverse(<<>>) = <<>>
    BY DEF Reverse
  <2> QED BY <1>2, <2>1, <2>2
<1>4. CASE DecodePage(page).page # <<>>
  <2>1. DecodePage(page).page = page
    BY <1>4 DEF DecodePage
  <2>2. /\ low < known /\ page[1] = known
        /\ Reverse(page) = [i \in 1 .. known - low |-> low + i]
    <3>1. Stretch(low, known) # <<>>
      BY <1>1, <1>4, <2>1
    <3> QED BY <1>1, <1>2, <3>1, StretchRises
  <2>3. reported' = reported \o Reverse(page) /\ cursor' = page[1]
    BY <1>4, <2>1 DEF Receive
  <2> QED BY <1>1, <2>2, <2>3
<1> QED BY <1>3, <1>4

(* A page that decodes only adds what is newer than all reports, and skips *)
(* some only before a full page.                                           *)
LEMMA ReceiveStep ==
    ASSUME PollInv, Receive
    PROVE  PollInv'
<1>1. /\ asked' = Nothing /\ page' = Nothing
      /\ UNCHANGED <<history, unreadable, known>> /\ page # Nothing
  BY DEF Receive
<1>2. /\ cursor \in Nat /\ known \in Nat /\ history \in Nat /\ Burst \in Nat
      /\ cursor <= known /\ known <= history /\ history - cursor <= Burst
      /\ reported \in Seq(1 .. cursor) /\ Len(reported) <= cursor
  BY <1>1, PollAssumption DEF PollInv, PollShape, OnItsWay, Rising
<1>3. OnItsWay'
  BY <1>1 DEF OnItsWay
<1>4. CASE reported' = reported /\ cursor' = cursor
  BY <1>1, <1>3, <1>4 DEF PollInv, PollShape, Rising, GapsAreBursts, Previous, FullPageAt
<1>5. ASSUME NEW low \in cursor .. known, low < known, PageBegins(low),
             reported' = reported \o [i \in 1 .. known - low |-> low + i], cursor' = known
      PROVE  PollInv'
  <2> DEFINE more == [i \in 1 .. known - low |-> low + i]
             n == Len(reported)
  <2>1. /\ low \in Nat /\ cursor <= low /\ n \in Nat
        /\ \A i \in 1 .. n : reported[i] \in 1 .. cursor
        /\ reported \in Seq(1 .. known)
    BY <1>2, <1>5
  <2>2. /\ more \in Seq(1 .. known) /\ Len(more) = known - low
        /\ \A i \in 1 .. Len(more) : more[i] = low + i
    BY <1>2, <2>1
  <2>3. reported' = reported \o more
    BY <1>5
  <2> HIDE DEF more
  <2>4. /\ reported' \in Seq(1 .. known) /\ Len(reported') = n + Len(more)
        /\ \A i \in 1 .. n : reported'[i] = reported[i]
        /\ \A i \in n + 1 .. Len(reported') : reported'[i] = more[i - n]
    <3>1. more \in Seq(1 .. known) /\ reported \in Seq(1 .. known)
      BY <2>1, <2>2
    <3> QED BY <2>3, <3>1
  <2>5. Len(reported') = n + (known - low) /\ Len(reported') \in Nat
    BY <1>2, <1>5, <2>1, <2>2, <2>4
  <2> HIDE DEF n
  <2>6. \A i \in n + 1 .. Len(reported') : reported'[i] = low + i - n
    <3> SUFFICES ASSUME NEW i \in n + 1 .. Len(reported') PROVE reported'[i] = low + i - n
      OBVIOUS
    <3>1. i - n \in 1 .. Len(more) /\ i \in Int
      BY <2>1, <2>2, <2>5
    <3>2. reported'[i] = more[i - n] /\ more[i - n] = low + (i - n)
      BY <2>2, <2>4, <3>1
    <3> QED BY <2>1, <3>1, <3>2
  <2>7. \A i, j \in 1 .. Len(reported') : i < j => reported'[i] < reported'[j]
    <3> SUFFICES ASSUME NEW i \in 1 .. Len(reported'), NEW j \in 1 .. Len(reported'), i < j
                 PROVE  reported'[i] < reported'[j]
      OBVIOUS
    <3>1. CASE j <= n
      <4>1. i \in 1 .. Len(reported) /\ j \in 1 .. Len(reported)
        BY <2>1, <2>5, <3>1 DEF n
      <4>2. reported'[i] = reported[i] /\ reported'[j] = reported[j]
        BY <2>4, <4>1 DEF n
      <4> QED BY <4>1, <4>2 DEF PollInv, Rising
    <3>2. CASE i <= n /\ j > n
      <4>1. i \in 1 .. n /\ j \in n + 1 .. Len(reported')
        BY <2>1, <2>5, <3>2
      <4>2. reported'[i] \in 1 .. cursor /\ reported'[j] = low + j - n
        BY <2>1, <2>4, <2>6, <4>1
      <4> QED BY <1>2, <2>1, <4>1, <4>2
    <3>3. CASE i > n
      <4>1. i \in n + 1 .. Len(reported') /\ j \in n + 1 .. Len(reported')
        BY <2>1, <2>5, <3>3
      <4>2. reported'[i] = low + i - n /\ reported'[j] = low + j - n
        BY <2>6, <4>1
      <4> QED BY <2>1, <4>1, <4>2
    <3> QED BY <2>1, <2>5, <3>1, <3>2, <3>3
  <2>8. reported' # <<>> /\ reported'[Len(reported')] = known
    <3>1. Len(reported') \in n + 1 .. Len(reported') /\ Len(reported') > 0
      BY <1>2, <1>5, <2>1, <2>5
    <3>2. reported'[Len(reported')] = low + Len(reported') - n
      BY <2>6, <3>1
    <3> QED BY <1>2, <2>1, <2>5, <3>1, <3>2
  <2>9. Rising'
    <3>1. Len(reported') <= known
      BY <1>2, <2>1, <2>5 DEF n
    <3> QED BY <1>5, <2>4, <2>7, <2>8, <3>1 DEF Rising
  <2>10. GapsAreBursts'
    <3> SUFFICES ASSUME NEW i \in 1 .. Len(reported')
                 PROVE  (reported[i] = Previous(i) + 1 \/ FullPageAt(i))'
      BY DEF GapsAreBursts
    <3>1. CASE i <= n
      <4>1. i \in 1 .. n /\ i \in 1 .. Len(reported) /\ (i # 1 => i - 1 \in 1 .. n)
        BY <2>1, <2>5, <3>1 DEF n
      <4>2. reported'[i] = reported[i] /\ Previous(i)' = Previous(i)
        BY <2>4, <4>1 DEF Previous
      <4>3. ASSUME FullPageAt(i) PROVE FullPageAt(i)'
        <5>1. PageLimit \in Nat /\ i + PageLimit - 1 <= n
          BY <4>3, PollAssumption DEF FullPageAt, n
        <5>2. \A k \in 0 .. PageLimit - 1 : i + k \in 1 .. n
          BY <2>1, <4>1, <5>1
        <5>3. \A k \in 0 .. PageLimit - 1 : reported'[i + k] = reported[i + k]
          BY <2>4, <5>2
        <5>4. i + PageLimit - 1 <= Len(reported')
          BY <1>2, <2>1, <2>5, <4>1, <5>1
        <5> QED BY <4>2, <4>3, <5>3, <5>4 DEF FullPageAt
      <4> QED BY <4>1, <4>2, <4>3 DEF PollInv, GapsAreBursts
    <3>2. CASE i > n + 1
      <4>1. i \in n + 1 .. Len(reported') /\ i - 1 \in n + 1 .. Len(reported') /\ i # 1
        BY <2>1, <2>5, <3>2
      <4>2. reported'[i] = low + i - n /\ reported'[i - 1] = low + (i - 1) - n
        BY <2>6, <4>1
      <4>3. Previous(i)' = reported'[i - 1]
        BY <4>1 DEF Previous
      <4> QED BY <2>1, <4>1, <4>2, <4>3
    <3>3. CASE i = n + 1 /\ low = cursor
      <4>1. reported'[i] = cursor + 1
        BY <2>1, <2>5, <2>6, <3>3
      <4>2. Previous(i)' = cursor
        <5>1. CASE n = 0
          <6>1. reported = <<>>
            BY <1>2, <5>1 DEF n
          <6>2. cursor = 0
            BY <1>2, <6>1 DEF PollInv, Rising
          <6> QED BY <3>3, <5>1, <6>2 DEF Previous
        <5>2. CASE n # 0
          <6>1. n \in 1 .. n /\ i # 1 /\ i - 1 = n
            BY <2>1, <3>3, <5>2
          <6>2. cursor > 0
            BY <1>2, <2>1, <5>2 DEF n
          <6>3. reported'[n] = cursor
            BY <2>4, <6>1, <6>2 DEF PollInv, Rising, n
          <6> QED BY <6>1, <6>3 DEF Previous
        <5> QED BY <5>1, <5>2
      <4> QED BY <4>1, <4>2
    <3>4. CASE i = n + 1 /\ known - low = PageLimit
      <4>1. reported'[i] = low + 1
        BY <2>1, <2>5, <2>6, <3>4
      <4>2. \A k \in 0 .. PageLimit - 1 : i + k \in n + 1 .. Len(reported')
        BY <1>2, <2>1, <2>5, <3>4
      <4>3. \A k \in 0 .. PageLimit - 1 : reported'[i + k] = low + (i + k) - n
        BY <2>6, <4>2
      <4>4. \A k \in 0 .. PageLimit - 1 : reported'[i + k] = reported'[i] + k
        BY <2>1, <3>4, <4>1, <4>3
      <4>5. i + PageLimit - 1 <= Len(reported')
        BY <1>2, <2>1, <2>5, <3>4
      <4> QED BY <4>4, <4>5 DEF FullPageAt
    <3>5. i <= n \/ i > n + 1 \/ i = n + 1
      BY <2>1, <2>5
    <3>6. low = cursor \/ known - low = PageLimit
      BY <1>5 DEF PageBegins
    <3> QED BY <3>1, <3>2, <3>3, <3>4, <3>5, <3>6
  <2>11. PollShape'
    BY <1>1, <1>2, <1>5 DEF PollInv, PollShape
  <2> QED BY <1>3, <2>9, <2>10, <2>11 DEF PollInv
<1> QED BY <1>4, <1>5, ReceiveReports

(* The invariant holds initially.                                          *)
LEMMA PollInitInv == PollInit => PollInv
<1> SUFFICES ASSUME PollInit PROVE PollInv
  OBVIOUS
<1>1. Burst \in Nat /\ MaxSignatures \in Nat
  BY PollAssumption
<1>2. PollShape /\ OnItsWay
  BY <1>1 DEF PollInit, PollShape, OnItsWay
<1>3. Rising /\ GapsAreBursts
  BY DEF PollInit, Rising, GapsAreBursts
<1> QED BY <1>2, <1>3 DEF PollInv

(* Every step keeps the invariant.                                         *)
LEMMA PollNextInv ==
    ASSUME PollInv, [PollNext]_pollVars
    PROVE  PollInv'
<1>1. Burst \in Nat /\ MaxSignatures \in Nat /\ history \in Nat /\ cursor \in 0 .. history
  BY PollAssumption DEF PollInv, PollShape
<1>2. UNCHANGED <<reported, cursor>> => (Rising /\ GapsAreBursts)'
  BY DEF PollInv, Rising, GapsAreBursts, Previous, FullPageAt
<1>3. CASE Ask
  BY <1>2, <1>3 DEF Ask, PollInv, PollShape, OnItsWay, PageBegins
<1>4. CASE ServePage
  <2>1. /\ asked # Nothing /\ asked = Options(cursor) /\ page' = Answer(asked) /\ known' = history
        /\ UNCHANGED <<history, unreadable, cursor, reported, asked>>
    BY <1>4 DEF ServePage, PollInv, OnItsWay
  <2>2. \E low \in cursor .. history :
           /\ history - low <= PageLimit /\ (low = cursor \/ history - low = PageLimit)
           /\ page' = Stretch(low, history)
    BY <1>1, <2>1, AnswerIsStretch
  <2>3. OnItsWay'
    BY <1>1, <2>1, <2>2 DEF OnItsWay, PageBegins
  <2> QED BY <1>2, <2>1, <2>3 DEF PollInv, PollShape
<1>5. CASE Lose
  BY <1>2, <1>5 DEF Lose, PollInv, PollShape, OnItsWay
<1>6. CASE Receive
  BY <1>6, ReceiveStep
<1>7. CASE Touch
  <2>1. OnItsWay'
    BY <1>1, <1>7 DEF Touch, PollInv, OnItsWay, PageBegins
  <2> QED BY <1>1, <1>2, <1>7, <2>1 DEF Touch, PollInv, PollShape
<1>8. ASSUME NEW s \in cursor + 1 .. history, Spoil(s)
      PROVE  PollInv'
  BY <1>1, <1>2, <1>8 DEF Spoil, PollInv, PollShape, OnItsWay, PageBegins
<1>9. CASE UNCHANGED pollVars
  BY <1>2, <1>9 DEF pollVars, PollInv, PollShape, OnItsWay, PageBegins
<1> QED BY <1>3, <1>4, <1>5, <1>6, <1>7, <1>8, <1>9 DEF PollNext

(* Every state satisfies the invariant (get_signatures_for_address, polled *)
(* with `until`).                                                          *)
THEOREM PollInvariant == PollSpec => []PollInv
<1>1. PollInv /\ [PollNext]_pollVars => PollInv'
  BY PollNextInv
<1> QED BY PollInitInv, <1>1, PTL DEF PollSpec

(* Variables keep their shape, no page exceeds its limit, no more is       *)
(* reported than there is.                                                 *)
THEOREM PollTypeCorrect == PollSpec => []PollTypeOK
<1>1. PollInv => PollTypeOK
  <2> SUFFICES ASSUME PollInv PROVE PollTypeOK
    OBVIOUS
  <2>1. PageLimit \in Nat \ {0} /\ Burst \in Nat /\ MaxSignatures \in Nat
        /\ history \in Nat /\ cursor \in 0 .. history /\ history <= MaxSignatures
    BY PollAssumption DEF PollInv, PollShape
  <2>2. reported \in Seq(1 .. MaxSignatures) /\ Len(reported) <= history
    BY <2>1 DEF PollInv, Rising
  <2>3. Len(page) <= PageLimit
    <3>1. CASE page = Nothing
      BY <2>1, <3>1 DEF Nothing
    <3>2. CASE page # Nothing
      <4>1. PICK low \in cursor .. known : PageBegins(low) /\ page = Stretch(low, known)
        BY <3>2 DEF PollInv, OnItsWay
      <4>2. low \in Nat /\ known \in Nat /\ low <= known /\ known - low <= PageLimit
        BY <2>1, <3>2, <4>1 DEF PollInv, OnItsWay, PageBegins
      <4> QED BY <4>1, <4>2, StretchRises
    <3> QED BY <3>1, <3>2
  <2> QED BY <2>1, <2>2, <2>3 DEF PollTypeOK, PollInv, PollShape, OnItsWay
<1> QED BY <1>1, PollInvariant, PTL

(* However polls fail and however many arrive between two of them, reports *)
(* only go up, skip only what a page cannot hold, and the page that is due *)
(* lacks nothing it could hold (get_signatures_for_address).               *)
THEOREM GapsOnlyInBursts == PollSpec => []NoGapNoRepeat
<1>1. PollInv => NoGapNoRepeat
  <2> SUFFICES ASSUME PollInv PROVE NoGapNoRepeat
    OBVIOUS
  <2>1. /\ PageLimit \in Nat /\ cursor \in Nat /\ reported \in Seq(1 .. cursor) /\ Len(reported) \in Nat
    BY PollAssumption DEF PollInv, PollShape, Rising
  <2>2. ASSUME NEW i \in 1 .. Len(reported) PROVE reported[i] > Previous(i)
    <3>1. CASE i = 1
      BY <2>1, <2>2, <3>1 DEF Previous
    <3>2. CASE i # 1
      <4>1. i - 1 \in 1 .. Len(reported) /\ i - 1 < i
        BY <2>1, <2>2, <3>2
      <4>2. reported[i - 1] < reported[i] /\ Previous(i) = reported[i - 1]
        BY <2>2, <3>2, <4>1 DEF PollInv, Rising, Previous
      <4>3. reported[i - 1] \in 1 .. cursor /\ reported[i] \in 1 .. cursor
        BY <2>1, <2>2, <4>1
      <4> QED BY <2>1, <4>2, <4>3
    <3> QED BY <3>1, <3>2
  <2>3. cursor = Previous(Len(reported) + 1)
    <3>1. CASE reported = <<>>
      BY <2>1, <3>1 DEF PollInv, Rising, Previous
    <3>2. CASE reported # <<>>
      <4>1. Len(reported) # 0 /\ Len(reported) + 1 # 1 /\ (Len(reported) + 1) - 1 = Len(reported)
        BY <2>1, <3>2
      <4>2. cursor > 0
        BY <2>1, <4>1
      <4> QED BY <4>1, <4>2 DEF PollInv, Rising, Previous
    <3> QED BY <3>1, <3>2
  <2>4. PageIsComplete
    <3> SUFFICES ASSUME page # Nothing, known - cursor <= PageLimit, NEW s \in cursor + 1 .. known
                 PROVE  \E i \in 1 .. Len(page) : page[i] = s
      BY DEF PageIsComplete
    <3>1. PICK low \in cursor .. known : PageBegins(low) /\ page = Stretch(low, known)
      BY DEF PollInv, OnItsWay
    <3>2. cursor \in Nat /\ known \in Nat /\ cursor <= known
      BY DEF PollInv, PollShape, OnItsWay
    <3>3. low = cursor
      BY <2>1, <3>1, <3>2 DEF PageBegins
    <3>4. Len(page) = known - cursor
      BY <3>1, <3>2, <3>3 DEF Stretch
    <3>5. known - s + 1 \in 1 .. known - cursor
      BY <3>2
    <3>6. page[known - s + 1] = s
      BY <3>1, <3>2, <3>3, <3>5 DEF Stretch
    <3> QED BY <3>4, <3>5, <3>6
  <2> QED BY <2>2, <2>3, <2>4 DEF PollInv, GapsAreBursts, NoGapNoRepeat
<1> QED BY <1>1, PollInvariant, PTL

(* The poller implements SignatureFeed: only an answer that decodes        *)
(* delivers, and it delivers what follows, or a full page of it            *)
(* (get_signatures_for_address with `until`).                              *)
THEOREM PollRefinement == PollSpec => ImplementsFeed
<1>1. PollInit => Feed!Init
  BY DEF PollInit, Feed!Init
<1>2. PollInv /\ [PollNext]_pollVars => [Feed!Touch \/ Feed!Deliver]_<<history, reported>>
  <2> SUFFICES ASSUME PollInv, [PollNext]_pollVars
               PROVE  [Feed!Touch \/ Feed!Deliver]_<<history, reported>>
    OBVIOUS
  <2>1. CASE Receive
    <3>1. /\ cursor \in Nat /\ known \in Nat /\ history \in Nat /\ cursor <= known /\ known <= history
          /\ history' = history
      BY <2>1 DEF Receive, PollInv, PollShape, OnItsWay
    <3>2. CASE reported' = reported
      BY <3>1, <3>2
    <3>3. ASSUME NEW low \in cursor .. known, low < known, PageBegins(low),
                 reported' = reported \o [i \in 1 .. known - low |-> low + i]
          PROVE  Feed!Deliver
      <4>1. Feed!Newest = cursor
        <5>1. CASE reported = <<>>
          BY <3>1, <5>1 DEF PollInv, Rising, Feed!Newest
        <5>2. CASE reported # <<>>
          <6>1. Len(reported) # 0 /\ reported \in Seq(1 .. cursor) /\ Len(reported) <= cursor
            BY <5>2 DEF PollInv, Rising
          <6>2. cursor > 0
            BY <3>1, <6>1
          <6> QED BY <5>2, <6>2 DEF PollInv, Rising, Feed!Newest
        <5> QED BY <5>1, <5>2
      <4>2. low \in Feed!Newest .. history /\ known \in Feed!Newest .. history
        BY <3>1, <3>3, <4>1
      <4>3. low # Feed!Newest => known - low = PageLimit
        BY <3>3, <4>1 DEF PageBegins
      <4> QED BY <3>1, <3>3, <4>2, <4>3 DEF Feed!Deliver
    <3> QED BY <2>1, <3>2, <3>3, ReceiveReports
  <2>2. CASE Touch
    BY <2>2 DEF Touch, Feed!Touch
  <2>3. CASE Ask \/ ServePage \/ Lose \/ \E s \in cursor + 1 .. history : Spoil(s)
    BY <2>3 DEF Ask, ServePage, Lose, Spoil
  <2>4. CASE UNCHANGED pollVars
    BY <2>4 DEF pollVars
  <2> QED BY <2>1, <2>2, <2>3, <2>4 DEF PollNext
<1> QED BY <1>1, <1>2, PollInvariant, PTL DEF PollSpec, ImplementsFeed, Feed!Spec

(* While a page holds what arrives between two good polls, nothing at all  *)
(* is left out: every signature up to the cursor is reported, in order.    *)
InOrder == reported = [i \in 1 .. cursor |-> i]

(* Reports lose nothing without a burst (get_signatures_for_address).      *)
THEOREM ReportsWithoutGap == Burst <= PageLimit => (PollSpec => []InOrder)
<1> SUFFICES ASSUME Burst <= PageLimit PROVE PollSpec => []InOrder
  OBVIOUS
<1>1. PollInit => InOrder
  BY DEF PollInit, InOrder
<1>2. ASSUME PollInv, InOrder, [PollNext]_pollVars
      PROVE  InOrder'
  <2>1. CASE Receive
    <3>1. CASE reported' = reported /\ cursor' = cursor
      BY <1>2, <3>1 DEF InOrder
    <3>2. ASSUME NEW low \in cursor .. known, low < known, PageBegins(low),
                 reported' = reported \o [i \in 1 .. known - low |-> low + i], cursor' = known
          PROVE  InOrder'
      <4>1. /\ cursor \in Nat /\ known \in Nat /\ history \in Nat /\ cursor <= known /\ known <= history
            /\ history - cursor <= Burst /\ Burst \in Nat /\ PageLimit \in Nat
        BY <1>2, <2>1, PollAssumption DEF Receive, PollInv, PollShape, OnItsWay
      <4>2. low = cursor
        BY <3>2, <4>1 DEF PageBegins
      <4> DEFINE more == [i \in 1 .. known - cursor |-> cursor + i]
      <4>3. /\ reported \in Seq(Int) /\ Len(reported) = cursor
            /\ \A i \in 1 .. cursor : reported[i] = i
        BY <1>2, <4>1 DEF InOrder
      <4>4. /\ more \in Seq(Int) /\ Len(more) = known - cursor
            /\ \A i \in 1 .. known - cursor : more[i] = cursor + i
        BY <4>1
      <4>5. reported' = reported \o more
        BY <3>2, <4>2
      <4> HIDE DEF more
      <4>6. reported' \in Seq(Int) /\ Len(reported') = known
        BY <4>1, <4>3, <4>4, <4>5
      <4>7. \A i \in 1 .. known : reported'[i] = i
        BY <4>1, <4>3, <4>4, <4>5
      <4>8. reported' = [i \in 1 .. known |-> i]
        BY <4>1, <4>6, <4>7
      <4> QED BY <3>2, <4>8 DEF InOrder
    <3> QED BY <1>2, <2>1, <3>1, <3>2, ReceiveReports
  <2>2. CASE Ask \/ ServePage \/ Lose \/ Touch \/ \E s \in cursor + 1 .. history : Spoil(s)
    BY <1>2, <2>2 DEF Ask, ServePage, Lose, Touch, Spoil, InOrder
  <2>3. CASE UNCHANGED pollVars
    BY <1>2, <2>3 DEF pollVars, InOrder
  <2> QED BY <1>2, <2>1, <2>2, <2>3 DEF PollNext
<1> QED BY <1>1, <1>2, PollInvariant, PTL DEF PollSpec

-----------------------------------------------------------------------------
(* The loop of ShapeBudget.                                                *)

(* Every preset below the level did not fit, and the last of them is what  *)
(* there is to fall back on.                                               *)
FitInv ==
    /\ level \in 1 .. Len(AggressivenessLevels) + 1
    /\ \A k \in 1 .. level - 1 : ~Fits(ShapedAt(value, k), budget_tokens)
    /\ level > 1 => most_aggressive = ShapedAt(value, level - 1)
    /\ GentlestThatFits

LEMMA FiveLevels == Len(AggressivenessLevels) = 5
BY DEF AggressivenessLevels

(* A turn of the loop: the preset fits, or it joins those that do not.     *)
LEMMA TryLevelStep == ASSUME FitInv, TryLevel PROVE FitInv'
<1> DEFINE shaped == ShapedAt(value, level)
<1>1. /\ level \in 1 .. 5 /\ result = NoValue
      /\ UNCHANGED <<value, budget_tokens>>
      /\ \A k \in 1 .. level - 1 : ~Fits(ShapedAt(value, k), budget_tokens)
  BY FiveLevels DEF TryLevel, FitInv
<1>2. CASE Fits(shaped, budget_tokens)
  <2>1. result' = shaped /\ UNCHANGED <<level, most_aggressive>>
    BY <1>2 DEF TryLevel
  <2>2. ShapedAt(value, level)' = ShapedAt(value, level)
    BY <1>1, <2>1 DEF ShapedAt
  <2>3. \A k \in 1 .. level' - 1 : ~Fits(ShapedAt(value', k), budget_tokens')
    BY <1>1, <2>1
  <2>4. GentlestThatFits'
    <3>1. /\ level \in 1 .. Len(AggressivenessLevels)
          /\ result' = ShapedAt(value', level)
          /\ \A k \in 1 .. level - 1 : ~Fits(ShapedAt(value', k), budget_tokens')
          /\ Fits(result', budget_tokens')
      BY <1>1, <1>2, <2>1, FiveLevels
    <3> QED BY <3>1 DEF GentlestThatFits
  <2> QED BY <1>1, <2>1, <2>3, <2>4 DEF FitInv
<1>3. CASE ~Fits(shaped, budget_tokens)
  <2>1. most_aggressive' = shaped /\ level' = level + 1 /\ UNCHANGED result
    BY <1>3 DEF TryLevel
  <2>2. GentlestThatFits'
    BY <1>1, <2>1 DEF GentlestThatFits
  <2>3. level' \in 1 .. Len(AggressivenessLevels) + 1 /\ level' - 1 = level
    BY <1>1, <2>1, FiveLevels
  <2>4. \A k \in 1 .. level' - 1 : ~Fits(ShapedAt(value', k), budget_tokens')
    <3> SUFFICES ASSUME NEW k \in 1 .. level' - 1
                 PROVE  ~Fits(ShapedAt(value', k), budget_tokens')
      OBVIOUS
    <3>1. k \in 1 .. level
      BY <2>3
    <3>2. level \in 1 .. 5
      BY <1>1
    <3>3. k \in 1 .. level - 1 \/ k = level
      BY <3>1, <3>2
    <3> QED BY <1>1, <1>3, <3>3
  <2>5. most_aggressive' = ShapedAt(value', level' - 1)
    BY <1>1, <2>1, <2>3
  <2> QED BY <2>2, <2>3, <2>4, <2>5 DEF FitInv
<1> QED BY <1>2, <1>3

(* The end of the loop returns its last attempt, never the value unshaped. *)
LEMMA FallBackStep == ASSUME FitInv, FallBack PROVE FitInv'
<1>1. /\ result = NoValue /\ level = 6 /\ result' = most_aggressive
      /\ UNCHANGED <<value, budget_tokens, level, most_aggressive>>
      /\ most_aggressive = ShapedAt(value, 5)
      /\ \A k \in 1 .. 5 : ~Fits(ShapedAt(value, k), budget_tokens)
  BY FiveLevels DEF FallBack, FitInv
<1>2. /\ result' = ShapedAt(value', 5)
      /\ \A k \in 1 .. 5 - 1 : ~Fits(ShapedAt(value', k), budget_tokens')
  BY <1>1
<1>3. GentlestThatFits'
  BY <1>2, FiveLevels DEF GentlestThatFits
<1> QED BY <1>1, <1>3 DEF FitInv

THEOREM FitInvariant == FitSpec => []FitInv
<1>1. FitInit => FitInv
  BY FiveLevels DEF FitInit, FitInv, GentlestThatFits
<1>2. FitInv /\ [FitNext]_fitVars => FitInv'
  <2> SUFFICES ASSUME FitInv, [FitNext]_fitVars PROVE FitInv'
    OBVIOUS
  <2>1. CASE UNCHANGED fitVars
    BY <2>1 DEF fitVars, FitInv, GentlestThatFits
  <2> QED BY <2>1, TryLevelStep, FallBackStep DEF FitNext
<1> QED BY <1>1, <1>2, PTL DEF FitSpec

(* The gentlest preset that keeps the budget is taken, and the harshest if *)
(* none does (shape_for_budget), whatever values are and however they are  *)
(* cut and measured.                                                       *)
THEOREM GentlestIsTaken == FitSpec => []GentlestThatFits
<1>1. FitInv => GentlestThatFits
  BY DEF FitInv
<1> QED BY <1>1, FitInvariant, PTL

(* Turns the loop still has ahead of it at most, its return included.      *)
TurnsLeft == 6 - level + IF result = NoValue THEN 1 ELSE 0

CountsDown == TurnsLeft \in Nat /\ TurnsLeft' = TurnsLeft - 1

(* The loop ends: each turn uses up one of at most six, and none is left   *)
(* once there is a result (shape_for_budget).                              *)
THEOREM LoopCountsDown ==
    ASSUME \A v \in Values : \A l \in 1 .. 5 : ShapedAt(v, l) # NoValue
    PROVE  FitSpec => TurnsLeft = 6 /\ [][CountsDown]_fitVars
<1>1. FitInit => TurnsLeft = 6
  BY DEF FitInit, TurnsLeft
<1>2. FitInv /\ value \in Values /\ [FitNext]_fitVars
          => [CountsDown]_fitVars
  <2> SUFFICES ASSUME FitInv, value \in Values, FitNext
               PROVE  TurnsLeft \in Nat /\ TurnsLeft' = TurnsLeft - 1
    BY DEF CountsDown
  <2>1. /\ level \in 1 .. 6 /\ result = NoValue
        /\ level > 1 => most_aggressive = ShapedAt(value, level - 1)
    BY FiveLevels DEF FitInv, FitNext, TryLevel, FallBack
  <2>2. TurnsLeft = 7 - level
    BY <2>1 DEF TurnsLeft
  <2>3. CASE TryLevel
    <3>1. /\ level \in 1 .. 5
          /\ \/ result' = ShapedAt(value, level) /\ level' = level
             \/ result' = result /\ level' = level + 1
      BY <2>1, <2>3, FiveLevels DEF TryLevel
    <3>2. ShapedAt(value, level) # NoValue
      BY <3>1
    <3> QED BY <2>1, <2>2, <3>1, <3>2 DEF TurnsLeft
  <2>4. CASE FallBack
    <3>1. level = 6 /\ level' = level /\ result' = ShapedAt(value, 5)
      BY <2>1, <2>4, FiveLevels DEF FallBack
    <3>2. ShapedAt(value, 5) # NoValue
      OBVIOUS
    <3> QED BY <2>1, <2>2, <3>1, <3>2 DEF TurnsLeft
  <2> QED BY <2>3, <2>4 DEF FitNext
<1>3. FitInit => value \in Values
  BY DEF FitInit
<1>4. value \in Values /\ [FitNext]_fitVars => (value \in Values)'
  BY DEF FitNext, TryLevel, FallBack, fitVars
<1>5. FitSpec => []FitInv
  BY FitInvariant
<1> QED BY <1>1, <1>2, <1>3, <1>4, <1>5, PTL DEF FitSpec

(* estimate_tokens in bytes: a budget of b tokens is kept by texts of up   *)
(* to 4 * b bytes, and a budget of none by no text, not even an empty one. *)
LEMMA FitsInBytes ==
    ASSUME NEW v, TextBytes(v) \in Nat, NEW b \in Nat
    PROVE  Fits(v, b) <=> b > 0 /\ TextBytes(v) <= 4 * b
<1> DEFINE n == TextBytes(v)
<1>1. CASE n = 0
  BY <1>1 DEF Fits, EstimateTokens
<1>2. CASE n > 0
  <2>1. Fits(v, b) <=> (n + 3) \div 4 <= b
    BY <1>2 DEF Fits, EstimateTokens
  <2> HIDE DEF n
  <2>2. n \in Nat
    BY DEF n
  <2>3. (n + 3) \div 4 <= b <=> n <= 4 * b
    BY <2>2
  <2> QED BY <1>2, <2>1, <2>3 DEF n
<1> QED BY <1>1, <1>2

(* What shape_for_budget promises in bytes: a result longer than four for  *)
(* every token of the budget has been cut as hard as the presets allow,    *)
(* and so has every result for a budget of no tokens.                      *)
THEOREM BudgetKeptOrHarshest ==
    ASSUME Budgets \subseteq Nat,
           \A v \in Values : \A l \in 1 .. 5 : TextBytes(ShapedAt(v, l)) \in Nat
    PROVE  FitSpec => [](result # NoValue =>
               \/ budget_tokens > 0 /\ TextBytes(result) <= 4 * budget_tokens
               \/ result = ShapedAt(value, 5))
<1> DEFINE Given == value \in Values /\ budget_tokens \in Budgets
           Kept4 == result # NoValue =>
                        \/ budget_tokens > 0 /\ TextBytes(result) <= 4 * budget_tokens
                        \/ result = ShapedAt(value, 5)
<1>1. FitSpec => []Given
  <2>1. FitInit => Given
    BY DEF FitInit
  <2>2. Given /\ [FitNext]_fitVars => Given'
    BY DEF FitNext, TryLevel, FallBack, fitVars
  <2> QED BY <2>1, <2>2, PTL DEF FitSpec
<1>2. Given /\ GentlestThatFits => Kept4
  <2> SUFFICES ASSUME Given, GentlestThatFits, result # NoValue, result # ShapedAt(value, 5)
               PROVE  budget_tokens > 0 /\ TextBytes(result) <= 4 * budget_tokens
    OBVIOUS
  <2>1. PICK l \in 1 .. 5 : result = ShapedAt(value, l) /\ (l = 5 \/ Fits(result, budget_tokens))
    BY FiveLevels DEF GentlestThatFits
  <2>2. Fits(result, budget_tokens) /\ TextBytes(result) \in Nat /\ budget_tokens \in Nat
    BY <2>1
  <2> QED BY <2>2, FitsInBytes
<1> QED BY <1>1, <1>2, GentlestIsTaken, PTL

-----------------------------------------------------------------------------
(* The trees of ShapeLevel.                                                *)

(* A nonempty set of natural numbers has a least one.                      *)
LEMMA LeastNatural ==
    ASSUME NEW T \in SUBSET Nat, T # {}
    PROVE  \E x \in T : \A y \in T : x <= y
<1> DEFINE I == {1 .. n : n \in T}
           R == StrictSubsetOrdering(Nat)
           S == FiniteSubsetsOf(Nat)
<1>1. IsWellFoundedOn(R, S)
  BY FS_StrictSubsetOrderingWellFounded
<1>2. I \subseteq S /\ I # {}
  <2>1. \A n \in T : 1 .. n \in SUBSET Nat /\ IsFiniteSet(1 .. n)
    BY FS_Interval
  <2> QED BY <2>1 DEF FiniteSubsetsOf
<1> HIDE DEF R, S
<1>3. \E X \in I : \A Y \in I : ~ (<<Y, X>> \in R)
  BY <1>1, <1>2, WFMin
<1>4. PICK x \in T : \A y \in T : ~ (<<1 .. y, 1 .. x>> \in R)
  BY <1>3
<1>5. ASSUME NEW y \in T, y < x PROVE FALSE
  <2>1. 1 .. y \in SUBSET Nat /\ 1 .. x \in SUBSET Nat
    OBVIOUS
  <2>2. 1 .. y \subseteq 1 .. x /\ x \in 1 .. x /\ x \notin 1 .. y
    BY <1>5
  <2>3. <<1 .. y, 1 .. x>> \in R
    BY <2>1, <2>2 DEF R, StrictSubsetOrdering
  <2> QED BY <1>4, <1>5, <2>3
<1> QED BY <1>4, <1>5

(* A JSON value whose parts are in Json.                                   *)
Parts(v) ==
    CASE v.kind = "array"  -> {v.items[i] : i \in 1 .. Len(v.items)}
      [] v.kind = "object" -> {v.map[i].value : i \in 1 .. Len(v.map)}
      [] OTHER -> {}

IsJson(v, Json) ==
    /\ v.kind \in {"other", "string", "array", "object"}
    /\ v.kind = "array" => v.items \in Seq(Json)
    /\ v.kind = "object" => \E Keys : v.map \in Seq([key : Keys, value : Json])

(* The presets are numbers.                                                *)
LEMMA PresetType ==
    ASSUME NEW l \in 1 .. Len(AggressivenessLevels)
    PROVE  AggressivenessLevels[l][1] \in Nat /\ AggressivenessLevels[l][2] \in Nat
<1>1. Len(AggressivenessLevels) = 5
  BY DEF AggressivenessLevels
<1>2. l = 1 \/ l = 2 \/ l = 3 \/ l = 4 \/ l = 5
  BY <1>1
<1> QED BY <1>2 DEF AggressivenessLevels

(* Trees, by whatever height of theirs: the parts of one are lower ones.   *)
AreJson(Json, Height(_)) ==
    \A v \in Json :
        /\ IsJson(v, Json) /\ Height(v) \in Nat
        /\ \A part \in Parts(v) : Height(part) < Height(v)

(* Shape is the recursion over ShapeOnce.                                  *)
ShapesJson(Json) ==
    \A v \in Json : \A maxItems, maxChars \in Nat :
        Shape(v, maxItems, maxChars) =
            ShapeOnce(LAMBDA part : Shape(part, maxItems, maxChars), v, maxItems, maxChars)

(* StandsFor is the recursion over StandsOnce.                             *)
StandsForJson(Json) ==
    \A v \in Json : \A shaped : StandsFor(shaped, v) <=> StandsOnce(StandsFor, shaped, v)

(* Whatever preset it ends with and whatever the value, the result is an   *)
(* honest abridgement at every depth (shape_json).  By induction over the  *)
(* height of the tree: a tree whose parts stand for theirs does itself.    *)
THEOREM ResultIsAbridged ==
    ASSUME NEW CONSTANT Json, NEW CONSTANT Height(_),
           AreJson(Json, Height), ShapesJson(Json), StandsForJson(Json),
           Values \subseteq Json
    PROVE  FitSpec => []Abridged
<1>1. ASSUME NEW l \in 1 .. Len(AggressivenessLevels)
      PROVE  \A v \in Json : StandsFor(ShapedAt(v, l), v)
  <2> USE DEF AreJson, ShapesJson, StandsForJson
  <2> DEFINE maxItems == AggressivenessLevels[l][1]
             maxChars == AggressivenessLevels[l][2]
             Sub(part) == Shape(part, maxItems, maxChars)
             Bad == {v \in Json : ~StandsFor(Sub(v), v)}
  <2>1. maxItems \in Nat /\ maxChars \in Nat
    BY PresetType
  <2>2. \A v \in Json : Sub(v) = ShapeOnce(Sub, v, maxItems, maxChars)
    BY <2>1
  <2> HIDE DEF maxItems, maxChars
  <2>3. ASSUME NEW v \in Json, \A part \in Parts(v) : part \in Json => StandsFor(Sub(part), part)
        PROVE  StandsFor(Sub(v), v)
    <3>1. CASE v.kind = "other"
      <4>1. Sub(v) = v
        BY <2>2, <3>1 DEF ShapeOnce
      <4> QED BY <3>1, <4>1 DEF StandsOnce
    <3>2. CASE v.kind = "string"
      <4>1. Sub(v) = TruncateString(v, maxChars)
        BY <2>2, <3>2 DEF ShapeOnce
      <4> QED BY <3>2, <4>1 DEF StandsOnce, maxChars
    <3>3. CASE v.kind = "array"
      <4> DEFINE items == v.items
                 kept  == Kept(items, maxItems)
                 front == [i \in 1 .. Len(kept) |-> Sub(kept[i])]
                 back  == MarkerFor(items, maxItems)
      <4>1. /\ items \in Seq(Json) /\ Len(items) \in Nat
            /\ \A i \in 1 .. Len(items) : items[i] \in Json /\ items[i] \in Parts(v)
        BY <3>3 DEF IsJson, Parts
      <4>2. Sub(v) = Array(front \o back)
        BY <2>2, <3>3 DEF ShapeOnce
      <4> HIDE DEF items, Sub
      <4>3. /\ Len(kept) \in 0 .. Len(items)
            /\ \A i \in 1 .. Len(kept) : kept[i] = items[i]
            /\ Len(kept) = Len(items) => back = <<>>
            /\ Len(kept) # Len(items) => back = <<Marker(Len(items) - Len(kept))>>
        <5>1. CASE Len(items) > maxItems
          <6>1. kept = SubSeq(items, 1, maxItems) /\ back = <<Marker(Len(items) - maxItems)>>
            BY <5>1 DEF Kept, MarkerFor
          <6>2. Len(kept) = maxItems /\ \A i \in 1 .. maxItems : kept[i] = items[i]
            BY <2>1, <4>1, <5>1, <6>1
          <6> HIDE DEF kept, back
          <6> QED BY <2>1, <4>1, <5>1, <6>1, <6>2
        <5>2. CASE ~(Len(items) > maxItems)
          <6>1. kept = items /\ back = <<>>
            BY <5>2 DEF Kept, MarkerFor
          <6> QED BY <4>1, <6>1
        <5> QED BY <5>1, <5>2
      <4> HIDE DEF kept, back
      <4> DEFINE whole == front \o back
      <4>4. /\ IF Len(kept) = Len(items) THEN Len(whole) = Len(kept)
               ELSE /\ Len(whole) = Len(kept) + 1
                    /\ whole[Len(kept) + 1] = Marker(Len(items) - Len(kept))
            /\ \A i \in 1 .. Len(kept) : whole[i] = Sub(items[i])
        <5> DEFINE last == Marker(Len(items) - Len(kept))
                   X == {Sub(items[i]) : i \in 1 .. Len(items)} \cup {last}
        <5>1. front \in Seq(X) /\ Len(front) = Len(kept) /\ \A i \in 1 .. Len(kept) : front[i] = Sub(items[i])
          BY <4>1, <4>3
        <5>2. CASE Len(kept) = Len(items)
          <6>1. back = <<>>
            BY <4>3, <5>2
          <6> HIDE DEF front, X
          <6> QED BY <5>1, <5>2, <6>1
        <5>3. CASE Len(kept) # Len(items)
          <6>1. back = <<last>>
            BY <4>3, <5>3
          <6> HIDE DEF front, X, last
          <6>2. last \in X
            BY DEF X
          <6>3. Len(whole) = Len(kept) + 1 /\ whole[Len(kept) + 1] = last
                /\ \A i \in 1 .. Len(kept) : whole[i] = front[i]
            BY <4>3, <5>1, <6>1, <6>2
          <6> QED BY <5>1, <5>3, <6>3 DEF last
        <5> QED BY <5>2, <5>3
      <4>5. \A i \in 1 .. Len(kept) : StandsFor(whole[i], items[i])
        BY <2>3, <4>1, <4>3, <4>4
      <4> HIDE DEF whole
      <4>6. ASSUME NEW shaped, shaped.kind = "array", shaped.items = whole
            PROVE  StandsOnce(StandsFor, shaped, v)
        BY <3>3, <4>3, <4>4, <4>5, <4>6 DEF StandsOnce, items
      <4>7. Sub(v) = Array(whole)
        BY <4>2 DEF whole
      <4>8. StandsOnce(StandsFor, Array(whole), v)
        BY <4>6 DEF Array
      <4>9. StandsOnce(StandsFor, Sub(v), v)
        BY <4>7, <4>8
      <4> QED BY <4>9 DEF Sub
    <3>4. CASE v.kind = "object"
      <4> DEFINE map    == v.map
                 shaped == [i \in 1 .. Len(map) |-> [map[i] EXCEPT !.value = Sub(@)]]
      <4>1. PICK Keys : map \in Seq([key : Keys, value : Json])
        BY <3>4 DEF IsJson
      <4>2. Sub(v) = Object(shaped)
        BY <2>2, <3>4 DEF ShapeOnce
      <4>3. \A i \in 1 .. Len(map) : map[i] \in [key : Keys, value : Json] /\ map[i].value \in Parts(v)
        <5>1. Parts(v) = {map[i].value : i \in 1 .. Len(map)}
          BY <3>4 DEF Parts
        <5>2. \A i \in 1 .. Len(map) : map[i] \in [key : Keys, value : Json]
          <6> DEFINE Pairs == [key : Keys, value : Json]
          <6>1. map \in Seq(Pairs)
            BY <4>1
          <6> HIDE DEF map, Pairs
          <6>2. \A i \in 1 .. Len(map) : map[i] \in Pairs
            BY <6>1
          <6> QED BY <6>2 DEF Pairs
        <5> HIDE DEF map
        <5> QED BY <5>1, <5>2
      <4> HIDE DEF map, Sub
      <4>4. /\ Len(map) \in Nat /\ Len(shaped) = Len(map)
            /\ \A i \in 1 .. Len(map) : shaped[i].key = map[i].key /\ shaped[i].value = Sub(map[i].value)
        BY <4>1, <4>3
      <4>5. \A i \in 1 .. Len(map) : StandsFor(shaped[i].value, map[i].value)
        BY <2>3, <4>3, <4>4
      <4> HIDE DEF shaped
      <4>6. StandsOnce(StandsFor, Sub(v), v)
        BY <3>4, <4>2, <4>4, <4>5 DEF StandsOnce, Object, map
      <4> QED BY <4>6 DEF Sub
    <3> QED BY <3>1, <3>2, <3>3, <3>4 DEF IsJson
  <2>4. Bad = {}
    <3> SUFFICES ASSUME Bad # {} PROVE FALSE
      OBVIOUS
    <3> DEFINE T == {Height(v) : v \in Bad}
    <3>1. T \in SUBSET Nat /\ T # {}
      OBVIOUS
    <3>2. \E x \in T : \A y \in T : x <= y
      BY <3>1, LeastNatural
    <3>3. PICK v \in Bad : \A u \in Bad : Height(v) <= Height(u)
      BY <3>2
    <3>4. \A part \in Parts(v) : part \in Json => StandsFor(Sub(part), part)
      BY <3>3
    <3> QED BY <2>3, <3>3, <3>4
  <2> QED BY <2>4 DEF ShapedAt, maxItems, maxChars
<1>2. FitInv /\ value \in Values => Abridged
  BY <1>1 DEF FitInv, GentlestThatFits, Abridged
<1>3. FitInit => value \in Values
  BY DEF FitInit
<1>4. value \in Values /\ [FitNext]_fitVars => (value \in Values)'
  BY DEF FitNext, TryLevel, FallBack, fitVars
<1>5. FitSpec => []FitInv
  BY FitInvariant
<1> QED BY <1>2, <1>3, <1>4, <1>5, PTL DEF FitSpec

=============================================================================
