--------------------------- MODULE RpcClientProofs --------------------------
(***************************************************************************)
(* Proofs about RpcClient, for any number of threads, any queue of         *)
(* responses and any width of the id counter.                              *)
(***************************************************************************)
EXTENDS RpcClient, TLAPS

(* The ids handed out so far, when no more than IdSpace calls were begun:  *)
(* 1, 2, ... and 0 last of all.                                            *)
Issued(x) ==
    /\ x \in 0 .. IdSpace - 1
    /\ IF x = 0 THEN calls = IdSpace ELSE x <= calls

FreshNext ==
    calls < IdSpace => next_id = IF calls + 1 = IdSpace THEN 0 ELSE calls + 1

IdsIssued ==
    /\ \A i \in 1 .. Len(received) : Issued(received[i])
    /\ \A t \in Thread : pc[t] # "ready" => Issued(id[t])

(* A request whose response is still to come is not an answered one.       *)
AnswersOnce ==
    /\ \A i \in 1 .. Len(answered) : Issued(answered[i].id)
    /\ \A t \in Thread, i \in 1 .. Len(answered) : pc[t] # "ready" => answered[i].id # id[t]

IInv == TypeOK /\ FreshNext /\ IdsIssued /\ IdsUnique /\ AnswersOnce /\ AnswersConserved

(* The counter after one more call (mod.rs, fetch_add).                    *)
LEMMA CounterWraps ==
    ASSUME NEW n \in 0 .. IdSpace - 1
    PROVE  (n + 1) % IdSpace = IF n + 1 = IdSpace THEN 0 ELSE n + 1
<1>1. IdSpace \in Nat /\ IdSpace > 1 /\ n + 1 \in 1 .. IdSpace
  BY IdAssumption
<1> QED BY <1>1

(* The invariant holds initially.                                          *)
LEMMA InitIInv == Init => IInv
<1> SUFFICES ASSUME Init PROVE IInv
  OBVIOUS
<1>1. IdSpace \in Nat /\ IdSpace > 1 /\ MaxCalls \in Nat /\ MaxCalls <= IdSpace /\ Len(Queued) \in Nat
  BY IdAssumption, QueuedAssumption
<1>2. TypeOK
  BY <1>1 DEF Init, TypeOK, Methods, Outcomes
<1>3. FreshNext /\ IdsIssued
  BY <1>1 DEF Init, FreshNext, IdsIssued
<1>4. IdsUnique
  BY DEF Init, IdsUnique
<1>5. AnswersOnce /\ AnswersConserved
  BY DEF Init, AnswersOnce, AnswersConserved
<1> QED BY <1>2, <1>3, <1>4, <1>5 DEF IInv

(* A call takes a fresh id (RpcClient::call, fetch_add).                   *)
LEMMA BeginStep ==
    ASSUME IInv, NEW t \in Thread, NEW m \in Methods, Begin(t, m)
    PROVE  IInv'
<1>1. IdSpace \in Nat /\ IdSpace > 1 /\ MaxCalls \in Nat /\ MaxCalls <= IdSpace
      /\ calls \in Nat /\ calls < IdSpace
  BY IdAssumption DEF IInv, TypeOK, Begin
<1>2. /\ calls' = calls + 1 /\ id' = [id EXCEPT ![t] = next_id]
      /\ pc' = [pc EXCEPT ![t] = "record"] /\ method' = [method EXCEPT ![t] = m]
      /\ next_id' = (next_id + 1) % IdSpace
      /\ UNCHANGED <<received, responses, outcome, answered>>
  BY DEF Begin
<1>3. next_id \in 0 .. IdSpace - 1 /\ next_id = IF calls + 1 = IdSpace THEN 0 ELSE calls + 1
  BY <1>1 DEF IInv, TypeOK, FreshNext
<1>4. next_id' = IF next_id + 1 = IdSpace THEN 0 ELSE next_id + 1
  BY <1>2, <1>3, CounterWraps
<1>5. \A x : Issued(x) => x # next_id /\ Issued(x)'
  BY <1>1, <1>2, <1>3 DEF Issued
<1>6. \A x : x = next_id => Issued(x)'
  BY <1>1, <1>2, <1>3 DEF Issued
<1>7. TypeOK'
  BY <1>1, <1>2, <1>3, <1>4 DEF IInv, TypeOK, Begin
<1>8. FreshNext'
  BY <1>1, <1>2, <1>3, <1>4 DEF FreshNext
<1>9. \A u \in Thread : \/ u = t /\ id'[u] = next_id
                        \/ u # t /\ id'[u] = id[u] /\ pc'[u] = pc[u]
  BY <1>2 DEF IInv, TypeOK
<1>10. IdsIssued'
  <2>1. \A i \in 1 .. Len(received) : Issued(received[i])'
    <3> SUFFICES ASSUME NEW i \in 1 .. Len(received) PROVE Issued(received[i])'
      OBVIOUS
    <3>1. Issued(received[i])
      BY DEF IInv, IdsIssued
    <3> QED BY <1>2, <1>5, <3>1
  <2>2. \A u \in Thread : pc'[u] # "ready" => Issued(id[u])'
    <3> SUFFICES ASSUME NEW u \in Thread, pc'[u] # "ready" PROVE Issued(id[u])'
      OBVIOUS
    <3>1. CASE u # t
      <4>1. Issued(id[u]) /\ id'[u] = id[u]
        BY <1>9, <3>1 DEF IInv, IdsIssued
      <4> QED BY <1>5, <4>1
    <3>2. CASE u = t
      BY <1>6, <1>9, <3>2
    <3> QED BY <3>1, <3>2
  <2> QED BY <1>2, <2>1, <2>2 DEF IdsIssued
<1>11. IdsUnique'
  <2>1. \A i \in 1 .. Len(received) : received[i] # next_id
    BY <1>5 DEF IInv, IdsIssued
  <2>2. \A u \in Thread : u # t /\ pc[u] # "ready" => id[u] # next_id
    BY <1>5 DEF IInv, IdsIssued
  <2>3. \A u, v \in Thread : u # v /\ pc'[u] # "ready" /\ pc'[v] # "ready" => id'[u] # id'[v]
    BY <1>9, <2>2 DEF IInv, IdsUnique
  <2>4. \A u \in Thread, i \in 1 .. Len(received) : pc'[u] = "record" => received[i] # id'[u]
    BY <1>9, <2>1 DEF IInv, IdsUnique
  <2>5. \A i, j \in 1 .. Len(received) : i # j => received[i] # received[j]
    BY DEF IInv, IdsUnique
  <2> QED BY <1>2, <2>3, <2>4, <2>5 DEF IdsUnique
<1>12. AnswersOnce' /\ AnswersConserved'
  <2>1. AnswersConserved'
    BY <1>2 DEF IInv, AnswersConserved
  <2>2. \A i \in 1 .. Len(answered) : answered[i].id # next_id
    BY <1>5 DEF IInv, AnswersOnce
  <2>3. \A i \in 1 .. Len(answered) : Issued(answered[i].id)'
    <3> SUFFICES ASSUME NEW i \in 1 .. Len(answered) PROVE Issued(answered[i].id)'
      OBVIOUS
    <3>1. Issued(answered[i].id)
      BY DEF IInv, AnswersOnce
    <3> QED BY <1>2, <1>5, <3>1
  <2>4. \A u \in Thread, i \in 1 .. Len(answered) : pc'[u] # "ready" => answered[i].id # id'[u]
    BY <1>9, <2>2 DEF IInv, AnswersOnce
  <2> QED BY <1>2, <2>1, <2>3, <2>4 DEF AnswersOnce
<1> QED BY <1>7, <1>8, <1>10, <1>11, <1>12 DEF IInv

(* The transport logs the request (mock.rs, first critical section).       *)
LEMMA RecordStep ==
    ASSUME IInv, NEW t \in Thread, Record(t)
    PROVE  IInv'
<1>1. /\ received' = Append(received, id[t]) /\ pc' = [pc EXCEPT ![t] = "take"]
      /\ UNCHANGED <<next_id, responses, id, method, outcome, answered, calls>>
      /\ pc[t] = "record"
  BY DEF Record
<1>2. /\ received \in Seq(0 .. IdSpace - 1) /\ id[t] \in 0 .. IdSpace - 1
  BY DEF IInv, TypeOK
<1>3. /\ Len(received') = Len(received) + 1
      /\ \A i \in 1 .. Len(received) : received'[i] = received[i]
      /\ received'[Len(received) + 1] = id[t]
  BY <1>1, <1>2
<1>4. TypeOK'
  BY <1>1, <1>2 DEF IInv, TypeOK
<1>5. \A x : Issued(x)' = Issued(x)
  BY <1>1 DEF Issued
<1>6. FreshNext' /\ IdsIssued'
  <2>1. FreshNext'
    BY <1>1 DEF IInv, FreshNext
  <2>2. Issued(id[t])
    BY <1>1 DEF IInv, IdsIssued
  <2>3. \A i \in 1 .. Len(received') : Issued(received'[i])
    BY <1>2, <1>3, <2>2 DEF IInv, IdsIssued
  <2>4. \A u \in Thread : pc'[u] # "ready" => pc[u] # "ready"
    BY <1>1 DEF IInv, TypeOK
  <2>5. \A u \in Thread : pc'[u] # "ready" => Issued(id'[u])
    BY <1>1, <2>4 DEF IInv, IdsIssued
  <2> QED BY <1>5, <2>1, <2>3, <2>5 DEF IdsIssued
<1>7. IdsUnique'
  <2>1. \A i, j \in 1 .. Len(received') : i # j => received'[i] # received'[j]
    BY <1>1, <1>2, <1>3 DEF IInv, IdsUnique
  <2>2. \A u, v \in Thread : u # v /\ pc'[u] # "ready" /\ pc'[v] # "ready" => id'[u] # id'[v]
    BY <1>1 DEF IInv, IdsUnique, TypeOK
  <2>3. \A u \in Thread : pc'[u] = "record" => u # t /\ pc[u] = "record"
    BY <1>1 DEF IInv, TypeOK
  <2>4. \A u \in Thread, i \in 1 .. Len(received') : pc'[u] = "record" => received'[i] # id'[u]
    BY <1>1, <1>2, <1>3, <2>3 DEF IInv, IdsUnique
  <2> QED BY <2>1, <2>2, <2>4 DEF IdsUnique
<1>8. AnswersOnce' /\ AnswersConserved'
  BY <1>1, <1>5 DEF IInv, AnswersOnce, AnswersConserved, TypeOK
<1> QED BY <1>4, <1>6, <1>7, <1>8 DEF IInv

(* The transport hands out a response, or reports that there is none       *)
(* (mock.rs, second critical section).                                     *)
LEMMA TakeStep ==
    ASSUME IInv, NEW t \in Thread, Take(t)
    PROVE  IInv'
<1>1. /\ pc' = [pc EXCEPT ![t] = "ready"] /\ pc[t] = "take"
      /\ UNCHANGED <<next_id, received, id, method, calls>>
  BY DEF Take, Return
<1>2. /\ Len(Queued) \in Nat /\ responses \in 0 .. Len(Queued) /\ id[t] \in 0 .. IdSpace - 1
      /\ answered \in Seq([id : 0 .. IdSpace - 1, response : 1 .. Len(Queued)])
      /\ Len(answered) = responses
  BY QueuedAssumption DEF IInv, TypeOK, AnswersConserved
<1>3. \A x : Issued(x)' = Issued(x)
  BY <1>1 DEF Issued
<1>4. FreshNext' /\ IdsIssued' /\ IdsUnique'
  BY <1>1, <1>3 DEF IInv, FreshNext, IdsIssued, IdsUnique, TypeOK
<1>5. CASE responses < Len(Queued)
  <2> DEFINE a == [id |-> id[t], response |-> responses + 1]
             o == ReadEnvelope(method[t], Queued[responses + 1])
  <2>1. /\ responses' = responses + 1 /\ answered' = Append(answered, a)
        /\ outcome' = [outcome EXCEPT ![t] = o]
    BY <1>5 DEF Take, Return
  <2>2. a \in [id : 0 .. IdSpace - 1, response : 1 .. Len(Queued)] /\ a.id = id[t] /\ a.response = responses + 1
    BY <1>2, <1>5
  <2>3. o \in Outcomes \ {"transport"}
    BY DEF ReadEnvelope, Outcomes
  <2> HIDE DEF a, o
  <2>4. /\ Len(answered') = Len(answered) + 1 /\ answered' \in Seq([id : 0 .. IdSpace - 1, response : 1 .. Len(Queued)])
        /\ \A i \in 1 .. Len(answered) : answered'[i] = answered[i]
        /\ answered'[Len(answered) + 1] = a
    BY <1>2, <2>1, <2>2
  <2>5. TypeOK'
    BY <1>1, <1>2, <1>5, <2>1, <2>3, <2>4 DEF IInv, TypeOK
  <2>6. \A u \in Thread : u # t /\ pc[u] # "ready" => id[u] # id[t]
    BY <1>1 DEF IInv, IdsUnique
  <2>7. \A i \in 1 .. Len(answered) : answered[i].id # id[t]
    BY <1>1 DEF IInv, AnswersOnce
  <2>8. Issued(id[t])
    BY <1>1 DEF IInv, IdsIssued
  <2>9. AnswersOnce'
    <3>1. \A i \in 1 .. Len(answered') : Issued(answered'[i].id)
      BY <1>2, <2>2, <2>4, <2>8 DEF IInv, AnswersOnce
    <3>2. \A u \in Thread, i \in 1 .. Len(answered') : pc'[u] # "ready" => answered'[i].id # id[u]
      <4> SUFFICES ASSUME NEW u \in Thread, NEW i \in 1 .. Len(answered'), pc'[u] # "ready"
                   PROVE  answered'[i].id # id[u]
        OBVIOUS
      <4>1. u # t /\ pc[u] # "ready"
        BY <1>1 DEF IInv, TypeOK
      <4>2. CASE i = Len(answered) + 1
        BY <2>2, <2>4, <2>6, <4>1, <4>2
      <4>3. CASE i # Len(answered) + 1
        <5>1. i \in 1 .. Len(answered) /\ answered'[i] = answered[i]
          BY <1>2, <2>4, <4>3
        <5> QED BY <4>1, <5>1 DEF IInv, AnswersOnce
      <4> QED BY <4>2, <4>3
    <3> QED BY <1>1, <1>3, <3>1, <3>2 DEF AnswersOnce
  <2>10. \A u \in Thread : outcome'[u] # "transport"
    <3>1. \A u \in Thread : outcome[u] # "transport"
      BY <1>2, <1>5 DEF IInv, AnswersConserved
    <3> QED BY <2>1, <2>3, <3>1 DEF IInv, TypeOK
  <2>11. AnswersConserved'
    <3>1. Len(answered') = responses'
      BY <1>2, <2>1, <2>4
    <3>2. \A i \in 1 .. Len(answered') : i \in 1 .. Len(answered) \/ i = Len(answered) + 1
      BY <1>2, <2>4
    <3>3. \A i \in 1 .. Len(answered') : answered'[i].response = i
      BY <1>2, <2>2, <2>4, <3>2 DEF IInv, AnswersConserved
    <3>4. \A i, j \in 1 .. Len(answered') : i # j => answered'[i].id # answered'[j].id
      <4> SUFFICES ASSUME NEW i \in 1 .. Len(answered'), NEW j \in 1 .. Len(answered'), i # j
                   PROVE  answered'[i].id # answered'[j].id
        OBVIOUS
      <4>1. CASE i \in 1 .. Len(answered) /\ j \in 1 .. Len(answered)
        BY <2>4, <4>1 DEF IInv, AnswersConserved
      <4>2. CASE i = Len(answered) + 1
        <5>1. j \in 1 .. Len(answered)
          BY <3>2, <4>2
        <5> QED BY <2>2, <2>4, <2>7, <4>2, <5>1
      <4>3. CASE j = Len(answered) + 1
        <5>1. i \in 1 .. Len(answered)
          BY <3>2, <4>3
        <5> QED BY <2>2, <2>4, <2>7, <4>3, <5>1
      <4> QED BY <3>2, <4>1, <4>2, <4>3
    <3> QED BY <2>10, <3>1, <3>3, <3>4 DEF AnswersConserved
  <2> QED BY <1>4, <2>5, <2>9, <2>11 DEF IInv
<1>6. CASE responses = Len(Queued)
  <2>1. /\ outcome' = [outcome EXCEPT ![t] = "transport"] /\ UNCHANGED <<responses, answered>>
    BY <1>2, <1>6 DEF Take, Return
  <2>2. TypeOK'
    BY <1>1, <2>1 DEF IInv, TypeOK, Outcomes
  <2>3. AnswersOnce' /\ AnswersConserved'
    BY <1>1, <1>3, <1>6, <2>1 DEF IInv, AnswersOnce, AnswersConserved, TypeOK
  <2> QED BY <1>4, <2>2, <2>3 DEF IInv
<1> QED BY <1>2, <1>5, <1>6

(* Every step of every thread keeps the invariant.                         *)
LEMMA NextIInv == IInv /\ [Next]_vars => IInv'
<1> SUFFICES ASSUME IInv, [Next]_vars PROVE IInv'
  OBVIOUS
<1>1. CASE Next
  BY <1>1, BeginStep, RecordStep, TakeStep DEF Next, Step
<1>2. CASE UNCHANGED vars
  BY <1>2 DEF vars, IInv, TypeOK, FreshNext, IdsIssued, Issued, IdsUnique, AnswersOnce, AnswersConserved
<1> QED BY <1>1, <1>2

(* Every state satisfies the invariant, for any threads and responses      *)
(* (RpcClient over MockTransport).                                         *)
THEOREM Invariant == Spec => []IInv
BY InitIInv, NextIInv, PTL DEF Spec

(* Variables keep their shape; next_id wraps (mod.rs, AtomicU64).          *)
THEOREM TypeCorrect == Spec => []TypeOK
<1>1. IInv => TypeOK
  BY DEF IInv
<1> QED BY <1>1, Invariant, PTL

(* No two requests share an id (mod.rs, "each call gets its own            *)
(* monotonically increasing request id").                                  *)
THEOREM RequestIdsUnique == Spec => []IdsUnique
<1>1. IInv => IdsUnique
  BY DEF IInv
<1> QED BY <1>1, Invariant, PTL

(* Each queued response answers exactly one call (mock.rs).                *)
THEOREM ResponsesConserved == Spec => []AnswersConserved
<1>1. IInv => AnswersConserved
  BY DEF IInv
<1> QED BY <1>1, Invariant, PTL

(* No call whose response carried `error` returns Ok (RpcClient::call).    *)
THEOREM ErrorsReported == Spec => []ErrorNeverOk
<1>1. Init => ErrorNeverOk
  BY DEF Init, ErrorNeverOk
<1>2. ASSUME IInv, ErrorNeverOk, [Next]_vars
      PROVE  ErrorNeverOk'
  <2>1. CASE UNCHANGED vars
    BY <1>2, <2>1 DEF vars, ErrorNeverOk
  <2>2. ASSUME NEW t \in Thread, NEW m \in Methods, Begin(t, m)
        PROVE  ErrorNeverOk'
    BY <1>2, <2>2 DEF Begin, ErrorNeverOk, IInv, TypeOK
  <2>3. ASSUME NEW t \in Thread, Record(t)
        PROVE  ErrorNeverOk'
    BY <1>2, <2>3 DEF Record, ErrorNeverOk, IInv, TypeOK
  <2>4. ASSUME NEW t \in Thread, Take(t)
        PROVE  ErrorNeverOk'
    <3> SUFFICES ASSUME NEW u \in Thread, pc'[u] = "ready", outcome'[u] = "ok"
                 PROVE  \E i \in 1 .. Len(answered') :
                            answered'[i].id = id'[u] /\ ~Queued[answered'[i].response].error
      BY DEF ErrorNeverOk
    <3> DEFINE a == [id |-> id[t], response |-> responses + 1]
               e == Queued[responses + 1]
    <3>1. /\ pc' = [pc EXCEPT ![t] = "ready"] /\ id' = id
          /\ \/ /\ responses < Len(Queued) /\ answered' = Append(answered, a)
                /\ outcome' = [outcome EXCEPT ![t] = ReadEnvelope(method[t], e)]
             \/ answered' = answered /\ outcome' = [outcome EXCEPT ![t] = "transport"]
      BY <2>4 DEF Take, Return
    <3>2. answered \in Seq([id : 0 .. IdSpace - 1, response : 1 .. Len(Queued)])
      BY <1>2 DEF IInv, TypeOK
    <3>3. a.id = id[t] /\ a.response = responses + 1
      OBVIOUS
    <3>4. a \in [id : 0 .. IdSpace - 1, response : 1 .. Len(Queued)] \/ answered' = answered
      BY <1>2, <3>1, QueuedAssumption DEF IInv, TypeOK
    <3>5. ReadEnvelope(method[t], e) = "ok" => ~e.error
      BY DEF ReadEnvelope
    <3> HIDE DEF a
    <3>6. /\ Len(answered) \in Nat /\ Len(answered') \in Nat /\ Len(answered) <= Len(answered')
          /\ \A i \in 1 .. Len(answered) : answered'[i] = answered[i]
          /\ answered' # answered => /\ Len(answered') = Len(answered) + 1
                                    /\ answered'[Len(answered')] = a
      <4>1. CASE answered' = answered
        BY <3>2, <4>1
      <4>2. CASE answered' # answered
        <5>1. answered' = Append(answered, a) /\ a \in [id : 0 .. IdSpace - 1, response : 1 .. Len(Queued)]
          BY <3>1, <3>4, <4>2
        <5> QED BY <3>2, <5>1
      <4> QED BY <4>1, <4>2
    <3>7. CASE u = t
      <4>1. outcome'[t] = ReadEnvelope(method[t], e) /\ answered' = Append(answered, a)
        BY <1>2, <3>1, <3>7 DEF IInv, TypeOK
      <4>2. answered' # answered
        <5>1. Len(Append(answered, a)) = Len(answered) + 1
          BY <3>2, <3>6
        <5> QED BY <3>6, <4>1, <5>1
      <4>3. ~Queued[a.response].error
        BY <3>3, <3>5, <3>7, <4>1
      <4> QED BY <3>1, <3>3, <3>6, <3>7, <4>2, <4>3
    <3>8. CASE u # t
      <4>1. pc[u] = "ready" /\ outcome[u] = "ok"
        BY <1>2, <3>1, <3>8 DEF IInv, TypeOK
      <4>2. PICK i \in 1 .. Len(answered) :
                answered[i].id = id[u] /\ ~Queued[answered[i].response].error
        BY <1>2, <4>1 DEF ErrorNeverOk
      <4>3. i \in 1 .. Len(answered') /\ answered'[i] = answered[i] /\ id'[u] = id[u]
        BY <3>1, <3>6
      <4> QED BY <4>2, <4>3
    <3> QED BY <3>7, <3>8
  <2> QED BY <1>2, <2>1, <2>2, <2>3, <2>4 DEF Next, Step
<1> QED BY <1>1, <1>2, Invariant, PTL DEF Spec

-----------------------------------------------------------------------------
(* The order of the transport's two lists.                                 *)

OneThread == \A t, u \in Thread : t = u

(* The i-th response went to the i-th request.                             *)
InCallOrder ==
    /\ Len(answered) <= Len(received)
    /\ \A i \in 1 .. Len(answered) : answered[i] = [id |-> received[i], response |-> i]

(* A request that waits for its response is the last one recorded; while   *)
(* there are responses left, it is the only one without.                   *)
LastWaits ==
    \A t \in Thread :
        /\ pc[t] = "take" => /\ Len(answered) < Len(received)
                            /\ received[Len(received)] = id[t]
        /\ responses < Len(Queued) =>
               Len(received) = Len(answered) + IF pc[t] = "take" THEN 1 ELSE 0

(* "Replays queued JSON-RPC response envelopes in call order and records   *)
(* every request it received" (mock.rs:1-4) is true of a transport that    *)
(* one thread uses, however long the queue and whatever the ids.           *)
THEOREM RepliesInCallOrder == OneThread => (Spec => []InCallOrder)
<1> SUFFICES ASSUME OneThread PROVE Spec => []InCallOrder
  OBVIOUS
<1>1. Init => InCallOrder /\ LastWaits
  BY DEF Init, InCallOrder, LastWaits
<1>2. ASSUME IInv, InCallOrder, LastWaits, [Next]_vars
      PROVE  InCallOrder' /\ LastWaits'
  <2> DEFINE Answers == [id : 0 .. IdSpace - 1, response : 1 .. Len(Queued)]
  <2>1. /\ received \in Seq(0 .. IdSpace - 1) /\ Len(received) \in Nat
        /\ answered \in Seq(Answers) /\ Len(answered) \in Nat
        /\ Len(Queued) \in Nat /\ responses \in 0 .. Len(Queued) /\ Len(answered) = responses
        /\ pc \in [Thread -> {"ready", "record", "take"}]
    BY <1>2, QueuedAssumption DEF IInv, TypeOK, AnswersConserved
  <2>2. CASE UNCHANGED vars
    BY <1>2, <2>2 DEF vars, InCallOrder, LastWaits
  <2>3. ASSUME NEW t \in Thread, NEW m \in Methods, Begin(t, m)
        PROVE  InCallOrder' /\ LastWaits'
    <3>1. /\ UNCHANGED <<received, responses, answered>>
          /\ pc[t] = "ready" /\ pc' = [pc EXCEPT ![t] = "record"]
      BY <2>3 DEF Begin
    <3>2. \A u \in Thread : pc'[u] = "record" /\ pc[u] = "ready"
      BY <2>1, <3>1 DEF OneThread
    <3>3. InCallOrder'
      BY <1>2, <3>1 DEF InCallOrder
    <3>4. LastWaits'
      BY <1>2, <3>1, <3>2 DEF LastWaits
    <3> QED BY <3>3, <3>4
  <2>4. ASSUME NEW t \in Thread, Record(t)
        PROVE  InCallOrder' /\ LastWaits'
    <3>1. /\ received' = Append(received, id[t]) /\ pc[t] = "record"
          /\ pc' = [pc EXCEPT ![t] = "take"] /\ UNCHANGED <<responses, id, answered>>
      BY <2>4 DEF Record
    <3>2. \A u \in Thread : u = t /\ pc'[u] = "take" /\ pc[u] = "record"
      BY <2>1, <3>1 DEF OneThread
    <3>3. id[t] \in 0 .. IdSpace - 1
      BY <1>2 DEF IInv, TypeOK
    <3>4. /\ Len(received') = Len(received) + 1 /\ received'[Len(received) + 1] = id[t]
          /\ \A i \in 1 .. Len(received) : received'[i] = received[i]
      BY <2>1, <3>1, <3>3
    <3>5. \A i \in 1 .. Len(answered) : i \in 1 .. Len(received)
      BY <1>2, <2>1 DEF InCallOrder
    <3>6. InCallOrder'
      BY <1>2, <2>1, <3>1, <3>4, <3>5 DEF InCallOrder
    <3>7. responses < Len(Queued) => Len(received) = Len(answered)
      BY <1>2, <3>2 DEF LastWaits
    <3>8. /\ Len(answered) < Len(received') /\ received'[Len(received')] = id[t]
          /\ responses < Len(Queued) => Len(received') = Len(answered) + 1
      BY <1>2, <2>1, <3>4, <3>7 DEF InCallOrder
    <3>9. LastWaits'
      BY <3>1, <3>2, <3>8 DEF LastWaits
    <3> QED BY <3>6, <3>9
  <2>5. ASSUME NEW t \in Thread, Take(t)
        PROVE  InCallOrder' /\ LastWaits'
    <3>1. /\ pc[t] = "take" /\ pc' = [pc EXCEPT ![t] = "ready"]
          /\ UNCHANGED <<received, id>>
      BY <2>5 DEF Take, Return
    <3>2. \A u \in Thread : u = t /\ pc'[u] = "ready"
      BY <2>1, <3>1 DEF OneThread
    <3>3. CASE responses < Len(Queued)
      <4> DEFINE a == [id |-> id[t], response |-> responses + 1]
      <4>1. answered' = Append(answered, a) /\ responses' = responses + 1
        BY <3>3, <2>5 DEF Take
      <4>2. Len(received) = Len(answered) + 1 /\ received[Len(received)] = id[t]
        BY <1>2, <3>1, <3>3 DEF LastWaits
      <4>3. a = [id |-> received[Len(answered) + 1], response |-> Len(answered) + 1]
        BY <2>1, <4>2
      <4>4. a \in Answers
        BY <1>2, <2>1, <3>3 DEF IInv, TypeOK
      <4> HIDE DEF a, Answers
      <4>5. /\ Len(answered') = Len(answered) + 1 /\ answered'[Len(answered) + 1] = a
            /\ \A i \in 1 .. Len(answered) : answered'[i] = answered[i]
        BY <2>1, <4>1, <4>4
      <4>6. \A i \in 1 .. Len(answered') : i \in 1 .. Len(answered) \/ i = Len(answered) + 1
        BY <2>1, <4>5
      <4>7. \A i \in 1 .. Len(answered') : answered'[i] = [id |-> received[i], response |-> i]
        BY <1>2, <4>3, <4>5, <4>6 DEF InCallOrder
      <4>8. Len(answered') = Len(received)
        BY <4>2, <4>5
      <4>9. InCallOrder'
        BY <2>1, <3>1, <4>7, <4>8 DEF InCallOrder
      <4>10. LastWaits'
        BY <2>1, <3>1, <3>2, <4>8 DEF LastWaits
      <4> QED BY <4>9, <4>10
    <3>4. CASE responses = Len(Queued)
      <4>1. UNCHANGED <<responses, answered>>
        BY <2>1, <3>4, <2>5 DEF Take
      <4>2. InCallOrder'
        BY <1>2, <3>1, <4>1 DEF InCallOrder
      <4>3. LastWaits'
        BY <2>1, <3>1, <3>2, <3>4, <4>1 DEF LastWaits
      <4> QED BY <4>2, <4>3
    <3> QED BY <2>1, <3>3, <3>4
  <2> QED BY <1>2, <2>2, <2>3, <2>4, <2>5 DEF Next, Step
<1> QED BY <1>1, <1>2, Invariant, PTL DEF Spec

(* However many threads share the transport, a response only ever goes to  *)
(* a request that was recorded before (mock.rs, the order of the locks).   *)
AnsweredWereRecorded ==
    \A i \in 1 .. Len(answered) : \E j \in 1 .. Len(received) : received[j] = answered[i].id

(* So has every request that waits for its response.                       *)
WaitingWereRecorded ==
    \A t \in Thread : pc[t] = "take" => \E j \in 1 .. Len(received) : received[j] = id[t]

(* received() shows every request that has been answered (mock.rs).        *)
THEOREM LogIsComplete == Spec => []AnsweredWereRecorded
<1>1. Init => AnsweredWereRecorded /\ WaitingWereRecorded
  BY DEF Init, AnsweredWereRecorded, WaitingWereRecorded
<1>2. ASSUME IInv, AnsweredWereRecorded, WaitingWereRecorded, [Next]_vars
      PROVE  AnsweredWereRecorded' /\ WaitingWereRecorded'
  <2> DEFINE Answers == [id : 0 .. IdSpace - 1, response : 1 .. Len(Queued)]
  <2>1. /\ received \in Seq(0 .. IdSpace - 1) /\ answered \in Seq(Answers)
        /\ Len(Queued) \in Nat /\ responses \in 0 .. Len(Queued)
        /\ pc \in [Thread -> {"ready", "record", "take"}] /\ id \in [Thread -> 0 .. IdSpace - 1]
    BY <1>2, QueuedAssumption DEF IInv, TypeOK
  <2>2. CASE UNCHANGED vars
    BY <1>2, <2>2 DEF vars, AnsweredWereRecorded, WaitingWereRecorded
  <2>3. ASSUME NEW t \in Thread, NEW m \in Methods, Begin(t, m)
        PROVE  AnsweredWereRecorded' /\ WaitingWereRecorded'
    <3>1. /\ UNCHANGED <<received, answered>> /\ pc' = [pc EXCEPT ![t] = "record"]
          /\ id' = [id EXCEPT ![t] = next_id]
      BY <2>3 DEF Begin
    <3>2. \A u \in Thread : pc'[u] = "take" => pc[u] = "take" /\ id'[u] = id[u]
      BY <2>1, <3>1
    <3> QED BY <1>2, <3>1, <3>2 DEF AnsweredWereRecorded, WaitingWereRecorded
  <2>4. ASSUME NEW t \in Thread, Record(t)
        PROVE  AnsweredWereRecorded' /\ WaitingWereRecorded'
    <3>1. /\ received' = Append(received, id[t]) /\ pc' = [pc EXCEPT ![t] = "take"]
          /\ UNCHANGED <<id, answered>>
      BY <2>4 DEF Record
    <3>2. /\ Len(received) \in Nat /\ Len(received') = Len(received) + 1
          /\ received'[Len(received) + 1] = id[t]
          /\ \A i \in 1 .. Len(received) : received'[i] = received[i]
      BY <2>1, <3>1
    <3>3. \A x : (\E j \in 1 .. Len(received) : received[j] = x)
                    => \E j \in 1 .. Len(received') : received'[j] = x
      BY <3>2
    <3>4. AnsweredWereRecorded'
      BY <1>2, <3>1, <3>3 DEF AnsweredWereRecorded
    <3>5. ASSUME NEW u \in Thread, pc'[u] = "take"
          PROVE  \E j \in 1 .. Len(received') : received'[j] = id'[u]
      <4>1. CASE u = t
        BY <3>1, <3>2, <4>1
      <4>2. CASE u # t
        BY <1>2, <2>1, <3>1, <3>3, <3>5, <4>2 DEF WaitingWereRecorded
      <4> QED BY <4>1, <4>2
    <3> QED BY <3>4, <3>5 DEF WaitingWereRecorded
  <2>5. ASSUME NEW t \in Thread, Take(t)
        PROVE  AnsweredWereRecorded' /\ WaitingWereRecorded'
    <3> DEFINE a == [id |-> id[t], response |-> responses + 1]
    <3>1. /\ pc[t] = "take" /\ pc' = [pc EXCEPT ![t] = "ready"] /\ UNCHANGED <<received, id>>
          /\ \/ answered' = answered
             \/ /\ responses < Len(Queued)
                /\ answered' = Append(answered, a)
      BY <2>5 DEF Take, Return
    <3>2. \A u \in Thread : pc'[u] = "take" => pc[u] = "take"
      BY <2>1, <3>1
    <3>3. WaitingWereRecorded'
      BY <1>2, <3>1, <3>2 DEF WaitingWereRecorded
    <3>4. CASE answered' = answered
      BY <1>2, <3>1, <3>3, <3>4 DEF AnsweredWereRecorded
    <3>5. CASE responses < Len(Queued) /\ answered' = Append(answered, a)
      <4>1. a \in Answers /\ a.id = id[t]
        BY <2>1, <3>5
      <4> HIDE DEF a, Answers
      <4>2. /\ Len(answered) \in Nat /\ Len(answered') = Len(answered) + 1
            /\ answered'[Len(answered) + 1] = a
            /\ \A i \in 1 .. Len(answered) : answered'[i] = answered[i]
        BY <2>1, <3>5, <4>1
      <4>3. \E j \in 1 .. Len(received) : received[j] = a.id
        BY <1>2, <3>1, <4>1 DEF WaitingWereRecorded
      <4>4. \A i \in 1 .. Len(answered') : i \in 1 .. Len(answered) \/ i = Len(answered) + 1
        BY <4>2
      <4>5. AnsweredWereRecorded'
        BY <1>2, <3>1, <4>2, <4>3, <4>4 DEF AnsweredWereRecorded
      <4> QED BY <3>3, <4>5
    <3> QED BY <3>1, <3>4, <3>5
  <2> QED BY <1>2, <2>2, <2>3, <2>4, <2>5 DEF Next, Step
<1> QED BY <1>1, <1>2, Invariant, PTL DEF Spec

=============================================================================
