------------------------------ MODULE RpcClient -----------------------------
(***************************************************************************)
(* One RpcClient shared by several threads over one MockTransport          *)
(* (src/src/rpc/mod.rs, mock.rs).  A call takes an id, then the transport  *)
(* records the request and takes a response in two separate critical       *)
(* sections, then the client reads the response.                           *)
(***************************************************************************)
EXTENDS Integers, Sequences, FiniteSets

CONSTANTS
    Thread,
    Queued,     \* the responses queued when the transport is made
    IdSpace,    \* how many values next_id has (2^64 of an AtomicU64)
    MaxCalls    \* bound: calls made through one client

ASSUME IdAssumption ==
    /\ IdSpace \in Nat /\ IdSpace > 1
    /\ MaxCalls \in Nat /\ MaxCalls <= IdSpace

(* A JSON-RPC envelope: which of `error` and `result` it has, and whether  *)
(* its result is the {"context", "value"} object most methods expect.      *)
Envelopes == [error : BOOLEAN, result : {"none", "bare", "wrapped"}]

ASSUME QueuedAssumption == Queued \in Seq(Envelopes)

(* call for a method with a bare result, call_value for the others.        *)
Methods == {"call", "call_value"}

VARIABLES
    next_id,
    received,   \* the transport's log of requests
    responses,  \* how many of Queued have been taken
    pc, id, method,
    outcome,    \* what each thread's last call returned
    answered,   \* history: which request took which response
    calls       \* history: calls begun

vars == <<next_id, received, responses, pc, id, method, outcome, answered, calls>>

Outcomes == {"none", "ok", "transport", "rpc", "decode"}

Init ==
    /\ next_id = 1
    /\ received = <<>>
    /\ responses = 0
    /\ pc = [t \in Thread |-> "ready"]
    /\ id = [t \in Thread |-> 0]
    /\ method = [t \in Thread |-> "call"]
    /\ outcome = [t \in Thread |-> "none"]
    /\ answered = <<>>
    /\ calls = 0

-----------------------------------------------------------------------------

(* Mutant of Begin: the counter is read but not advanced with it.          *)
BeginWithoutIncrement(t, m) ==
    /\ pc[t] = "ready" /\ calls < MaxCalls
    /\ id' = [id EXCEPT ![t] = next_id]
    /\ method' = [method EXCEPT ![t] = m]
    /\ pc' = [pc EXCEPT ![t] = "record"]
    /\ calls' = calls + 1
    /\ UNCHANGED <<next_id, received, responses, outcome, answered>>

(* fetch_add, which wraps around.                                          *)
Begin(t, m) ==
    /\ pc[t] = "ready" /\ calls < MaxCalls
    /\ id' = [id EXCEPT ![t] = next_id]
    /\ next_id' = (next_id + 1) % IdSpace
    /\ method' = [method EXCEPT ![t] = m]
    /\ pc' = [pc EXCEPT ![t] = "record"]
    /\ calls' = calls + 1
    /\ UNCHANGED <<received, responses, outcome, answered>>

(* The first critical section of MockTransport::send.                      *)
Record(t) ==
    /\ pc[t] = "record"
    /\ received' = Append(received, id[t])
    /\ pc' = [pc EXCEPT ![t] = "take"]
    /\ UNCHANGED <<next_id, responses, id, method, outcome, answered, calls>>

(* Mutant of ReadEnvelope: looks for `result` before `error`.              *)
ReadResultFirst(m, e) ==
    CASE e.result = "none" -> IF e.error THEN "rpc" ELSE "decode"
      [] m = "call_value" /\ e.result # "wrapped" -> "decode"
      [] OTHER -> "ok"

(* `error` decides, whatever else is there; then `result`, then `value`.   *)
ReadEnvelope(m, e) ==
    CASE e.error -> "rpc"
      [] e.result = "none" -> "decode"
      [] m = "call_value" /\ e.result # "wrapped" -> "decode"
      [] OTHER -> "ok"

Return(t, o) ==
    /\ outcome' = [outcome EXCEPT ![t] = o]
    /\ pc' = [pc EXCEPT ![t] = "ready"]

(* Mutant of Take: the response stays in the queue.                        *)
TakeByPeeking(t) ==
    /\ pc[t] = "take"
    /\ \/ /\ responses < Len(Queued)
          /\ answered' = Append(answered, [id |-> id[t], response |-> responses + 1])
          /\ Return(t, ReadEnvelope(method[t], Queued[responses + 1]))
       \/ /\ responses = Len(Queued)
          /\ Return(t, "transport")
          /\ UNCHANGED answered
    /\ UNCHANGED <<next_id, received, responses, id, method, calls>>

(* Mutant of Take: waits for a response instead of reporting there is none.*)
TakeOrWait(t) ==
    /\ pc[t] = "take"
    /\ responses < Len(Queued)
    /\ responses' = responses + 1
    /\ answered' = Append(answered, [id |-> id[t], response |-> responses + 1])
    /\ Return(t, ReadEnvelope(method[t], Queued[responses + 1]))
    /\ UNCHANGED <<next_id, received, id, method, calls>>

(* The second critical section, and what the client makes of the answer.   *)
Take(t) ==
    /\ pc[t] = "take"
    /\ \/ /\ responses < Len(Queued)
          /\ responses' = responses + 1
          /\ answered' = Append(answered, [id |-> id[t], response |-> responses + 1])
          /\ Return(t, ReadEnvelope(method[t], Queued[responses + 1]))
       \/ /\ responses = Len(Queued)
          /\ Return(t, "transport")
          /\ UNCHANGED <<responses, answered>>
    /\ UNCHANGED <<next_id, received, id, method, calls>>

Step(t) == (\E m \in Methods : Begin(t, m)) \/ Record(t) \/ Take(t)

Next == \E t \in Thread : Step(t)

Spec == Init /\ [][Next]_vars

(* A thread inside a call keeps running; nobody has to start one.          *)
FairSpec == Spec /\ \A t \in Thread : WF_vars(Record(t) \/ Take(t))

-----------------------------------------------------------------------------

TypeOK ==
    /\ next_id \in 0 .. IdSpace - 1
    /\ received \in Seq(0 .. IdSpace - 1)
    /\ responses \in 0 .. Len(Queued)
    /\ pc \in [Thread -> {"ready", "record", "take"}]
    /\ id \in [Thread -> 0 .. IdSpace - 1]
    /\ method \in [Thread -> Methods]
    /\ outcome \in [Thread -> Outcomes]
    /\ answered \in Seq([id : 0 .. IdSpace - 1, response : 1 .. Len(Queued)])
    /\ calls \in 0 .. MaxCalls

(* "Each call gets its own request id" (mod.rs:153-159): no two requests   *)
(* the transport ever saw, and no two calls in flight, share one, as long  *)
(* as no more than IdSpace calls are made.                                 *)
IdsUnique ==
    /\ \A i, j \in 1 .. Len(received) : i # j => received[i] # received[j]
    /\ \A t, u \in Thread : t # u /\ pc[t] # "ready" /\ pc[u] # "ready" => id[t] # id[u]
    /\ \A t \in Thread, i \in 1 .. Len(received) : pc[t] = "record" => received[i] # id[t]

(* A queued response answers one call and a call takes one response: none  *)
(* is replayed, none is dropped while calls still run out of them.         *)
AnswersConserved ==
    /\ Len(answered) = responses
    /\ \A i \in 1 .. Len(answered) : answered[i].response = i
    /\ \A i, j \in 1 .. Len(answered) : i # j => answered[i].id # answered[j].id
    /\ \A t \in Thread : outcome[t] = "transport" => responses = Len(Queued)

(* A call whose response carried `error` never returns Ok, even when there *)
(* is a `result` beside it: nothing goes on with the data of a failed call.*)
ErrorNeverOk ==
    \A t \in Thread :
        pc[t] = "ready" /\ outcome[t] = "ok" =>
            \E i \in 1 .. Len(answered) :
                answered[i].id = id[t] /\ ~Queued[answered[i].response].error

(* A call that was begun returns.                                          *)
CallsReturn == \A t \in Thread : pc[t] # "ready" ~> pc[t] = "ready"

=============================================================================
