# TLA+ specifications of svm-wasi-core

`svm-wasi-core` builds, signs and submits Solana transactions and reads account state over JSON-RPC. Most of the
crate is stateless; what is hard about it is what happens *between* its calls: a transaction that waits hours for a
human, is signed twice, and is sent to a cluster that forgets forks and loses answers. These modules specify that.

## 1. Inventory

| Component | Source | State it keeps | Operations | Hard parts |
|---|---|---|---|---|
| durable-nonce messages | `message.rs`, `nonce.rs` | none; reads a nonce account | compile v0 / legacy, `usable_blockhash` | the nonce is read long before it is used |
| transaction envelope | `transaction.rs` | signature slots + message | `new_unsigned`, `serialize`, `try_from_bytes`, `try_sign`, `insert_signature` | bytes that are signed must be the bytes on the wire; slots per signer across repeated parse/sign |
| external signer | `examples/sign_and_broadcast_sweep.rs` | one transaction per run | parse, sign with two keys, print, simulate, ask, send | several runs on one proposal, stale simulation, lost answers, resubmission by hand |
| nonce account setup | `examples/create_durable_nonce_account.rs` | one transaction per run | rent, block hash, sign, send | hash expiry, lost answer, preflight commitment, shared funds |
| JSON-RPC client | `rpc/mod.rs` | `next_id` | `call`, `call_value`, typed methods | shared by threads; mixed envelopes; paging |
| mock transport | `rpc/mock.rs` | two locked lists | `send`, `received` | two critical sections |
| network transports | `rpc/waki_transport.rs`, `native_transport.rs` | none | `send` | three ways to fail, no timeout |
| recurring delegations | `subscription_state.rs`, `instruction/subscriptions.rs` | on chain; plugins hold copies | unpack, create, `amount_available`, transfer | period boundaries, widths, stale copies, several pullers; an authority closed and made again under a delegation |
| response shaping | `shaping.rs` | loop state | `shape_for_budget` | limits and the marker's own length |
| stealth addresses | `stealth.rs`, `stealth_sign.rs`, `examples/generate_stealth_meta_address.rs` | keys | derive, recompute, recover, sign | both sides must meet on one address, from keys anybody publishes and a human types |
| token state, token instructions | `token_state.rs`, `instruction/{token,associated_token_account}.rs` | none; plugins hold a mint | unpack, three finders, create, transfer | mint and account change while a payment waits; a risk that is not shown |
| keys | `sign.rs` | seed | load, sign | - |
| memo, system instructions, re-exports | rest of `src/` | none | constants | - |

The plugin hands a base64 transaction to a human, who pastes it into the signer; signer and setup talk to the
cluster through `RpcClient`; the setup's nonce account is what the plugin's messages spend. What makes each part
correct: a nonce pays at most once and waiting never invalidates a proposal (messages, signer); what is signed
is what was approved and it verifies (envelope); a refusal has its cause on chain and spent rent is accounted
for (setup); every call has its own id and its own answer (client, mock); the computed allowance is the
program's, and a plugin can tell a delegation that works from one whose authority is gone (delegations); an abridged
result is honest about what it left out (shaping); both sides of a payment derive the same address and only the
recipient can spend it (stealth); what lands is what was shown for approval (token payments); a poller reports
in order, nothing twice, and leaves out only what no page could hold (paging).

## 2. Modules

| Module | Role |
|---|---|
| `Envelope` | `transaction.rs` as operators. A signature is the key that made it and the bytes it covers; bytes are the first byte (version prefix or header count) and the message behind it. |
| `DurableMessage` | `message.rs` and `nonce.rs` as operators. A hash is its kind (block hash or nonce) and the slot that made it. |
| `SweepOnce` | Abstract specification: an address pays once, each payment spends a nonce, a spent nonce never pays again. |
| `SweepFlow` | Plugin, several signer runs, resubmission by hand, RPC pool and cluster, composed on the two modules above. |
| `SweepFlowInductive`, `SweepFlowProofs` | Its inductive invariant (`MCSweepFlow` extends it, so TLC can be asked about `IInv` too), and the proofs. |
| `NonceSetup`, `NonceSetupProofs` | Setup runs with one payer, on `Envelope`'s legacy transaction. |
| `RpcClient`, `RpcClientProofs` | Threads sharing one client over the mock transport. |
| `RpcReads` | Every typed method: what its decoder asks of a response, over transports that fail and nodes that lag. |
| `SignatureFeed` | Abstract specification: an address's transactions are delivered from the oldest on, none twice; some are left out only when more wait than a page holds, and then exactly a page follows. |
| `SignaturePoll` | A poller over `get_signatures_for_address` with `until`. |
| `RecurringDelegation`, `RecurringDelegationProofs` | Plugins pulling on one delegation, with i64/u64 arithmetic of width `Half`. |
| `SubscriptionFlow`, `SubscriptionProofs` | The authority and the delegations pinned to it by `init_id`, read in one or two requests. |
| `StealthAddress` | `stealth.rs` as operators over an abstract group with a cofactor. |
| `StealthPayments`, `StealthProofs` | Sender, scanner and signer, composed on `StealthAddress` and `Envelope`. |
| `TokenPayment`, `TokenPaymentProofs` | A token payment from the mint's account to its landing. |
| `ShapeBudget` | The loop of `shape_for_budget`, for any way of cutting and measuring a value. |
| `ShapeLevel`, `Shaping` | JSON trees of which only the lengths are kept: one level of `shape_json`, and the recursions over it. |
| `AnswerProofs` | Proofs about `RpcReads`, `SignaturePoll`, `ShapeBudget` and `ShapeLevel`. |
| `MC...` | Symmetry and concrete values for TLC. |

### Correspondence

*SweepFlow.* `proposed` is the approval queue, `printed` what the signer wrote to the terminal, `pool` what a node has
accepted, `pc`/`held` each run's position and its `tx`. `SignSweep` is lines 128-193 of the signer in one step
(it does no I/O on shared state before printing), `RejectSweep` its "not a required signer" exits, `Simulate`,
`Confirm`/`Decline`, `Send` the four request/prompt points, `Abort` every other exit and the process being
killed. `Send` may add to the pool and still report failure (the answer is lost). `Resubmit` is the printed hint
that the transaction "can be submitted manually later". The cluster is external: a chain of blocks with the bank
after each, a confirmed prefix, unconfirmed forks that can vanish, slots that are never reused.

*NonceSetup.* One action per request; `Fail` is `ExitCode::FAILURE`, `cause` a history variable. Block hashes are heights.
A run that ends - with either message - may still see its account made later; `OutcomeIsFinal` says until when.

*RpcClient.* `Begin` is `fetch_add`, `Record` and `Take` are the two lock scopes of `MockTransport::send`, `ReadEnvelope`
the order in which `error`, `result` and `value` are looked at. The counter wraps at `IdSpace`.

*RecurringDelegation.* `Fetch` unpacks, `Ask` transfers at most `amount_available` of the plugin's copy, `Pull` executes,
rejects or loses it. The first period of a delegation starts now (`start_ts` of 0, or of this moment) or later. The
on-chain program (`Started`, `Lapsed`, `Rolled`, `Allowed`) is external and follows the comments that describe it:
periods roll forward automatically, skipped ones do not accumulate, the cap and the expiry are enforced; that it
pays nothing before `start_ts` is an assumption. It shares no operator with `amount_available`.

*RpcReads.* A method is a `Schema`: which fields `pubkey_field`, `str_field` and the `as_...` chains insist on (`typed`), which
fall back to a default (`present`, `optional`), whether `null` is `None` (or, for `simulate_transaction`, a result
without an error), whether the answer is a list. `FailExchange` is the
three `map_err` of the transports, `Return` the decoder.

*SignaturePoll.* `Options` and `DecodePage` are the method; node, losses and poller are external. Signatures are numbers.
`SignatureFeed` sees its `history` as the transactions there are and its `reported` as those delivered. `known` records
what the node knew when it answered.

*SubscriptionFlow.* An account is its length, discriminator and `init_id`, which is what the unpack functions look at, in
that order. `FetchDelegation`/`FetchAuthority` are two requests, `FetchBoth` one `get_multiple_accounts`; `Decide` is the
comparison the comment at `SubscriptionAuthority` prescribes, and the choice of `UNKNOWN_INIT_ID`. The program is
external and follows the comments of the two files: an `init_id` is fresh whenever an authority is made, and an expected id
other than `UNKNOWN_INIT_ID` must be the authority's. Addresses are injective in their seeds.

*StealthPayments.* Scalars are numbers below `L`, points the numbers below `8 * L` (their logarithms), the
shared-secret hash a constant function `H`. `Undecodable` stands for bytes no point or scalar decodes from. `Sign` is both
recoveries of the signer, then `sign_with_recovered_key` and `insert_signature`; `typed` records the strings it was given.

*TokenPayment.* `FetchMint` is `unpack_mint` and the finders on one answer. The first takes the base length of the data,
the finders take all of it, so a mint in the first bytes only (`base`) unpacks and fails in each of them (`Unassessed`). `FetchPayee` reads the payee's account and uses
one of the two create and, for a legacy mint, of the two transfer builders. The TLV reader is external and gives up at a
type it does not know; what the code makes of its errors is `Find`. The token programs accept what their documentation
says; only Token-2022 mints can be closed.

*Shaping.* `TryLevel` is one turn of the loop, `FallBack` its end. `ShapeOnce` is the `match` of `shape_json` with what it
makes of the parts as a parameter, `ShapeJson` the recursion; `StandsOnce` and `Abridges` are the same for what an
abridgement is. An item of the original that looks like a marker is not told apart from one. Strings are taken to be
one byte per character before they are cut.

## 3. Runs

| Run | Question | Bounds, and why they are enough |
|---|---|---|
| `sweep_safety` | Do nonces pay once, do sweeps survive waiting, is what lands what was approved? | 2 addresses, 2 runs, 3 proposals (two on one nonce plus one after it, or v0 and legacy of one), 1 empty block, 1 fork; the authority pays the fee |
| `sweep_settles` | Does the confirmed chain implement `SweepOnce`, and does an accepted transaction settle? | 1 run; the swept address pays the fee; with fairness |
| `rpc_shared` | Ids, answers, errors, termination on a shared client | 3 threads, 4 calls, 3 responses of three kinds (so one call finds none), a counter of 4 values (so it wraps) |
| `setup_safety` | Is a refusal justified, is spent rent reported, when is an outcome settled? | 2 runs, funds for 1, hashes valid for 1 more block, 5 blocks: expiry, funding race and forks all occur |
| `delegation_pull` | Does `amount_available` agree with the program, from fresh and from stale copies? | 2 plugins, 5-bit words, periods of 1, 4 and 20 (beyond the signed range), starts now and later, with and without expiry, the clock up to the largest signed value: boundaries, skipped periods, expiry inside a period, the cast and the saturating sum |
| `subscription_safety` | Is a matching pair of accounts really live, a stale one stale for good, a refusal caused by a change? | 2 plugins, 2 delegations under one authority, 5 banks: closed and made again between two requests, another plugin's landing in between |
| `stealth_safety` | Is every payment found, every report spendable, does a mistyped key ever sign, or a string that is no scalar? | `L` = 5, 2 payments, 2 foreign keys (the identity, torsion, undecodable), 5 typed strings |
| `token_safety` | Does what lands pay what was approved, is a refusal caused by something, a delegate always shown? | 2 payments from one balance, 7 mints of three owners, 3 banks |
| `token_delegate` | Also behind an extension newer than the reader? **No.** | 1 payment, the same mints and one more |
| `rpc_answers` | Is `Ok` one bank's answer, does an error have its cause? | 2 keys, lists of 1 and 2 (the same key twice also), 2 banks, every field missing or mistyped |
| `poll_gaps` | Are reports in order, none repeated, none left out but by a burst; does the poller implement `SignatureFeed`? | pages of 2, up to 4 arrivals between good polls, 7 signatures, any entries unreadable for a while: polls with and without a burst follow each other |
| `shaping_budget` | Honest and gentlest abridgement? | lengths at and next to every preset's limits, three shapes, six budgets |

`CHECK_DEADLOCK FALSE` appears where the system stops: bounded calls are used up, all runs have ended, time is at
its horizon, the loop has returned.

**Fairness.** `SweepFlow!FairSpec` assumes only of the cluster that it keeps executing what a node accepted and keeps
confirming; nothing of people or of the programs. `RpcClient!FairSpec` assumes that a thread inside a call keeps
running, which holds for the mock (it never blocks outside its locks). No liveness is claimed over the network
transports, which set no timeout.

### What the runs found

`token_delegate`: `token_state.rs:99` - "must never omit it" (lines 95-96). An extension type newer than the reader, standing
before the permanent delegate in the mint's TLV data, makes the reader fail, and a failure is read as "no delegate".

Limits of the code met while modelling, which no run reports:

- `mock.rs:43` - "in call order" (`mock.rs:1-4`) holds for one thread only: request and response are handled under two
  separate locks. `RepliesInCallOrder` proves it for one; `AnswersConserved` and `LogIsComplete` are what is left with several.
- `create_durable_nonce_account.rs:126` - "Created durable nonce account." is printed when a node has accepted the
  transaction; it may expire without executing. Only once the confirmed chain has outlived the block hash does reading
  the account settle the question (`OutcomeIsFinal`).
- `subscription_state.rs:177` - `period_length_s as i64` is negative from 2^63 on, so a full amount is reported before the
  period has elapsed (`WideLengthsForgetPulls`), as it is at the last second an `i64` holds. `delegation_pull` takes such
  lengths and times: there `AgreesWithProgram` says that the amount is not too low, everywhere else that it is exact.
- `subscription_state.rs:170` - a delegation whose first period is yet to start reports its full amount already;
  `AgreesWithProgram` asks for equality from the start on.
- `shaping.rs:22` - presets apply even to a value that already fits, and the 37-byte marker can be longer than what it
  replaces: `shape_for_budget` can grow its input.
- `rpc/mod.rs:410` - the request has neither `limit` nor `before`, so after a burst of more than a page the older part of
  what is new can never be asked for. `NoGapNoRepeat` bounds the loss: it lies directly before a full page. With
  `Burst <= PageLimit` nothing is lost (`ReportsWithoutGap`).

## 4. Proofs

`SweepFlowProofs` proves, for any set of addresses, runs, key files, ages and bounds, from `SignersAssumption` and
`NoTxAssumption`:

- `Invariant`: `Spec => []IInv`. None of the safety properties is inductive: they speak of what lands and not of why.
  `IInv` says where each transaction comes from (a proposal is a sweep on a nonce of the *confirmed* chain; printed ones
  are signed proposals; pooled ones were payable in some confirmed bank) and how banks follow each other (`Follows`),
  with its consequences for whole chains: nonces only grow, a nonce that is gone was spent, nothing is paid while a
  nonce stays, a landed transaction's nonce is older than every later one. `ChainGrows` and `ChainShrinks` show these
  survive a new block and a fork; the confirmed part survives both.
- from it `TypeOK`, `SlotPerSigner`, `SpentOnce`, `NoBurnedNonce`, `ApprovalDelayHarmless`, `LandedAsProposed`,
  `SignedComplete`, and `Refinement`: `Spec => ImplementsSweepOnce` (only `ConfirmBlock` can be a visible step).
- of the envelope, for any number of signers: signing what was serialized and parsed adds exactly the signer's slot to
  those that verify (`SigningFillsOneSlot`), in either order (`SigningOrderIrrelevant`), and the transaction verifies when
  all have signed and not before. No account is listed twice among the signers, as compilation ensures;
  `PendingAreEnvelopes` shows that whatever a run can be given is of this kind.
- the safety half of `BroadcastSettles`: at the tip of every fork a leader can execute what a node accepted, and it pays,
  until a transaction on its nonce is executed (`AcceptedNeverExpires`); once that is confirmed, no step takes it back
  (`SettledForGood`). What is left to the model checker is that fair leaders get round to it.

`RpcClientProofs` proves `IdsUnique`, `AnswersConserved`, `ErrorNeverOk` and the type invariant for any threads, queue and counter width.
Its invariant ties an id to the number of the call that took it (`calls` calls have used 1, 2, ..., the last possibly 0).
With one thread the i-th response answers the i-th request (`RepliesInCallOrder`, the mock's promise): while responses are
left, only the request recorded last can be without one. With several, a response still goes only to a request that
`received` shows (`LogIsComplete`).

`RecurringDelegationProofs` proves all four invariants of its run for all terms, period lengths of every width included. A stale
copy never hides allowance (`StaleNeverLow`) and `amount_available` never promises less than the program would allow: the
cast and the saturating sum only ever end a period too early. While the length fits a signed word and the clock is below its
maximum (`InRange`), the amount is exactly what its comment says (`AmountIsDocumented`) and, from the first period on, what
the program would allow, so a transfer asked for is still allowed on arrival. `WideLengthsForgetPulls` says what happens
from 2^63 seconds on. The invariant adds that every copy lies `Behind` the
account: the same terms, and either in an earlier period or with no more pulled.

`NonceSetupProofs` proves `RefusedForCause`, `SpentIsReported` and `TypeOK` for any finite set of runs. The invariant says at each
position what a run's transaction is (a creation on a hash the confirmed chain had, signed with both keys) and that only
accepted transactions are in the node's queue; `SignedCreation` shows that signing twice completes the envelope. A second
invariant, `InTime`, says that a creation in the chain stands within the life of its block hash; `OutcomesSettle` follows,
since a fork only takes unconfirmed blocks away and a new block comes too late for a hash that has run out.

`SubscriptionProofs` proves all four invariants of its run for any users, mints, jobs and chains. The argument behind
`MatchingPairWasLive` is in `ChainOK`: an authority that is there with an id handed out before some bank was there in
that bank already, since ids are never handed out twice. So a delegation read earlier and an authority read later with
the same id were both there at the first read. A plugin's transaction is `Built` from accounts of banks since then, and
`Honoured` shows that it is accepted while they have not changed.

`StealthProofs` proves that both sides derive one address, or fail with one error, for any keys and any hash (`SidesAgree`), that the
recovered key opens a recomputed address exactly when there is one (`KeyOpensAddress`), and the run's invariants. It
assumes of the group only what `StealthAddress` states; the modular arithmetic is proved from integers.

`AnswerProofs` has three parts.

- *Reads.* `OkIsOneBank` and `ErrorHasCause` for any keys, banks, requests and lagging node. `ReadInv` says what is on its way to
  the decoder: one bank's answer as the node made it, or that answer with one field missing or mistyped, or a
  transport's error; the decoder is then compared with each, entry by entry.
- *Polling.* `NoGapNoRepeat` (`GapsOnlyInBursts`) and `PollRefinement`, for every page limit and burst. `PollInv` says that what is on
  its way is a stretch of signatures up to what the node knew, beginning directly above the cursor or a full page
  below its end; reports only go up and a gap among them is followed by a page. When `Burst <= PageLimit`, the i-th report
  is the i-th signature (`ReportsWithoutGap`).
- *Shaping.* `GentlestThatFits` for any values, budgets and way of cutting and measuring; `BudgetKeptOrHarshest`, the same in
  bytes; and `ResultIsAbridged`, `Abridged` for JSON trees of every shape and height. The last is an induction over height,
  done by hand: if a tree were cut wrongly, the wrongly cut ones would include a lowest (`LeastNatural`), but its parts are
  lower. Its hypotheses say what a tree is (`AreJson`) and that `Shape` and `StandsFor` obey their recursions on trees
  (`ShapesJson`, `StandsForJson`), which is what `ShapeJson` and `Abridges` are defined by. The loop ends: `LoopCountsDown`
  gives the measure that each turn decreases.

`TokenPaymentProofs` proves `LandedAsApproved` without conditions: `transfer_checked` pins the decimals, and where the
plugin uses `transfer` the mint is a legacy one, which `ChainOK` says is never made again. `RefusedForCause` and
`DelegateNeverOmitted` hold under `Ordinary` (something is paid, the reader knows every extension; without the latter
`token_delegate` is the counterexample), `TypeOK` when amounts are natural numbers: tlapm knows nothing of powers.

Only model-checked: `BroadcastSettles` and `CallsReturn`, which are liveness under fairness. Every other property of a run is
stated by a theorem. What stays with TLC besides is what the recursive operators of `Shaping` compute: that `ShapeJson`,
`Abridges` and `TextLen` are the recursions `AnswerProofs` speaks of cannot be proved, since the prover knows no
`RECURSIVE` operator; `shaping_budget` evaluates them.

## 5. Not modelled

- Byte layouts, base58/base64, bincode, JSON field extraction as text; PDA derivation (injective functions here); the
  curve and hash of the stealth scheme (an abstract group); key files (only whether they load).
- Message compilation errors and address lookup tables, `format_sol`, the memo instruction, and system instructions other
  than those the signer and the setup use: constants and formatting.
- HTTP itself. No timeout is set on a request, so nothing is claimed to end over a network transport.
- Hazards without a property, with the reason in `PROJECT.json`: `decimals as u8`; `amount_available` looking at neither `init_id`;
  `context.slot` dropped; no timeout on a request; a pasted transaction with
  fewer slots than required signers (only what this crate or the signer serialized is pasted); the rent of a creation whose
  answer is lost, which the program does lose; an omission marker longer than what it replaces.
- Answers only a node that breaks the protocol gives (a shorter list than was asked for; a status without `err`, which reads
  as a success), and the documented panic of the token builders on a program id that is neither token program
  (`TokenPayment` reaches it as `panicked`).

## 6. Plan

1. A composition of `NonceSetup` and `SweepFlow`, in which the nonce account of a sweep comes from a setup run that may have
   been forked away or may never have executed.
2. `RecurringDelegation` under `SubscriptionFlow`: amounts offered on a delegation whose authority changes.
3. Liveness of a token payment and of a poller, for a cluster and a network that recover.
