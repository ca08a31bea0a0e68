------------------------- MODULE SubscriptionFlow --------------------------
(***************************************************************************)
(* The subscription authority and the delegations pinned to it:            *)
(* src/src/instruction/subscriptions.rs (encode side) and the two unpack   *)
(* functions of src/src/subscription_state.rs (read side).                 *)
(*                                                                         *)
(* Plugins read a delegation and its authority, in two requests or in one, *)
(* and compare their init_ids; they create the delegation when there is    *)
(* none and pull on it when it is pinned to the authority.  What they      *)
(* build waits for approval while the user closes the authority, makes it  *)
(* again, revokes delegations, and other plugins' transactions land.  The  *)
(* on-chain program and the plugins are external and follow the comments   *)
(* of the two files.  Terms and amounts are in RecurringDelegation.        *)
(***************************************************************************)
EXTENDS Integers, Sequences

CONSTANTS
    User, Mint, Delegatee,
    Nonces,         \* of the delegations between one pair
    Plugin,
    Jobs,           \* bound: the delegations plugins look after
    MaxBanks        \* bound: changes of the accounts, plus one

Pairs == User \X Mint

ASSUME JobsAssumption ==
    /\ Jobs \subseteq [user : User, mint : Mint, delegatee : Delegatee, nonce : Nonces]
    /\ MaxBanks \in Nat \ {0}

VARIABLES
    chain,          \* the banks the cluster went through, newest last
    job,            \* the delegation each plugin looks after
    pc,
    at,             \* history: the bank of a plugin's first request
    found,          \* the delegation account a plugin has read
    tx              \* what a plugin has built: a sequence of instructions

vars == <<chain, job, pc, at, found, tx>>

-----------------------------------------------------------------------------
(* Accounts.  An account that does not exist is `null` in the RPC answer.  *)

SUBSCRIPTION_AUTHORITY_LEN == 106
RECURRING_DELEGATION_LEN   == 211

DISCRIMINATOR_SUBSCRIPTION_AUTHORITY == 0
DISCRIMINATOR_RECURRING_DELEGATION   == 3

Account(len, discriminator, init_id) ==
    [len |-> len, discriminator |-> discriminator, init_id |-> init_id]

Null == Account(-1, 0, 0)

(* A closed account somebody sent lamports to: it exists, without data.    *)
Emptied == Account(0, 0, 0)

AuthorityAccount(init_id) ==
    Account(SUBSCRIPTION_AUTHORITY_LEN, DISCRIMINATOR_SUBSCRIPTION_AUTHORITY, init_id)
DelegationAccount(init_id) ==
    Account(RECURRING_DELEGATION_LEN, DISCRIMINATOR_RECURRING_DELEGATION, init_id)

(* Other models of delegation the program has, at the same addresses.      *)
ForeignAccounts == { Account(RECURRING_DELEGATION_LEN - 16, 2, 0),
                     Account(RECURRING_DELEGATION_LEN, 2, 0) }

(* WrongLength, then WrongDiscriminator, then the fields; of those the     *)
(* flow needs only init_id.                                                *)
Unpack(data, len, discriminator) ==
    CASE data.len # len -> [ok |-> FALSE, init_id |-> 0, error |-> "WrongLength"]
      [] data.len = len /\ data.discriminator # discriminator ->
             [ok |-> FALSE, init_id |-> 0, error |-> "WrongDiscriminator"]
      [] OTHER -> [ok |-> TRUE, init_id |-> data.init_id, error |-> "none"]

(* Mutant of UnpackAuthority: accepts an account without data.             *)
UnpackAuthorityAnyLength(data) == Unpack(data, data.len, data.discriminator)

(* Mutant of UnpackAuthority: takes init_id from another field.            *)
UnpackAuthorityOtherField(data) ==
    [Unpack(data, SUBSCRIPTION_AUTHORITY_LEN, DISCRIMINATOR_SUBSCRIPTION_AUTHORITY)
        EXCEPT !.init_id = 1]

UnpackAuthority(data) ==
    Unpack(data, SUBSCRIPTION_AUTHORITY_LEN, DISCRIMINATOR_SUBSCRIPTION_AUTHORITY)

UnpackDelegation(data) ==
    Unpack(data, RECURRING_DELEGATION_LEN, DISCRIMINATOR_RECURRING_DELEGATION)

(* Mutant of Pinned: any delegation that exists counts.                    *)
PinnedUnchecked(delegation, authority) == delegation.ok

(* "a delegation can detect a stale/recreated authority"                   *)
Pinned(delegation, authority) == delegation.init_id = authority.init_id

-----------------------------------------------------------------------------
(* Addresses and instructions.                                             *)

UNKNOWN_INIT_ID == -1               \* i64::MIN: no authority has it

SubscriptionAuthorityPda(user, mint) == <<"SubscriptionAuthority", user, mint>>

RecurringDelegationPda(authority, delegator, delegatee, nonce) ==
    <<"delegation", authority, delegator, delegatee, nonce>>

InitializeSubscriptionAuthority(user, mint) ==
    [op |-> "init", authority |-> SubscriptionAuthorityPda(user, mint)]

(* Mutant of CreateRecurringDelegation: always passes the sentinel.        *)
CreateExpectingUnknown(delegator, delegatee, mint, nonce, expected) ==
    LET authority == SubscriptionAuthorityPda(delegator, mint)
    IN  [op |-> "create", authority |-> authority, expected |-> UNKNOWN_INIT_ID,
         delegation |-> RecurringDelegationPda(authority, delegator, delegatee, nonce)]

CreateRecurringDelegation(delegator, delegatee, mint, nonce, expected) ==
    LET authority == SubscriptionAuthorityPda(delegator, mint)
    IN  [op |-> "create", authority |-> authority, expected |-> expected,
         delegation |-> RecurringDelegationPda(authority, delegator, delegatee, nonce)]

TransferRecurring(delegation, delegator, mint) ==
    [op |-> "transfer", delegation |-> delegation,
     authority |-> SubscriptionAuthorityPda(delegator, mint)]

AuthorityOf(j) == SubscriptionAuthorityPda(j.user, j.mint)
DelegationOf(j) == RecurringDelegationPda(AuthorityOf(j), j.user, j.delegatee, j.nonce)

Addresses == {AuthorityOf(j) : j \in Jobs} \cup {DelegationOf(j) : j \in Jobs}

-----------------------------------------------------------------------------
(* The on-chain program.  Every authority gets an id of its own.           *)

Bank == chain[Len(chain)]

Live(accounts, authority) == accounts[authority].len = SUBSCRIPTION_AUTHORITY_LEN

(* Account creation is skipped for an authority that exists.               *)
AfterInit(bank, authority) ==
    IF Live(bank.accounts, authority) THEN bank
    ELSE [accounts |-> [bank.accounts EXCEPT ![authority] = AuthorityAccount(bank.next)],
          next |-> bank.next + 1]

(* The sentinel stands for an authority made by the same transaction.      *)
Expected(before, bank, ix) ==
    IF ix.expected = UNKNOWN_INIT_ID THEN ~Live(before.accounts, ix.authority)
    ELSE ix.expected = bank.accounts[ix.authority].init_id

Accepts(before, bank, ix) ==
    /\ Live(bank.accounts, ix.authority)
    /\ CASE ix.op = "create" ->
                bank.accounts[ix.delegation] = Null /\ Expected(before, bank, ix)
         [] ix.op = "transfer" ->
                bank.accounts[ix.delegation]
                    = DelegationAccount(bank.accounts[ix.authority].init_id)

After(bank, ix) ==
    IF ix.op # "create" THEN bank
    ELSE [bank EXCEPT !.accounts[ix.delegation] =
                DelegationAccount(bank.accounts[ix.authority].init_id)]

(* A transaction is one instruction, or one after an initialization.       *)
Prepared(bank, t) == IF t[1].op = "init" THEN AfterInit(bank, t[1].authority) ELSE bank
Last(t) == t[Len(t)]

Append1(bank) ==
    /\ Len(chain) < MaxBanks
    /\ chain' = Append(chain, bank)

-----------------------------------------------------------------------------

Init ==
    /\ chain = << [accounts |-> [a \in Addresses |-> Null], next |-> 1] >>
    /\ job \in [Plugin -> Jobs]
    /\ pc = [p \in Plugin |-> "idle"]
    /\ at = [p \in Plugin |-> 1]
    /\ found = [p \in Plugin |-> Null]
    /\ tx = [p \in Plugin |-> <<>>]

(* What a plugin does about delegation d and authority a, as read.         *)
Decide(p, d, a) ==
    LET j          == job[p]
        authority  == UnpackAuthority(a)
        delegation == UnpackDelegation(d)
        create(id) == CreateRecurringDelegation(j.user, j.delegatee, j.mint, j.nonce, id)
        propose(t) == /\ tx' = [tx EXCEPT ![p] = t]
                      /\ pc' = [pc EXCEPT ![p] = "waiting"]
        report(s)  == pc' = [pc EXCEPT ![p] = s] /\ UNCHANGED tx
    IN  \/ /\ (d # Null /\ ~delegation.ok) \/ (a # Null /\ ~authority.ok)
           /\ report("error")
        \/ /\ d = Null /\ a = Null
           /\ propose(<<InitializeSubscriptionAuthority(j.user, j.mint), create(UNKNOWN_INIT_ID)>>)
        \/ /\ d = Null /\ a # Null /\ authority.ok
           /\ propose(<<create(authority.init_id)>>)
        \/ /\ d = Null /\ a # Null /\ authority.ok
           /\ propose(<<InitializeSubscriptionAuthority(j.user, j.mint), create(authority.init_id)>>)
        \/ /\ delegation.ok /\ authority.ok /\ Pinned(delegation, authority)
           /\ propose(<<TransferRecurring(DelegationOf(j), j.user, j.mint)>>)
        \/ /\ delegation.ok /\ (a = Null \/ (authority.ok /\ ~Pinned(delegation, authority)))
           /\ report("stale")

(* get_account_info for the delegation, later for the authority.           *)
FetchDelegation(p) ==
    /\ pc[p] = "idle"
    /\ found' = [found EXCEPT ![p] = Bank.accounts[DelegationOf(job[p])]]
    /\ at' = [at EXCEPT ![p] = Len(chain)]
    /\ pc' = [pc EXCEPT ![p] = "half"]
    /\ UNCHANGED <<chain, job, tx>>

FetchAuthority(p) ==
    /\ pc[p] = "half"
    /\ Decide(p, found[p], Bank.accounts[AuthorityOf(job[p])])
    /\ UNCHANGED <<chain, job, at, found>>

(* get_multiple_accounts for both.                                         *)
FetchBoth(p) ==
    /\ pc[p] = "idle"
    /\ found' = [found EXCEPT ![p] = Bank.accounts[DelegationOf(job[p])]]
    /\ at' = [at EXCEPT ![p] = Len(chain)]
    /\ Decide(p, Bank.accounts[DelegationOf(job[p])], Bank.accounts[AuthorityOf(job[p])])
    /\ UNCHANGED <<chain, job>>

(* The transaction lands as a whole, or fails as a whole.                  *)
Execute(p) ==
    LET ready == Prepared(Bank, tx[p])
        ix    == Last(tx[p])
    IN  /\ pc[p] = "waiting"
        /\ \/ /\ Accepts(Bank, ready, ix)
              /\ Append1(After(ready, ix))
              /\ pc' = [pc EXCEPT ![p] = "landed"]
           \/ /\ ~Accepts(Bank, ready, ix)
              /\ pc' = [pc EXCEPT ![p] = "refused"]
              /\ UNCHANGED chain
        /\ UNCHANGED <<job, at, found, tx>>

Again(p) ==
    /\ pc[p] \in {"error", "stale", "landed", "refused"}
    /\ pc' = [pc EXCEPT ![p] = "idle"]
    /\ tx' = [tx EXCEPT ![p] = <<>>]
    /\ UNCHANGED <<chain, job, at, found>>

-----------------------------------------------------------------------------
(* The user, with other tools.                                             *)

Set(address, account) ==
    /\ Append1([Bank EXCEPT !.accounts[address] = account])
    /\ UNCHANGED <<job, pc, at, found, tx>>

CloseAuthority(j) ==
    /\ Live(Bank.accounts, AuthorityOf(j))
    /\ \E left \in {Null, Emptied} : Set(AuthorityOf(j), left)

OpenAuthority(j) ==
    /\ ~Live(Bank.accounts, AuthorityOf(j))
    /\ Append1(AfterInit(Bank, AuthorityOf(j)))
    /\ UNCHANGED <<job, pc, at, found, tx>>

Revoke(j) ==
    /\ Bank.accounts[DelegationOf(j)] # Null
    /\ Set(DelegationOf(j), Null)

DelegateOtherwise(j) ==
    /\ Live(Bank.accounts, AuthorityOf(j))
    /\ Bank.accounts[DelegationOf(j)] = Null
    /\ \E account \in ForeignAccounts : Set(DelegationOf(j), account)

Next ==
    \/ \E p \in Plugin : \/ FetchDelegation(p) \/ FetchAuthority(p) \/ FetchBoth(p)
                         \/ Execute(p) \/ Again(p)
    \/ \E j \in Jobs : \/ CloseAuthority(j) \/ OpenAuthority(j)
                       \/ Revoke(j) \/ DelegateOtherwise(j)

Spec == Init /\ [][Next]_vars

-----------------------------------------------------------------------------

InitIds == 1 .. MaxBanks

Accounts ==
    {Null, Emptied} \cup ForeignAccounts
        \cup {AuthorityAccount(i) : i \in InitIds} \cup {DelegationAccount(i) : i \in InitIds}

(* Only ids an authority has had are expected of one (initialize and       *)
(* create_recurring_delegation), and accounts are of the program's kinds.  *)
TypeOK ==
    /\ Len(chain) \in 1 .. MaxBanks
    /\ \A n \in 1 .. Len(chain) :
           chain[n].next \in InitIds /\ \A a \in Addresses : chain[n].accounts[a] \in Accounts
    /\ job \in [Plugin -> Jobs]
    /\ pc \in [Plugin -> {"idle", "half", "waiting", "error", "stale", "landed", "refused"}]
    /\ at \in [Plugin -> 1 .. MaxBanks]
    /\ \A p \in Plugin : at[p] <= Len(chain) /\ found[p] \in Accounts
    /\ \A p \in Plugin : tx[p] # <<>> /\ Last(tx[p]).op = "create" =>
           Last(tx[p]).expected \in {UNKNOWN_INIT_ID} \cup (1 .. Bank.next - 1)

(* The delegation of job j, of incarnation id, works in bank n.            *)
Works(j, n, id) ==
    /\ chain[n].accounts[AuthorityOf(j)] = AuthorityAccount(id)
    /\ chain[n].accounts[DelegationOf(j)] = DelegationAccount(id)

(* The program refuses what a plugin built only if the authority or the    *)
(* delegation changed after the plugin began to read: an init_id as last   *)
(* fetched, or the sentinel with an initialization, is never wrong by      *)
(* itself (subscriptions.rs, UNKNOWN_INIT_ID).                             *)
RefusedForCause ==
    \A p \in Plugin : pc[p] = "refused" =>
        \E n \in at[p] .. Len(chain), address \in {AuthorityOf(job[p]), DelegationOf(job[p])} :
            chain[n].accounts[address] # chain[at[p]].accounts[address]

(* Two accounts read by two requests with one init_id between them did     *)
(* work together at some moment since the first request.                   *)
MatchingPairWasLive ==
    \A p \in Plugin : tx[p] # <<>> /\ Last(tx[p]).op = "transfer" =>
        \E n \in at[p] .. Len(chain) : Works(job[p], n, found[p].init_id)

(* A delegation reported as stale, because its init_id differs from the    *)
(* authority's, does not work and never will again.                        *)
StaleIsFinal ==
    \A p \in Plugin : pc[p] = "stale" =>
        ~Works(job[p], Len(chain), found[p].init_id)

=============================================================================
