------------------------- MODULE SubscriptionProofs -------------------------
(***************************************************************************)
(* Proofs about SubscriptionFlow, for any users, mints, plugins and        *)
(* delegations, and chains of any length.                                  *)
(***************************************************************************)
EXTENDS SubscriptionFlow, TLAPS

AuthorityStates(next) == {Null, Emptied} \cup {AuthorityAccount(i) : i \in 1 .. next - 1}

DelegationStates(next) ==
    {Null} \cup ForeignAccounts \cup {DelegationAccount(i) : i \in 1 .. next - 1}

(* Every account holds what belongs at its address, with an id handed out. *)
BankOK(bank) ==
    /\ bank \in [accounts : [Addresses -> Accounts], next : InitIds]
    /\ \A j \in Jobs : /\ bank.accounts[AuthorityOf(j)] \in AuthorityStates(bank.next)
                       /\ bank.accounts[DelegationOf(j)] \in DelegationStates(bank.next)

(* One change of the accounts: an authority that appears has a new id.     *)
Follows(old, new) ==
    /\ BankOK(new)
    /\ new.next \in {old.next, old.next + 1}
    /\ \A j \in Jobs :
          \/ new.accounts[AuthorityOf(j)] = old.accounts[AuthorityOf(j)]
          \/ new.accounts[AuthorityOf(j)] \in {Null, Emptied}
          \/ new.accounts[AuthorityOf(j)] = AuthorityAccount(old.next)

(* An authority that is there with an id handed out before bank n was      *)
(* there in bank n.                                                        *)
ChainOK ==
    /\ chain \in Seq([accounts : [Addresses -> Accounts], next : InitIds])
    /\ Len(chain) \in 1 .. MaxBanks
    /\ \A n \in 1 .. Len(chain) : BankOK(chain[n]) /\ chain[n].next <= n
    /\ \A n, m \in 1 .. Len(chain) : n <= m => chain[n].next <= chain[m].next
    /\ \A n, m \in 1 .. Len(chain), j \in Jobs, i \in Nat :
          /\ n <= m /\ i < chain[n].next
          /\ chain[m].accounts[AuthorityOf(j)] = AuthorityAccount(i)
          => chain[n].accounts[AuthorityOf(j)] = AuthorityAccount(i)

(* What a plugin builds from a delegation d and an authority a.            *)
Built(t, j, d, a) ==
    LET init       == InitializeSubscriptionAuthority(j.user, j.mint)
        create(id) == CreateRecurringDelegation(j.user, j.delegatee, j.mint, j.nonce, id)
        transfer   == TransferRecurring(DelegationOf(j), j.user, j.mint)
    IN  \/ d = Null /\ a = Null /\ t = <<init, create(UNKNOWN_INIT_ID)>>
        \/ /\ d = Null
           /\ \E i \in Nat \ {0} :
                 a = AuthorityAccount(i) /\ t \in {<<create(i)>>, <<init, create(i)>>}
        \/ \E i \in Nat \ {0} :
              d = DelegationAccount(i) /\ a = AuthorityAccount(i) /\ t = <<transfer>>

Changed(p) ==
    \E n \in at[p] .. Len(chain), address \in {AuthorityOf(job[p]), DelegationOf(job[p])} :
        chain[n].accounts[address] # chain[at[p]].accounts[address]

Planned(p) ==
    /\ found[p] = chain[at[p]].accounts[DelegationOf(job[p])]
    /\ \E m \in at[p] .. Len(chain) :
          Built(tx[p], job[p], found[p], chain[m].accounts[AuthorityOf(job[p])])

(* The delegation's id has been handed out and is not the authority's.     *)
Orphaned(p) ==
    \E i \in 1 .. Bank.next - 1 :
        /\ found[p] = DelegationAccount(i)
        /\ Bank.accounts[AuthorityOf(job[p])] # AuthorityAccount(i)

PluginOK(p) ==
    /\ at[p] \in 1 .. Len(chain)
    /\ found[p] \in Accounts
    /\ pc[p] \in {"idle", "half", "error", "stale"} => tx[p] = <<>>
    /\ pc[p] = "half" => found[p] = chain[at[p]].accounts[DelegationOf(job[p])]
    /\ pc[p] \in {"waiting", "landed", "refused"} => Planned(p)
    /\ pc[p] = "stale" => Orphaned(p)
    /\ pc[p] = "refused" => Changed(p)

Shape ==
    /\ job \in [Plugin -> Jobs]
    /\ pc \in [Plugin -> {"idle", "half", "waiting", "error", "stale", "landed", "refused"}]
    /\ at \in [Plugin -> 1 .. MaxBanks]
    /\ found \in [Plugin -> Accounts]
    /\ DOMAIN tx = Plugin /\ tx = [p \in Plugin |-> tx[p]]

IInv == ChainOK /\ Shape /\ \A p \in Plugin : PluginOK(p)

-----------------------------------------------------------------------------
(* Accounts and addresses.                                                 *)

(* What the unpack functions make of the accounts there are                *)
(* (subscription_state.rs), and which of those accounts differ.            *)
LEMMA AccountFacts ==
    /\ \A i \in Int : UnpackAuthority(AuthorityAccount(i)) = [ok |-> TRUE, init_id |-> i, error |-> "none"]
    /\ \A i \in Int : UnpackDelegation(DelegationAccount(i)) = [ok |-> TRUE, init_id |-> i, error |-> "none"]
    /\ \A i \in Int : AuthorityAccount(i) \notin {Null, Emptied} /\ DelegationAccount(i) # Null
    /\ \A i \in Int : DelegationAccount(i).init_id = i /\ AuthorityAccount(i).init_id = i
    /\ ~UnpackAuthority(Null).ok /\ ~UnpackAuthority(Emptied).ok
    /\ ~UnpackDelegation(Null).ok /\ \A d \in ForeignAccounts : ~UnpackDelegation(d).ok
    /\ Emptied # Null /\ Null \notin ForeignAccounts
BY DEF UnpackAuthority, UnpackDelegation, Unpack, AuthorityAccount, DelegationAccount, Null, Emptied,
       ForeignAccounts, Account, SUBSCRIPTION_AUTHORITY_LEN, RECURRING_DELEGATION_LEN,
       DISCRIMINATOR_SUBSCRIPTION_AUTHORITY, DISCRIMINATOR_RECURRING_DELEGATION

(* The program takes an authority for live when it is one.                 *)
LEMMA LiveFacts ==
    ASSUME NEW accounts, NEW address, NEW next \in Nat, accounts[address] \in AuthorityStates(next)
    PROVE  /\ Live(accounts, address)
                => \E i \in 1 .. next - 1 : accounts[address] = AuthorityAccount(i)
           /\ ~Live(accounts, address) => accounts[address] \in {Null, Emptied}
           /\ accounts[address] \in {Null, Emptied} => ~Live(accounts, address)
BY DEF Live, AuthorityStates, AuthorityAccount, Null, Emptied, Account,
       SUBSCRIPTION_AUTHORITY_LEN

(* No address is both an authority's and a delegation's; both are          *)
(* injective in what they are derived from (the two *_pda functions).      *)
LEMMA AddressFacts ==
    ASSUME NEW j \in Jobs, NEW k \in Jobs
    PROVE  /\ AuthorityOf(j) \in Addresses /\ DelegationOf(j) \in Addresses
           /\ AuthorityOf(j) # DelegationOf(k)
           /\ DelegationOf(j) = DelegationOf(k) => AuthorityOf(j) = AuthorityOf(k)
<1>1. AuthorityOf(j) \in Addresses /\ DelegationOf(j) \in Addresses
  BY DEF Addresses
<1>2. AuthorityOf(j) # DelegationOf(k)
  BY DEF AuthorityOf, DelegationOf, SubscriptionAuthorityPda, RecurringDelegationPda
<1>3. DelegationOf(j) = DelegationOf(k) => AuthorityOf(j) = AuthorityOf(k)
  BY DEF DelegationOf, RecurringDelegationPda
<1> QED BY <1>1, <1>2, <1>3

(* States at an address stay states when more ids have been handed out.    *)
LEMMA StatesGrow ==
    ASSUME NEW a \in Nat, NEW b \in Nat, a <= b, b <= MaxBanks
    PROVE  /\ AuthorityStates(a) \subseteq AuthorityStates(b)
           /\ DelegationStates(a) \subseteq DelegationStates(b)
           /\ AuthorityStates(b) \subseteq Accounts /\ DelegationStates(b) \subseteq Accounts
<1>1. 1 .. a - 1 \subseteq 1 .. b - 1 /\ 1 .. b - 1 \subseteq InitIds
  BY JobsAssumption DEF InitIds
<1> QED BY <1>1 DEF AuthorityStates, DelegationStates, Accounts

-----------------------------------------------------------------------------
(* The chain.                                                              *)

(* Appending a bank that follows the last one.                             *)
LEMMA ChainGrows ==
    ASSUME ChainOK, NEW bank, Follows(Bank, bank), Append1(bank), bank.next <= Len(chain) + 1
    PROVE  /\ ChainOK' /\ Len(chain') = Len(chain) + 1
           /\ \A n \in 1 .. Len(chain) : chain'[n] = chain[n]
           /\ Bank' = bank
<1> DEFINE B == [accounts : [Addresses -> Accounts], next : InitIds]
           l == Len(chain)
<1>1. chain \in Seq(B) /\ l \in Nat /\ l >= 1 /\ bank \in B /\ BankOK(bank) /\ MaxBanks \in Nat
  BY JobsAssumption DEF ChainOK, Follows, BankOK
<1>2. chain' = Append(chain, bank) /\ l < MaxBanks
  BY DEF Append1
<1>3. /\ Len(chain') = l + 1 /\ chain' \in Seq(B)
      /\ \A n \in 1 .. l : chain'[n] = chain[n]
      /\ chain'[l + 1] = bank
  BY <1>1, <1>2
<1>4. Bank = chain[l] /\ Bank' = bank
  BY <1>3 DEF Bank
<1>5. \A n \in 1 .. l + 1 : BankOK(chain'[n]) /\ chain'[n].next <= n
  <2> SUFFICES ASSUME NEW n \in 1 .. l + 1 PROVE BankOK(chain'[n]) /\ chain'[n].next <= n
    OBVIOUS
  <2>1. CASE n \in 1 .. l
    <3>1. BankOK(chain[n]) /\ chain[n].next <= n
      BY <2>1 DEF ChainOK
    <3> QED BY <1>3, <2>1, <3>1
  <2>2. CASE n = l + 1
    BY <1>1, <1>3, <2>2
  <2> QED BY <1>1, <2>1, <2>2
<1>6. \A n \in 1 .. l + 1 : chain'[n].next \in Nat
  BY <1>5 DEF BankOK, InitIds
<1>7. \A n \in 1 .. l : chain[n].next <= Bank.next /\ chain[n].next \in Nat
  BY <1>1, <1>4, <1>6, <1>3 DEF ChainOK
<1>8. bank.next \in {Bank.next, Bank.next + 1} /\ Bank.next \in Nat
  BY <1>1, <1>4, <1>7 DEF Follows
<1>9. \A n, m \in 1 .. l + 1 : n <= m => chain'[n].next <= chain'[m].next
  <2> SUFFICES ASSUME NEW n \in 1 .. l + 1, NEW m \in 1 .. l + 1, n <= m
               PROVE  chain'[n].next <= chain'[m].next
    OBVIOUS
  <2>1. CASE m <= l
    BY <1>1, <1>3, <2>1 DEF ChainOK
  <2>2. CASE m = l + 1
    BY <1>1, <1>3, <1>7, <1>8, <2>2
  <2> QED BY <1>1, <2>1, <2>2
<1>10. ASSUME NEW n \in 1 .. l + 1, NEW m \in 1 .. l + 1, NEW j \in Jobs, NEW i \in Nat,
              n <= m, i < chain'[n].next,
              chain'[m].accounts[AuthorityOf(j)] = AuthorityAccount(i)
       PROVE  chain'[n].accounts[AuthorityOf(j)] = AuthorityAccount(i)
  <2>1. CASE m <= l
    BY <1>1, <1>3, <1>10, <2>1 DEF ChainOK
  <2>2. CASE n = l + 1
    BY <1>1, <1>10, <2>2
  <2>3. CASE n <= l /\ m = l + 1
    <3>1. i < chain[n].next /\ i < Bank.next
      BY <1>1, <1>3, <1>7, <1>8, <1>10, <2>3
    <3>2. bank.accounts[AuthorityOf(j)] = AuthorityAccount(i)
      BY <1>3, <1>10, <2>3
    <3>3. AuthorityAccount(i) \notin {Null, Emptied}
      BY AccountFacts
    <3>4. AuthorityAccount(i) # AuthorityAccount(Bank.next)
      BY <1>8, <3>1, AccountFacts
    <3>5. Bank.accounts[AuthorityOf(j)] = AuthorityAccount(i)
      BY <3>2, <3>3, <3>4 DEF Follows
    <3>6. chain[n].accounts[AuthorityOf(j)] = AuthorityAccount(i)
      BY <1>1, <1>4, <2>3, <3>1, <3>5 DEF ChainOK
    <3> QED BY <1>3, <2>3, <3>6
  <2> QED BY <1>1, <2>1, <2>2, <2>3
<1>11. ChainOK'
  BY <1>1, <1>2, <1>3, <1>5, <1>9, <1>10 DEF ChainOK
<1> QED BY <1>3, <1>4, <1>11

(* A bank without ids beyond its own, changed at one address.              *)
LEMMA OneChange ==
    ASSUME NEW old, BankOK(old), NEW address \in Addresses, NEW account \in Accounts,
           \A j \in Jobs : address = AuthorityOf(j) => account \in {Null, Emptied},
           \A j \in Jobs : address = DelegationOf(j) => account \in DelegationStates(old.next)
    PROVE  /\ Follows(old, [old EXCEPT !.accounts[address] = account])
           /\ [old EXCEPT !.accounts[address] = account].next = old.next
           /\ \A b \in Addresses : [old EXCEPT !.accounts[address] = account].accounts[b]
                                  = IF b = address THEN account ELSE old.accounts[b]
<1> DEFINE new == [old EXCEPT !.accounts[address] = account]
<1>1. old \in [accounts : [Addresses -> Accounts], next : InitIds]
  BY DEF BankOK
<1>2. /\ new \in [accounts : [Addresses -> Accounts], next : InitIds]
      /\ new.next = old.next
      /\ \A a \in Addresses : new.accounts[a] = IF a = address THEN account ELSE old.accounts[a]
  BY <1>1
<1> HIDE DEF new
<1>3. ASSUME NEW j \in Jobs
      PROVE  /\ new.accounts[AuthorityOf(j)] \in AuthorityStates(new.next)
             /\ new.accounts[DelegationOf(j)] \in DelegationStates(new.next)
             /\ \/ new.accounts[AuthorityOf(j)] = old.accounts[AuthorityOf(j)]
                \/ new.accounts[AuthorityOf(j)] \in {Null, Emptied}
  <2>1. AuthorityOf(j) \in Addresses /\ DelegationOf(j) \in Addresses
    BY AddressFacts
  <2>2. /\ old.accounts[AuthorityOf(j)] \in AuthorityStates(old.next)
        /\ old.accounts[DelegationOf(j)] \in DelegationStates(old.next)
    BY DEF BankOK
  <2>3. {Null, Emptied} \subseteq AuthorityStates(old.next)
    BY DEF AuthorityStates
  <2> QED BY <1>2, <2>1, <2>2, <2>3
<1>4. Follows(old, new)
  BY <1>2, <1>3 DEF Follows, BankOK
<1> QED BY <1>2, <1>4, <1>1 DEF new

(* InitSubscriptionAuthority: nothing changes, or an id is handed out.     *)
LEMMA Opening ==
    ASSUME NEW old, BankOK(old), NEW j \in Jobs, old.next < MaxBanks
    PROVE  LET new == AfterInit(old, AuthorityOf(j)) IN
           /\ BankOK(new) /\ Follows(old, new)
           /\ new.next \in {old.next, old.next + 1}
           /\ \E i \in 1 .. new.next - 1 : new.accounts[AuthorityOf(j)] = AuthorityAccount(i)
           /\ Live(old.accounts, AuthorityOf(j)) => new = old
           /\ \A k \in Jobs : new.accounts[DelegationOf(k)] = old.accounts[DelegationOf(k)]
<1> DEFINE a == AuthorityOf(j)
           new == AfterInit(old, a)
<1>1. /\ old \in [accounts : [Addresses -> Accounts], next : InitIds]
      /\ old.next \in Nat /\ old.next >= 1 /\ MaxBanks \in Nat
      /\ a \in Addresses /\ old.accounts[a] \in AuthorityStates(old.next)
  BY JobsAssumption, AddressFacts DEF BankOK, InitIds
<1>2. CASE Live(old.accounts, a)
  <2>1. new = old
    BY <1>2 DEF AfterInit
  <2>2. \E i \in 1 .. old.next - 1 : old.accounts[a] = AuthorityAccount(i)
    BY <1>1, <1>2, LiveFacts
  <2>3. Follows(old, old)
    BY DEF Follows
  <2> QED BY <2>1, <2>2, <2>3, <1>2
<1>3. CASE ~Live(old.accounts, a)
  <2>1. new = [accounts |-> [old.accounts EXCEPT ![a] = AuthorityAccount(old.next)],
               next |-> old.next + 1]
    BY <1>3 DEF AfterInit
  <2>2. AuthorityAccount(old.next) \in Accounts /\ old.next + 1 \in InitIds
    BY <1>1 DEF Accounts, InitIds
  <2>3. /\ new \in [accounts : [Addresses -> Accounts], next : InitIds]
        /\ new.next = old.next + 1
        /\ \A b \in Addresses :
              new.accounts[b] = IF b = a THEN AuthorityAccount(old.next) ELSE old.accounts[b]
    BY <1>1, <2>1, <2>2
  <2> HIDE DEF new
  <2>4. /\ AuthorityStates(old.next) \subseteq AuthorityStates(new.next)
        /\ DelegationStates(old.next) \subseteq DelegationStates(new.next)
    <3>1. old.next + 1 <= MaxBanks
      BY <1>1
    <3> QED BY <1>1, <2>3, <3>1, StatesGrow
  <2>5. AuthorityAccount(old.next) \in AuthorityStates(new.next)
    BY <1>1, <2>3 DEF AuthorityStates
  <2>6. ASSUME NEW k \in Jobs
        PROVE  /\ new.accounts[AuthorityOf(k)] \in AuthorityStates(new.next)
               /\ new.accounts[DelegationOf(k)] \in DelegationStates(new.next)
               /\ new.accounts[DelegationOf(k)] = old.accounts[DelegationOf(k)]
               /\ \/ new.accounts[AuthorityOf(k)] = old.accounts[AuthorityOf(k)]
                  \/ new.accounts[AuthorityOf(k)] = AuthorityAccount(old.next)
    <3>1. /\ AuthorityOf(k) \in Addresses /\ DelegationOf(k) \in Addresses
          /\ DelegationOf(k) # a
      BY AddressFacts
    <3>2. /\ old.accounts[AuthorityOf(k)] \in AuthorityStates(old.next)
          /\ old.accounts[DelegationOf(k)] \in DelegationStates(old.next)
      BY DEF BankOK
    <3> QED BY <2>3, <2>4, <2>5, <3>1, <3>2
  <2>7. BankOK(new) /\ Follows(old, new)
    BY <2>3, <2>6 DEF BankOK, Follows
  <2>8. old.next \in 1 .. new.next - 1 /\ new.accounts[a] = AuthorityAccount(old.next)
    BY <1>1, <2>3
  <2> QED BY <1>3, <2>3, <2>6, <2>7, <2>8 DEF new
<1> QED BY <1>2, <1>3

-----------------------------------------------------------------------------
(* What plugins build.                                                     *)

(* The instructions of what was built name the job's own two accounts.     *)
LEMMA BuiltFacts ==
    ASSUME NEW j \in Jobs, NEW t, NEW d, NEW a, Built(t, j, d, a)
    PROVE  /\ t # <<>>
           /\ Last(t).op \in {"create", "transfer"}
           /\ Last(t).authority = AuthorityOf(j) /\ Last(t).delegation = DelegationOf(j)
           /\ t[1].op = "init" => t[1].authority = AuthorityOf(j)
           /\ Last(t).op = "transfer" =>
                 /\ t[1].op # "init"
                 /\ \E i \in Nat \ {0} : d = DelegationAccount(i) /\ a = AuthorityAccount(i)
           /\ Last(t).op = "create" =>
                 /\ d = Null
                 /\ \/ a = Null /\ t[1].op = "init" /\ Last(t).expected = UNKNOWN_INIT_ID
                    \/ \E i \in Nat \ {0} : a = AuthorityAccount(i) /\ Last(t).expected = i
<1> DEFINE init       == InitializeSubscriptionAuthority(j.user, j.mint)
           create(id) == CreateRecurringDelegation(j.user, j.delegatee, j.mint, j.nonce, id)
           transfer   == TransferRecurring(DelegationOf(j), j.user, j.mint)
<1>1. init.op = "init" /\ init.authority = AuthorityOf(j)
  BY DEF InitializeSubscriptionAuthority, AuthorityOf
<1>2. \A id : /\ create(id).op = "create" /\ create(id).authority = AuthorityOf(j)
              /\ create(id).delegation = DelegationOf(j) /\ create(id).expected = id
  BY DEF CreateRecurringDelegation, AuthorityOf, DelegationOf
<1>3. /\ transfer.op = "transfer" /\ transfer.authority = AuthorityOf(j)
      /\ transfer.delegation = DelegationOf(j)
  BY DEF TransferRecurring, AuthorityOf
<1>4. \/ d = Null /\ a = Null /\ t = <<init, create(UNKNOWN_INIT_ID)>>
      \/ /\ d = Null
         /\ \E i \in Nat \ {0} :
               a = AuthorityAccount(i) /\ t \in {<<create(i)>>, <<init, create(i)>>}
      \/ \E i \in Nat \ {0} :
            d = DelegationAccount(i) /\ a = AuthorityAccount(i) /\ t = <<transfer>>
  BY DEF Built
<1> HIDE DEF init, create, transfer
<1>5. CASE d = Null /\ a = Null /\ t = <<init, create(UNKNOWN_INIT_ID)>>
  <2>1. t # <<>> /\ t[1] = init /\ Last(t) = create(UNKNOWN_INIT_ID)
    BY <1>5 DEF Last
  <2> QED BY <1>1, <1>2, <1>5, <2>1
<1>6. ASSUME NEW i \in Nat \ {0}, d = Null, a = AuthorityAccount(i),
             t \in {<<create(i)>>, <<init, create(i)>>}
      PROVE  /\ t # <<>> /\ Last(t) = create(i) /\ t[1] \in {init, create(i)}
  <2>1. CASE t = <<create(i)>>
    BY <2>1 DEF Last
  <2>2. CASE t = <<init, create(i)>>
    BY <2>2 DEF Last
  <2> QED BY <1>6, <2>1, <2>2
<1>7. ASSUME NEW i \in Nat \ {0}, d = Null, a = AuthorityAccount(i),
             t \in {<<create(i)>>, <<init, create(i)>>}
      PROVE  /\ t # <<>> /\ Last(t).op = "create" /\ Last(t).expected = i
             /\ Last(t).authority = AuthorityOf(j) /\ Last(t).delegation = DelegationOf(j)
             /\ t[1].op = "init" => t[1].authority = AuthorityOf(j)
  BY <1>1, <1>2, <1>6, <1>7
<1>8. ASSUME NEW i \in Nat \ {0}, d = DelegationAccount(i), a = AuthorityAccount(i), t = <<transfer>>
      PROVE  t # <<>> /\ Last(t) = transfer /\ t[1] = transfer
  BY <1>8 DEF Last
<1> QED BY <1>3, <1>4, <1>5, <1>7, <1>8

(* What the accounts it was built from still allow, the program accepts    *)
(* (subscriptions.rs, UNKNOWN_INIT_ID).                                    *)
LEMMA Honoured ==
    ASSUME NEW j \in Jobs, NEW t, NEW bank, BankOK(bank),
           Built(t, j, bank.accounts[DelegationOf(j)], bank.accounts[AuthorityOf(j)])
    PROVE  Accepts(bank, Prepared(bank, t), Last(t))
<1> DEFINE A     == AuthorityOf(j)
           D     == DelegationOf(j)
           a     == bank.accounts[A]
           d     == bank.accounts[D]
           ready == Prepared(bank, t)
           ix    == Last(t)
<1>1. /\ ix.authority = A /\ ix.delegation = D /\ ix.op \in {"create", "transfer"}
      /\ t[1].op = "init" => t[1].authority = A
      /\ ix.op = "transfer" =>
            /\ t[1].op # "init"
            /\ \E i \in Nat \ {0} : d = DelegationAccount(i) /\ a = AuthorityAccount(i)
      /\ ix.op = "create" =>
            /\ d = Null
            /\ \/ a = Null /\ t[1].op = "init" /\ ix.expected = UNKNOWN_INIT_ID
               \/ \E i \in Nat \ {0} : a = AuthorityAccount(i) /\ ix.expected = i
  BY BuiltFacts
<1>2. /\ bank \in [accounts : [Addresses -> Accounts], next : InitIds]
      /\ A \in Addresses /\ D \in Addresses /\ A # D
  BY AddressFacts DEF BankOK
<1>3. \A i \in Int : AuthorityAccount(i).len = SUBSCRIPTION_AUTHORITY_LEN
  BY DEF AuthorityAccount, Account
<1> SUFFICES Accepts(bank, ready, ix)
  OBVIOUS
<1> HIDE DEF ix, ready
<1>4. CASE \E i \in Nat \ {0} : a = AuthorityAccount(i)
  <2>1. PICK i \in Nat \ {0} : a = AuthorityAccount(i)
    BY <1>4
  <2>2. Live(bank.accounts, A)
    BY <1>3, <2>1 DEF Live
  <2>3. ready = bank
    BY <1>1, <2>2 DEF Prepared, AfterInit, ready
  <2>4. a.init_id = i
    BY <2>1, AccountFacts
  <2>5. CASE ix.op = "transfer"
    <3>1. d = DelegationAccount(i)
      BY <1>1, <2>1, <2>4, <2>5, AccountFacts
    <3> QED BY <1>1, <2>2, <2>3, <2>4, <2>5, <3>1 DEF Accepts
  <2>6. CASE ix.op = "create"
    <3>1. d = Null /\ ix.expected = i /\ i # UNKNOWN_INIT_ID
      BY <1>1, <2>1, <2>4, <2>6, AccountFacts DEF UNKNOWN_INIT_ID
    <3> QED BY <1>1, <2>2, <2>3, <2>4, <2>6, <3>1 DEF Accepts, Expected
  <2> QED BY <1>1, <2>5, <2>6
<1>5. CASE ix.op = "create" /\ a = Null /\ d = Null /\ t[1].op = "init" /\ ix.expected = UNKNOWN_INIT_ID
  <2>1. ~Live(bank.accounts, A)
    BY <1>5 DEF Live, Null, Account, SUBSCRIPTION_AUTHORITY_LEN
  <2>2. ready = [accounts |-> [bank.accounts EXCEPT ![A] = AuthorityAccount(bank.next)],
                 next |-> bank.next + 1]
    BY <1>1, <1>5, <2>1 DEF Prepared, AfterInit, ready
  <2>3. ready.accounts[A] = AuthorityAccount(bank.next) /\ ready.accounts[D] = d
    BY <1>2, <2>2
  <2>4. Live(ready.accounts, A)
    BY <1>2, <1>3, <2>3 DEF Live, InitIds
  <2> QED BY <1>1, <1>5, <2>1, <2>3, <2>4 DEF Accepts, Expected
<1>6. ix.op = "transfer" => \E i \in Nat \ {0} : a = AuthorityAccount(i)
  BY <1>1
<1> QED BY <1>1, <1>4, <1>5, <1>6

(* What a plugin decides (a plugin over both unpack functions).            *)
LEMMA Deciding ==
    ASSUME NEW p \in Plugin, Shape, NEW next \in Nat, NEW d \in DelegationStates(next),
           NEW a \in AuthorityStates(next), Decide(p, d, a)
    PROVE  \/ pc' = [pc EXCEPT ![p] = "error"] /\ tx' = tx
           \/ /\ pc' = [pc EXCEPT ![p] = "waiting"]
              /\ \E t : tx' = [tx EXCEPT ![p] = t] /\ Built(t, job[p], d, a)
           \/ /\ pc' = [pc EXCEPT ![p] = "stale"] /\ tx' = tx
              /\ \E i \in 1 .. next - 1 : d = DelegationAccount(i) /\ a # AuthorityAccount(i)
<1> DEFINE j          == job[p]
           init       == InitializeSubscriptionAuthority(j.user, j.mint)
           create(id) == CreateRecurringDelegation(j.user, j.delegatee, j.mint, j.nonce, id)
           transfer   == TransferRecurring(DelegationOf(j), j.user, j.mint)
           authority  == UnpackAuthority(a)
           delegation == UnpackDelegation(d)
           built(t)   == pc' = [pc EXCEPT ![p] = "waiting"] /\ tx' = [tx EXCEPT ![p] = t]
<1>1. \/ pc' = [pc EXCEPT ![p] = "error"] /\ tx' = tx
      \/ d = Null /\ a = Null /\ built(<<init, create(UNKNOWN_INIT_ID)>>)
      \/ d = Null /\ a # Null /\ authority.ok /\ built(<<create(authority.init_id)>>)
      \/ d = Null /\ a # Null /\ authority.ok /\ built(<<init, create(authority.init_id)>>)
      \/ delegation.ok /\ authority.ok /\ delegation.init_id = authority.init_id /\ built(<<transfer>>)
      \/ /\ pc' = [pc EXCEPT ![p] = "stale"] /\ tx' = tx /\ delegation.ok
         /\ a = Null \/ (authority.ok /\ delegation.init_id # authority.init_id)
  BY DEF Decide, Pinned
<1>2. authority.ok => \E i \in 1 .. next - 1 : a = AuthorityAccount(i) /\ authority.init_id = i
  BY AccountFacts DEF AuthorityStates
<1>3. delegation.ok => \E i \in 1 .. next - 1 : d = DelegationAccount(i) /\ delegation.init_id = i
  BY AccountFacts DEF DelegationStates
<1>4. \A i \in 1 .. next - 1 : i \in Nat \ {0}
  OBVIOUS
<1>5. CASE d = Null /\ a = Null /\ built(<<init, create(UNKNOWN_INIT_ID)>>)
  BY <1>5 DEF Built
<1>6. CASE d = Null /\ authority.ok /\ built(<<create(authority.init_id)>>)
  BY <1>2, <1>4, <1>6 DEF Built
<1>7. CASE d = Null /\ authority.ok /\ built(<<init, create(authority.init_id)>>)
  BY <1>2, <1>4, <1>7 DEF Built
<1>8. CASE delegation.ok /\ authority.ok /\ delegation.init_id = authority.init_id /\ built(<<transfer>>)
  BY <1>2, <1>3, <1>4, <1>8 DEF Built
<1>9. CASE /\ pc' = [pc EXCEPT ![p] = "stale"] /\ tx' = tx /\ delegation.ok
           /\ a = Null \/ (authority.ok /\ delegation.init_id # authority.init_id)
  <2>1. PICK i \in 1 .. next - 1 : d = DelegationAccount(i) /\ delegation.init_id = i
    BY <1>3, <1>9
  <2>2. a # AuthorityAccount(i)
    BY <1>9, <2>1, AccountFacts
  <2> QED BY <1>9, <2>1, <2>2
<1> QED BY <1>1, <1>5, <1>6, <1>7, <1>8, <1>9

-----------------------------------------------------------------------------
(* The steps.                                                              *)

(* The chain as it is, or with one more bank.                              *)
Grown ==
    /\ ChainOK'
    /\ Len(chain) <= Len(chain')
    /\ \A n \in 1 .. Len(chain) : chain'[n] = chain[n]
    /\ Follows(Bank, Bank')

SamePlugin(p) ==
    /\ at'[p] = at[p] /\ found'[p] = found[p] /\ tx'[p] = tx[p] /\ pc'[p] = pc[p]

(* The last bank is one of the chain's.                                    *)
LEMMA LastBank ==
    ASSUME ChainOK
    PROVE  /\ BankOK(Bank) /\ Bank.next \in Nat /\ Bank.next >= 1 /\ Bank.next <= Len(chain)
           /\ Bank = chain[Len(chain)] /\ Len(chain) \in 1 .. MaxBanks /\ MaxBanks \in Nat
           /\ \A n \in 1 .. Len(chain) :
                 BankOK(chain[n]) /\ chain[n].next \in Nat /\ chain[n].next <= Bank.next
           /\ Bank.next <= MaxBanks
<1>1. Len(chain) \in 1 .. MaxBanks /\ MaxBanks \in Nat /\ Len(chain) \in Nat
  BY JobsAssumption DEF ChainOK
<1>2. \A n \in 1 .. Len(chain) : BankOK(chain[n]) /\ chain[n].next \in InitIds /\ chain[n].next <= n
  BY DEF ChainOK, BankOK
<1>3. \A n \in 1 .. Len(chain) : chain[n].next <= chain[Len(chain)].next
  BY <1>1 DEF ChainOK
<1> QED BY <1>1, <1>2, <1>3 DEF Bank, InitIds

(* A chain that stays as it is has grown by nothing.                       *)
LEMMA NotGrown == ASSUME ChainOK, UNCHANGED chain PROVE Grown
<1>1. BankOK(Bank) /\ Bank' = Bank
  BY LastBank DEF Bank
<1>2. Follows(Bank, Bank')
  BY <1>1 DEF Follows
<1>3. ChainOK' /\ Len(chain) \in Nat
  BY DEF ChainOK
<1> QED BY <1>2, <1>3 DEF Grown

(* What a plugin knows stays true when the chain grows.                    *)
LEMMA Kept ==
    ASSUME IInv, Grown, UNCHANGED job, NEW p \in Plugin,
           at'[p] = at[p], found'[p] = found[p], tx'[p] = tx[p]
    PROVE  /\ at'[p] \in 1 .. Len(chain') /\ chain'[at[p]] = chain[at[p]]
           /\ Planned(p) => Planned(p)'
           /\ Orphaned(p) => Orphaned(p)'
           /\ Changed(p) => Changed(p)'
<1>1. /\ ChainOK /\ PluginOK(p) /\ at[p] \in 1 .. Len(chain) /\ job[p] \in Jobs
      /\ Len(chain) \in Nat
  BY LastBank DEF IInv, PluginOK, Shape
<1>2. /\ Len(chain') \in Nat /\ Len(chain) <= Len(chain')
      /\ \A n \in 1 .. Len(chain) : chain'[n] = chain[n]
  <2>1. Len(chain') \in 1 .. MaxBanks
    BY DEF Grown, ChainOK
  <2> QED BY <2>1 DEF Grown
<1>3. at'[p] \in 1 .. Len(chain') /\ chain'[at[p]] = chain[at[p]]
  BY <1>1, <1>2
<1>4. \A m \in at[p] .. Len(chain) : m \in at[p] .. Len(chain') /\ chain'[m] = chain[m]
  BY <1>1, <1>2
<1>5. Planned(p) => Planned(p)'
  <2> SUFFICES ASSUME Planned(p) PROVE Planned(p)'
    OBVIOUS
  <2>1. PICK m \in at[p] .. Len(chain) :
          Built(tx[p], job[p], found[p], chain[m].accounts[AuthorityOf(job[p])])
    BY DEF Planned
  <2>2. m \in at'[p] .. Len(chain')
        /\ Built(tx'[p], job'[p], found'[p], chain'[m].accounts[AuthorityOf(job'[p])])
    BY <1>4, <2>1
  <2>3. found'[p] = chain'[at'[p]].accounts[DelegationOf(job'[p])]
    BY <1>3 DEF Planned
  <2> QED BY <2>2, <2>3 DEF Planned
<1>6. Orphaned(p) => Orphaned(p)'
  <2> SUFFICES ASSUME Orphaned(p) PROVE Orphaned(p)'
    OBVIOUS
  <2>1. PICK i \in 1 .. Bank.next - 1 :
          /\ found[p] = DelegationAccount(i)
          /\ Bank.accounts[AuthorityOf(job[p])] # AuthorityAccount(i)
    BY DEF Orphaned
  <2>2. Bank.next \in Nat /\ i \in Nat /\ i < Bank.next
    BY <1>1, LastBank
  <2>3. AuthorityAccount(i) # AuthorityAccount(Bank.next) /\ AuthorityAccount(i) \notin {Null, Emptied}
    BY <2>2, AccountFacts
  <2>4. Follows(Bank, Bank')
    BY DEF Grown
  <2>5. Bank'.accounts[AuthorityOf(job[p])] # AuthorityAccount(i)
    BY <1>1, <2>1, <2>3, <2>4 DEF Follows
  <2>6. i \in 1 .. Bank'.next - 1
    BY <2>1, <2>2, <2>4 DEF Follows
  <2> QED BY <2>1, <2>5, <2>6 DEF Orphaned
<1>7. Changed(p) => Changed(p)'
  <2> SUFFICES ASSUME Changed(p) PROVE Changed(p)'
    OBVIOUS
  <2>1. PICK n \in at[p] .. Len(chain), address \in {AuthorityOf(job[p]), DelegationOf(job[p])} :
          chain[n].accounts[address] # chain[at[p]].accounts[address]
    BY DEF Changed
  <2>2. n \in at'[p] .. Len(chain') /\ chain'[n].accounts[address] # chain'[at'[p]].accounts[address]
    BY <1>3, <1>4, <2>1
  <2> QED BY <2>1, <2>2 DEF Changed
<1> QED BY <1>3, <1>5, <1>6, <1>7

(* A plugin that does nothing keeps its part of the invariant.             *)
LEMMA Bystander ==
    ASSUME IInv, Grown, UNCHANGED job, NEW p \in Plugin, SamePlugin(p)
    PROVE  PluginOK(p)'
<1>1. /\ at'[p] = at[p] /\ found'[p] = found[p] /\ tx'[p] = tx[p] /\ pc'[p] = pc[p] /\ job'[p] = job[p]
  BY DEF SamePlugin
<1>2. PluginOK(p)
  BY DEF IInv
<1> QED BY <1>1, <1>2, Kept DEF PluginOK

(* The invariant holds initially.                                          *)
LEMMA InitIInv == Init => IInv
<1> SUFFICES ASSUME Init PROVE IInv
  OBVIOUS
<1> DEFINE b == [accounts |-> [a \in Addresses |-> Null], next |-> 1]
<1>1. chain = <<b>> /\ MaxBanks \in Nat /\ MaxBanks >= 1
  BY JobsAssumption DEF Init
<1>2. Null \in Accounts /\ 1 \in InitIds
  BY <1>1 DEF Accounts, InitIds
<1>3. b \in [accounts : [Addresses -> Accounts], next : InitIds] /\ b.next = 1
      /\ \A a \in Addresses : b.accounts[a] = Null
  BY <1>2
<1> HIDE DEF b
<1>4. BankOK(b)
  <2>1. \A j \in Jobs : AuthorityOf(j) \in Addresses /\ DelegationOf(j) \in Addresses
    BY AddressFacts
  <2> QED BY <1>3, <2>1 DEF BankOK, AuthorityStates, DelegationStates
<1>5. Len(chain) = 1 /\ chain[1] = b /\ chain \in Seq([accounts : [Addresses -> Accounts], next : InitIds])
  BY <1>1, <1>3
<1>6. ChainOK
  BY <1>1, <1>3, <1>4, <1>5 DEF ChainOK
<1>7. Shape
  BY <1>1, <1>2 DEF Init, Shape
<1>8. \A p \in Plugin : PluginOK(p)
  BY <1>2, <1>5 DEF Init, PluginOK
<1> QED BY <1>6, <1>7, <1>8 DEF IInv

(* What the last bank holds at a job's two addresses.                      *)
LEMMA Reading ==
    ASSUME ChainOK, NEW j \in Jobs, NEW n \in 1 .. Len(chain)
    PROVE  /\ chain[n].accounts[DelegationOf(j)] \in DelegationStates(Bank.next)
           /\ chain[n].accounts[AuthorityOf(j)] \in AuthorityStates(Bank.next)
           /\ chain[n].accounts[DelegationOf(j)] \in Accounts
<1>1. /\ BankOK(chain[n]) /\ chain[n].next \in Nat /\ Bank.next \in Nat
      /\ chain[n].next <= Bank.next /\ Bank.next <= MaxBanks
  BY LastBank
<1>2. /\ DelegationStates(chain[n].next) \subseteq DelegationStates(Bank.next)
      /\ AuthorityStates(chain[n].next) \subseteq AuthorityStates(Bank.next)
      /\ DelegationStates(Bank.next) \subseteq Accounts
  BY <1>1, StatesGrow
<1>3. /\ chain[n].accounts[DelegationOf(j)] \in DelegationStates(chain[n].next)
      /\ chain[n].accounts[AuthorityOf(j)] \in AuthorityStates(chain[n].next)
  BY <1>1 DEF BankOK
<1> QED BY <1>2, <1>3

(* A plugin that has both accounts, the delegation's of bank at'[p] and    *)
(* the authority's of the last one, goes where Decide sends it.            *)
LEMMA DecideStep ==
    ASSUME IInv, UNCHANGED <<chain, job>>, NEW p \in Plugin, Shape', tx[p] = <<>>,
           \A q \in Plugin \ {p} : at'[q] = at[q] /\ found'[q] = found[q],
           at'[p] \in 1 .. Len(chain),
           found'[p] = chain[at'[p]].accounts[DelegationOf(job[p])],
           Decide(p, found'[p], Bank.accounts[AuthorityOf(job[p])])
    PROVE  IInv'
<1> DEFINE d == found'[p]
           a == Bank.accounts[AuthorityOf(job[p])]
<1>1. Shape /\ ChainOK /\ Grown /\ job[p] \in Jobs
  BY NotGrown DEF IInv, Shape
<1>2. Bank.next \in Nat /\ Bank = chain[Len(chain)] /\ Len(chain) \in 1 .. Len(chain) /\ Bank' = Bank
  BY <1>1, LastBank DEF Bank
<1>3. d \in DelegationStates(Bank.next) /\ d \in Accounts
  BY <1>1, Reading
<1>4. a \in AuthorityStates(Bank.next)
  BY <1>1, <1>2, Reading
<1>5. \/ pc' = [pc EXCEPT ![p] = "error"] /\ tx' = tx
      \/ /\ pc' = [pc EXCEPT ![p] = "waiting"]
         /\ \E t : tx' = [tx EXCEPT ![p] = t] /\ Built(t, job[p], d, a)
      \/ /\ pc' = [pc EXCEPT ![p] = "stale"] /\ tx' = tx
         /\ \E i \in 1 .. Bank.next - 1 : d = DelegationAccount(i) /\ a # AuthorityAccount(i)
  BY <1>1, <1>2, <1>3, <1>4, Deciding
<1>6. \A q \in Plugin \ {p} : SamePlugin(q)
  BY <1>1, <1>5 DEF Shape, SamePlugin
<1>7. \A q \in Plugin \ {p} : PluginOK(q)'
  BY <1>1, <1>6, Bystander
<1>8. PluginOK(p)'
  <2>1. CASE pc' = [pc EXCEPT ![p] = "error"] /\ tx' = tx
    <3>1. pc'[p] = "error" /\ tx'[p] = <<>>
      BY <1>1, <2>1 DEF Shape
    <3> QED BY <1>3, <3>1 DEF PluginOK
  <2>2. ASSUME NEW t, pc' = [pc EXCEPT ![p] = "waiting"], tx' = [tx EXCEPT ![p] = t],
               Built(t, job[p], d, a)
        PROVE  PluginOK(p)'
    <3>1. pc'[p] = "waiting" /\ tx'[p] = t
      BY <1>1, <2>2 DEF Shape
    <3>2. Len(chain') \in at'[p] .. Len(chain')
          /\ Built(tx'[p], job'[p], found'[p], chain'[Len(chain')].accounts[AuthorityOf(job'[p])])
      BY <1>2, <2>2, <3>1
    <3>3. Planned(p)'
      BY <3>2 DEF Planned
    <3> QED BY <1>3, <3>1, <3>3 DEF PluginOK
  <2>3. CASE /\ pc' = [pc EXCEPT ![p] = "stale"] /\ tx' = tx
             /\ \E i \in 1 .. Bank.next - 1 : d = DelegationAccount(i) /\ a # AuthorityAccount(i)
    <3>1. pc'[p] = "stale" /\ tx'[p] = <<>>
      BY <1>1, <2>3 DEF Shape
    <3>2. Orphaned(p)'
      BY <1>2, <2>3 DEF Orphaned
    <3> QED BY <1>3, <3>1, <3>2 DEF PluginOK
  <2> QED BY <1>5, <2>1, <2>2, <2>3
<1> QED BY <1>1, <1>7, <1>8 DEF Grown, IInv

(* Reading the accounts, in two requests or in one, and starting over.     *)
LEMMA ReadStep ==
    ASSUME IInv, NEW p \in Plugin,
           FetchDelegation(p) \/ FetchAuthority(p) \/ FetchBoth(p) \/ Again(p)
    PROVE  IInv'
<1>1. /\ Shape /\ ChainOK /\ PluginOK(p) /\ job[p] \in Jobs
      /\ Len(chain) \in 1 .. Len(chain) /\ Len(chain) \in 1 .. MaxBanks /\ Bank = chain[Len(chain)]
  BY LastBank DEF IInv, Shape
<1>2. Bank.accounts[DelegationOf(job[p])] \in Accounts
  BY <1>1, Reading
<1>3. CASE FetchDelegation(p)
  <2>1. /\ pc[p] = "idle" /\ UNCHANGED <<chain, job, tx>> /\ pc' = [pc EXCEPT ![p] = "half"]
        /\ found' = [found EXCEPT ![p] = Bank.accounts[DelegationOf(job[p])]]
        /\ at' = [at EXCEPT ![p] = Len(chain)]
    BY <1>3 DEF FetchDelegation
  <2>2. Shape' /\ Grown
    BY <1>1, <1>2, <2>1, NotGrown DEF Shape
  <2>3. \A q \in Plugin \ {p} : SamePlugin(q)
    BY <1>1, <2>1 DEF Shape, SamePlugin
  <2>4. \A q \in Plugin \ {p} : PluginOK(q)'
    BY <2>1, <2>2, <2>3, Bystander
  <2>5. /\ pc'[p] = "half" /\ tx'[p] = <<>> /\ at'[p] = Len(chain)
        /\ found'[p] = chain'[at'[p]].accounts[DelegationOf(job'[p])]
    BY <1>1, <2>1 DEF Shape, PluginOK
  <2>6. PluginOK(p)'
    BY <1>1, <1>2, <2>1, <2>5 DEF PluginOK
  <2> QED BY <2>2, <2>4, <2>6 DEF IInv, Grown
<1>4. CASE FetchAuthority(p)
  <2>1. /\ pc[p] = "half" /\ UNCHANGED <<chain, job, at, found>>
        /\ Decide(p, found[p], Bank.accounts[AuthorityOf(job[p])])
    BY <1>4 DEF FetchAuthority
  <2>2. tx[p] = <<>> /\ found[p] = chain[at[p]].accounts[DelegationOf(job[p])] /\ at[p] \in 1 .. Len(chain)
    BY <1>1, <2>1 DEF PluginOK
  <2>3. Shape'
    BY <1>1, <2>1 DEF Decide, Shape
  <2> QED BY <2>1, <2>2, <2>3, DecideStep
<1>5. CASE FetchBoth(p)
  <2>1. /\ pc[p] = "idle" /\ UNCHANGED <<chain, job>>
        /\ found' = [found EXCEPT ![p] = Bank.accounts[DelegationOf(job[p])]]
        /\ at' = [at EXCEPT ![p] = Len(chain)]
        /\ Decide(p, Bank.accounts[DelegationOf(job[p])], Bank.accounts[AuthorityOf(job[p])])
    BY <1>5 DEF FetchBoth
  <2>2. tx[p] = <<>>
    BY <1>1, <2>1 DEF PluginOK
  <2>3. /\ found'[p] = Bank.accounts[DelegationOf(job[p])] /\ at'[p] = Len(chain)
        /\ \A q \in Plugin \ {p} : at'[q] = at[q] /\ found'[q] = found[q]
    BY <1>1, <2>1 DEF Shape
  <2>4. Shape'
    BY <1>1, <1>2, <2>1 DEF Decide, Shape
  <2> QED BY <1>1, <2>1, <2>2, <2>3, <2>4, DecideStep
<1>6. CASE Again(p)
  <2>1. /\ UNCHANGED <<chain, job, at, found>>
        /\ pc' = [pc EXCEPT ![p] = "idle"] /\ tx' = [tx EXCEPT ![p] = <<>>]
    BY <1>6 DEF Again
  <2>2. Shape' /\ Grown
    BY <1>1, <2>1, NotGrown DEF Shape
  <2>3. \A q \in Plugin \ {p} : SamePlugin(q)
    BY <1>1, <2>1 DEF Shape, SamePlugin
  <2>4. \A q \in Plugin \ {p} : PluginOK(q)'
    BY <2>1, <2>2, <2>3, Bystander
  <2>5. pc'[p] = "idle" /\ tx'[p] = <<>>
    BY <1>1, <2>1 DEF Shape
  <2>6. PluginOK(p)'
    BY <1>1, <2>1, <2>5 DEF PluginOK
  <2> QED BY <2>2, <2>4, <2>6 DEF IInv, Grown
<1> QED BY <1>3, <1>4, <1>5, <1>6

(* What a landing transaction makes of the accounts.                       *)
LEMMA Landing ==
    ASSUME IInv, NEW j \in Jobs, NEW t, NEW d, NEW a, Built(t, j, d, a),
           Accepts(Bank, Prepared(Bank, t), Last(t)), Len(chain) < MaxBanks
    PROVE  LET new == After(Prepared(Bank, t), Last(t)) IN
           Follows(Bank, new) /\ new.next <= Len(chain) + 1
<1> DEFINE A     == AuthorityOf(j)
           D     == DelegationOf(j)
           ready == Prepared(Bank, t)
           ix    == Last(t)
           new   == After(ready, ix)
<1>1. /\ ix.authority = A /\ ix.delegation = D /\ ix.op \in {"create", "transfer"}
      /\ t[1].op = "init" => t[1].authority = A
  BY BuiltFacts
<1>2. /\ BankOK(Bank) /\ Bank.next \in Nat /\ Bank.next >= 1 /\ Bank.next <= Len(chain)
      /\ Len(chain) \in Nat /\ Bank.next < MaxBanks /\ MaxBanks \in Nat
  <2>1. ChainOK
    BY DEF IInv
  <2> QED BY <2>1, LastBank
<1>3. BankOK(ready) /\ Follows(Bank, ready) /\ ready.next \in {Bank.next, Bank.next + 1}
  <2>1. CASE t[1].op = "init"
    <3>1. ready = AfterInit(Bank, A)
      BY <1>1, <2>1 DEF Prepared
    <3> QED BY <1>2, <3>1, Opening
  <2>2. CASE t[1].op # "init"
    <3>1. ready = Bank
      BY <2>2 DEF Prepared
    <3> QED BY <1>2, <3>1 DEF Follows
  <2> QED BY <2>1, <2>2
<1> HIDE DEF ready, ix
<1>4. CASE ix.op # "create"
  <2>1. new = ready
    BY <1>4 DEF After
  <2> QED BY <1>2, <1>3, <2>1 DEF ready, ix
<1>5. CASE ix.op = "create"
  <2> DEFINE account == DelegationAccount(ready.accounts[A].init_id)
  <2>1. new = [ready EXCEPT !.accounts[D] = account]
    BY <1>1, <1>5 DEF After
  <2>2. Live(ready.accounts, A)
    BY <1>1 DEF Accepts, ready, ix
  <2>3. PICK i \in 1 .. ready.next - 1 : ready.accounts[A] = AuthorityAccount(i)
    <3>1. ready.accounts[A] \in AuthorityStates(ready.next) /\ ready.next \in Nat
      BY <1>2, <1>3 DEF BankOK
    <3> QED BY <2>2, <3>1, LiveFacts
  <2>4. account = DelegationAccount(i)
    BY <1>2, <1>3, <2>3, AccountFacts
  <2>5. account \in DelegationStates(ready.next) /\ account \in Accounts
    <3>1. account \in DelegationStates(ready.next)
      BY <2>4 DEF DelegationStates
    <3>2. ready.next \in Nat /\ ready.next <= MaxBanks
      BY <1>2, <1>3
    <3> QED BY <3>1, <3>2, StatesGrow
  <2>6. D \in Addresses /\ \A k \in Jobs : AuthorityOf(k) \in Addresses /\ D # AuthorityOf(k)
    BY AddressFacts
  <2> HIDE DEF account, D
  <2>7. /\ Follows(ready, new) /\ new.next = ready.next
        /\ \A b \in Addresses : new.accounts[b] = IF b = D THEN account ELSE ready.accounts[b]
    BY <1>3, <2>1, <2>5, <2>6, OneChange
  <2>8. \A k \in Jobs : new.accounts[AuthorityOf(k)] = ready.accounts[AuthorityOf(k)]
    BY <2>6, <2>7
  <2>9. BankOK(new)
    BY <2>7 DEF Follows
  <2>10. Follows(Bank, new)
    BY <1>3, <2>7, <2>8, <2>9 DEF Follows
  <2> QED BY <1>2, <1>3, <2>7, <2>10 DEF ready, ix
<1> QED BY <1>4, <1>5

(* A transaction lands, or is refused because something changed.           *)
LEMMA ExecuteStep ==
    ASSUME IInv, NEW p \in Plugin, Execute(p)
    PROVE  IInv'
<1> DEFINE ready == Prepared(Bank, tx[p])
           ix    == Last(tx[p])
<1>1. /\ Shape /\ ChainOK /\ PluginOK(p) /\ job[p] \in Jobs /\ Planned(p)
      /\ pc[p] = "waiting" /\ UNCHANGED <<job, at, found, tx>>
  BY DEF IInv, Shape, PluginOK, Execute
<1>2. PICK m \in at[p] .. Len(chain) :
        Built(tx[p], job[p], found[p], chain[m].accounts[AuthorityOf(job[p])])
  BY <1>1 DEF Planned
<1>3. CASE /\ Accepts(Bank, ready, ix) /\ Append1(After(ready, ix))
           /\ pc' = [pc EXCEPT ![p] = "landed"]
  <2>1. Len(chain) < MaxBanks
    BY <1>3 DEF Append1
  <2>2. Follows(Bank, After(ready, ix)) /\ After(ready, ix).next <= Len(chain) + 1
    BY <1>1, <1>2, <1>3, <2>1, Landing
  <2>3. /\ ChainOK' /\ Len(chain') = Len(chain) + 1 /\ Bank' = After(ready, ix)
        /\ \A n \in 1 .. Len(chain) : chain'[n] = chain[n]
    BY <1>1, <1>3, <2>2, ChainGrows
  <2>4. Grown
    <3>1. Len(chain) \in Nat
      BY <1>1 DEF ChainOK
    <3> QED BY <2>2, <2>3, <3>1 DEF Grown
  <2>5. Shape' /\ pc'[p] = "landed" /\ \A q \in Plugin \ {p} : SamePlugin(q)
    BY <1>1, <1>3 DEF Shape, SamePlugin
  <2>6. \A q \in Plugin \ {p} : PluginOK(q)'
    BY <1>1, <2>4, <2>5, Bystander
  <2>7. at'[p] \in 1 .. Len(chain') /\ Planned(p)'
    BY <1>1, <2>4, Kept
  <2>8. PluginOK(p)'
    BY <1>1, <2>5, <2>7 DEF PluginOK
  <2> QED BY <2>3, <2>5, <2>6, <2>8 DEF IInv
<1>4. CASE ~Accepts(Bank, ready, ix) /\ pc' = [pc EXCEPT ![p] = "refused"] /\ UNCHANGED chain
  <2>1. Grown
    BY <1>1, <1>4, NotGrown
  <2>2. Shape' /\ pc'[p] = "refused" /\ \A q \in Plugin \ {p} : SamePlugin(q)
    BY <1>1, <1>4 DEF Shape, SamePlugin
  <2>3. \A q \in Plugin \ {p} : PluginOK(q)'
    BY <1>1, <2>1, <2>2, Bystander
  <2>4. Changed(p)
    <3> SUFFICES ASSUME ~Changed(p) PROVE FALSE
      OBVIOUS
    <3>1. /\ Len(chain) \in at[p] .. Len(chain) /\ Bank = chain[Len(chain)] /\ BankOK(Bank)
      <4>1. at[p] \in 1 .. Len(chain) /\ Len(chain) \in 1 .. MaxBanks
        BY <1>1, LastBank DEF PluginOK
      <4> QED BY <1>1, <4>1, LastBank
    <3>2. \A n \in at[p] .. Len(chain) :
             /\ chain[n].accounts[AuthorityOf(job[p])] = chain[at[p]].accounts[AuthorityOf(job[p])]
             /\ chain[n].accounts[DelegationOf(job[p])] = chain[at[p]].accounts[DelegationOf(job[p])]
      BY DEF Changed
    <3>3. /\ chain[m].accounts[AuthorityOf(job[p])] = Bank.accounts[AuthorityOf(job[p])]
          /\ found[p] = Bank.accounts[DelegationOf(job[p])]
      BY <1>1, <3>1, <3>2 DEF Planned
    <3>4. Accepts(Bank, ready, ix)
      BY <1>1, <1>2, <3>1, <3>3, Honoured
    <3> QED BY <1>4, <3>4
  <2>5. at'[p] \in 1 .. Len(chain') /\ Planned(p)' /\ Changed(p)'
    BY <1>1, <2>1, <2>4, Kept
  <2>6. PluginOK(p)'
    BY <1>1, <2>2, <2>5 DEF PluginOK
  <2> QED BY <2>1, <2>2, <2>3, <2>6 DEF IInv, Grown
<1> QED BY <1>3, <1>4 DEF Execute

(* The user changes an account: no plugin moves.                           *)
LEMMA Moved ==
    ASSUME IInv, NEW bank, Follows(Bank, bank), bank.next <= Len(chain) + 1, Append1(bank),
           UNCHANGED <<job, pc, at, found, tx>>
    PROVE  IInv'
<1>1. ChainOK /\ Shape
  BY DEF IInv
<1>2. /\ ChainOK' /\ Len(chain') = Len(chain) + 1 /\ Bank' = bank
      /\ \A n \in 1 .. Len(chain) : chain'[n] = chain[n]
  BY <1>1, ChainGrows
<1>3. Grown
  <2>1. Len(chain) \in Nat
    BY <1>1 DEF ChainOK
  <2> QED BY <1>2, <2>1 DEF Grown
<1>4. \A p \in Plugin : PluginOK(p)'
  BY <1>3, Bystander DEF SamePlugin
<1> QED BY <1>1, <1>2, <1>4 DEF IInv, Shape

(* Authorities are closed and made, delegations revoked and replaced.      *)
LEMMA UserStep ==
    ASSUME IInv, NEW j \in Jobs,
           CloseAuthority(j) \/ OpenAuthority(j) \/ Revoke(j) \/ DelegateOtherwise(j)
    PROVE  IInv'
<1>1. /\ ChainOK /\ BankOK(Bank) /\ Bank.next \in Nat /\ Bank.next >= 1 /\ Bank.next <= Len(chain)
      /\ Bank.next <= MaxBanks /\ Len(chain) \in Nat /\ MaxBanks \in Nat
  <2>1. ChainOK
    BY DEF IInv
  <2> QED BY <2>1, LastBank
<1>2. \A k \in Jobs : /\ AuthorityOf(k) \in Addresses /\ DelegationOf(k) \in Addresses
                      /\ AuthorityOf(j) # DelegationOf(k) /\ DelegationOf(j) # AuthorityOf(k)
  BY AddressFacts
<1>3. {Null, Emptied} \cup ForeignAccounts \subseteq Accounts
      /\ {Null} \cup ForeignAccounts \subseteq DelegationStates(Bank.next)
  BY DEF Accounts, DelegationStates
<1>4. ASSUME NEW address \in Addresses, NEW account, Set(address, account),
             \/ address = AuthorityOf(j) /\ account \in {Null, Emptied}
             \/ address = DelegationOf(j) /\ account \in {Null} \cup ForeignAccounts
      PROVE  IInv'
  <2> DEFINE bank == [Bank EXCEPT !.accounts[address] = account]
  <2>1. Append1(bank) /\ UNCHANGED <<job, pc, at, found, tx>>
    BY <1>4 DEF Set
  <2>2. /\ account \in Accounts
        /\ \A k \in Jobs : address = AuthorityOf(k) => account \in {Null, Emptied}
        /\ \A k \in Jobs : address = DelegationOf(k) => account \in DelegationStates(Bank.next)
    BY <1>2, <1>3, <1>4
  <2>3. Follows(Bank, bank) /\ bank.next = Bank.next
    BY <1>1, <2>2, OneChange
  <2> HIDE DEF bank
  <2> QED BY <1>1, <2>1, <2>3, Moved
<1>5. CASE CloseAuthority(j)
  BY <1>2, <1>4, <1>5 DEF CloseAuthority
<1>6. CASE Revoke(j)
  BY <1>2, <1>4, <1>6 DEF Revoke
<1>7. CASE DelegateOtherwise(j)
  BY <1>2, <1>4, <1>7 DEF DelegateOtherwise
<1>8. CASE OpenAuthority(j)
  <2> DEFINE bank == AfterInit(Bank, AuthorityOf(j))
  <2>1. Append1(bank) /\ UNCHANGED <<job, pc, at, found, tx>>
    BY <1>8 DEF OpenAuthority
  <2>2. Bank.next < MaxBanks
    BY <1>1, <2>1 DEF Append1
  <2>3. Follows(Bank, bank) /\ bank.next \in {Bank.next, Bank.next + 1}
    BY <1>1, <2>2, Opening
  <2> HIDE DEF bank
  <2>4. bank.next <= Len(chain) + 1
    BY <1>1, <2>3
  <2> QED BY <2>1, <2>3, <2>4, Moved
<1> QED BY <1>5, <1>6, <1>7, <1>8

(* Every step keeps the invariant.                                         *)
LEMMA NextIInv == IInv /\ [Next]_vars => IInv'
<1> SUFFICES ASSUME IInv, [Next]_vars PROVE IInv'
  OBVIOUS
<1>1. CASE Next
  BY <1>1, ReadStep, ExecuteStep, UserStep DEF Next
<1>2. CASE UNCHANGED vars
  <2>1. UNCHANGED <<chain, job, pc, at, found, tx>>
    BY <1>2 DEF vars
  <2>2. Shape' /\ Grown
    BY <2>1, NotGrown DEF IInv, Shape
  <2>3. \A p \in Plugin : PluginOK(p)'
    BY <2>1, <2>2, Bystander DEF SamePlugin
  <2> QED BY <2>2, <2>3 DEF IInv, Grown
<1> QED BY <1>1, <1>2

-----------------------------------------------------------------------------

(* Every state satisfies the invariant (subscriptions.rs and               *)
(* subscription_state.rs).                                                 *)
THEOREM Invariant == Spec => []IInv
BY InitIInv, NextIInv, PTL DEF Spec

(* What a plugin built is refused only after a change of its two accounts  *)
(* (subscriptions.rs, UNKNOWN_INIT_ID and expected init_id).               *)
THEOREM RefusalsJustified == Spec => []RefusedForCause
<1>1. IInv => RefusedForCause
  BY DEF IInv, PluginOK, Changed, RefusedForCause
<1> QED BY <1>1, Invariant, PTL

(* Two accounts whose init_ids match did work together since they were     *)
(* read, be it in two requests (SubscriptionAuthority, its comment).       *)
THEOREM MatchingIsEnough == Spec => []MatchingPairWasLive
<1>1. IInv => MatchingPairWasLive
  <2> SUFFICES ASSUME IInv, NEW p \in Plugin, tx[p] # <<>>, Last(tx[p]).op = "transfer"
               PROVE  \E n \in at[p] .. Len(chain) : Works(job[p], n, found[p].init_id)
    BY DEF MatchingPairWasLive
  <2> DEFINE j == job[p]
  <2>1. /\ ChainOK /\ PluginOK(p) /\ j \in Jobs /\ at[p] \in 1 .. Len(chain) /\ Len(chain) \in Nat
    BY LastBank DEF IInv, Shape, PluginOK
  <2>2. Planned(p)
    BY <2>1 DEF PluginOK, IInv, Shape
  <2>3. PICK m \in at[p] .. Len(chain) : Built(tx[p], j, found[p], chain[m].accounts[AuthorityOf(j)])
    BY <2>2 DEF Planned
  <2>4. PICK i \in Nat \ {0} : /\ found[p] = DelegationAccount(i)
                               /\ chain[m].accounts[AuthorityOf(j)] = AuthorityAccount(i)
    BY <2>1, <2>3, BuiltFacts
  <2>5. chain[at[p]].accounts[DelegationOf(j)] = DelegationAccount(i)
    BY <2>2, <2>4 DEF Planned
  <2>6. i < chain[at[p]].next
    <3>1. /\ chain[at[p]].accounts[DelegationOf(j)] \in DelegationStates(chain[at[p]].next)
          /\ chain[at[p]].next \in Nat
      BY <2>1, LastBank DEF BankOK
    <3>2. DelegationAccount(i) \notin ForeignAccounts \cup {Null}
      BY DEF DelegationAccount, ForeignAccounts, Account, Null, RECURRING_DELEGATION_LEN,
             DISCRIMINATOR_RECURRING_DELEGATION
    <3>3. PICK k \in 1 .. chain[at[p]].next - 1 : DelegationAccount(i) = DelegationAccount(k)
      BY <2>5, <3>1, <3>2 DEF DelegationStates
    <3>4. i = k
      BY <3>1, <3>3, AccountFacts
    <3> QED BY <3>1, <3>3, <3>4
  <2>7. chain[at[p]].accounts[AuthorityOf(j)] = AuthorityAccount(i)
    BY <2>1, <2>3, <2>4, <2>6 DEF ChainOK
  <2>8. found[p].init_id = i
    BY <2>4, AccountFacts
  <2> QED BY <2>1, <2>5, <2>7, <2>8 DEF Works
<1> QED BY <1>1, Invariant, PTL

(* A delegation found stale does not work, then or later                   *)
(* (SubscriptionAuthority, its comment).                                   *)
THEOREM StaleForGood == Spec => []StaleIsFinal
<1>1. IInv => StaleIsFinal
  <2> SUFFICES ASSUME IInv, NEW p \in Plugin, pc[p] = "stale"
               PROVE  ~Works(job[p], Len(chain), found[p].init_id)
    BY DEF StaleIsFinal
  <2>1. PICK i \in 1 .. Bank.next - 1 :
          /\ found[p] = DelegationAccount(i)
          /\ Bank.accounts[AuthorityOf(job[p])] # AuthorityAccount(i)
    BY DEF IInv, PluginOK, Orphaned
  <2>2. found[p].init_id = i
    BY <2>1, AccountFacts
  <2> QED BY <2>1, <2>2 DEF Works, Bank
<1> QED BY <1>1, Invariant, PTL

(* Accounts are of the program's kinds, and only ids handed out are        *)
(* expected of an authority (create_recurring_delegation).                 *)
THEOREM TypeCorrect == Spec => []TypeOK
<1>1. IInv => TypeOK
  <2> SUFFICES ASSUME IInv PROVE TypeOK
    OBVIOUS
  <2>1. ChainOK /\ Shape /\ Len(chain) \in 1 .. MaxBanks /\ Bank.next \in Nat
    BY LastBank DEF IInv
  <2>2. \A n \in 1 .. Len(chain) :
           chain[n].next \in InitIds /\ \A a \in Addresses : chain[n].accounts[a] \in Accounts
    BY <2>1 DEF ChainOK, BankOK
  <2>3. \A p \in Plugin : at[p] <= Len(chain) /\ found[p] \in Accounts
    BY <2>1 DEF IInv, PluginOK
  <2>4. ASSUME NEW p \in Plugin, tx[p] # <<>>, Last(tx[p]).op = "create"
        PROVE  Last(tx[p]).expected \in {UNKNOWN_INIT_ID} \cup (1 .. Bank.next - 1)
    <3>1. Planned(p) /\ at[p] \in 1 .. Len(chain) /\ job[p] \in Jobs
      BY <2>1, <2>4 DEF IInv, PluginOK, Shape
    <3>2. PICK m \in at[p] .. Len(chain) :
            Built(tx[p], job[p], found[p], chain[m].accounts[AuthorityOf(job[p])])
      BY <3>1 DEF Planned
    <3>3. chain[m].accounts[AuthorityOf(job[p])] \in AuthorityStates(Bank.next)
      <4>1. m \in 1 .. Len(chain)
        BY <2>1, <3>1, <3>2
      <4> QED BY <2>1, <3>1, <4>1, Reading
    <3>4. CASE Last(tx[p]).expected = UNKNOWN_INIT_ID
      BY <3>4
    <3>5. ASSUME NEW i \in Nat \ {0}, chain[m].accounts[AuthorityOf(job[p])] = AuthorityAccount(i),
                 Last(tx[p]).expected = i
          PROVE  i \in 1 .. Bank.next - 1
      <4>1. AuthorityAccount(i) \notin {Null, Emptied}
        BY AccountFacts
      <4>2. PICK k \in 1 .. Bank.next - 1 : AuthorityAccount(i) = AuthorityAccount(k)
        BY <3>3, <3>5, <4>1 DEF AuthorityStates
      <4>3. i = k
        BY <2>1, <4>2, AccountFacts
      <4> QED BY <4>2, <4>3
    <3> QED BY <2>4, <3>1, <3>2, <3>4, <3>5, BuiltFacts
  <2> QED BY <2>1, <2>2, <2>3, <2>4 DEF TypeOK, Shape
<1> QED BY <1>1, Invariant, PTL

=============================================================================
