------------------------- MODULE TokenPaymentProofs -------------------------
(***************************************************************************)
(* Proofs about TokenPayment, for any payments, mints, balances and        *)
(* amounts, and chains of any length.                                      *)
(***************************************************************************)
EXTENDS TokenPayment, TLAPS

Account == [owner : Wallets \cup {"none"}, amount : Int]

(* The payer's accounts stay the payer's.                                  *)
BankOK(bank) ==
    /\ bank \in [mint : MintAccounts \cup {Null}, accounts : [Addresses -> Account]]
    /\ \A a \in Addresses : a[1] = payer =>
          bank.accounts[a] = NoAccount \/ bank.accounts[a].owner = payer

(* Only a Token-2022 mint can be made again.                               *)
ChainOK ==
    /\ chain \in Seq([mint : MintAccounts \cup {Null}, accounts : [Addresses -> Account]])
    /\ Len(chain) \in 1 .. MaxBanks
    /\ \A n \in 1 .. Len(chain) : BankOK(chain[n])
    /\ \A n, m \in 1 .. Len(chain) :
          n <= m /\ chain[n].mint.owner # Token2022 => chain[m].mint = chain[n].mint

SourceOf(s) == GetAssociatedTokenAddress(payer, mint, s.owner)
AtaOf(s)    == GetAssociatedTokenAddress(payee, mint, s.owner)
AmountOf(s) == Ui * 10 ^ s.decimals

(* What a plugin builds from a mint s and the payee's account.             *)
Built(t, s, account) ==
    /\ account = NoAccount \/ account.owner = payee
    /\ \E create, transfer :
          /\ t = <<create, transfer>>
          /\ \/ create = CreateAssociatedTokenAccountIdempotent(payee, mint, s.owner)
             \/ /\ account = NoAccount
                /\ create = CreateAssociatedTokenAccount(payee, mint, s.owner)
          /\ \/ transfer = TransferChecked(SourceOf(s), mint, AtaOf(s), AmountOf(s),
                                           s.decimals, s.owner)
             \/ /\ s.owner = Token
                /\ transfer = Transfer(SourceOf(s), AtaOf(s), AmountOf(s), s.owner)

Planned(p) ==
    /\ seen[p].owner \in TokenPrograms
    /\ \E m \in at[p] .. Len(chain) :
          Built(tx[p], seen[p], chain[m].accounts[AtaOf(seen[p])])

Cause(p) ==
    \/ "hook" \in shown[p]
    \/ chain[at[p]].accounts[<<payer, seen[p].owner, mint>>].amount
         < Ui * 10 ^ seen[p].decimals
    \/ \E n \in at[p] .. Len(chain) :
          \/ chain[n].mint # chain[at[p]].mint
          \/ \E wallet \in {payer, payee} :
                LET address == <<wallet, seen[p].owner, mint>>
                IN  chain[n].accounts[address] # chain[at[p]].accounts[address]

(* Something is paid, in decimals, and the reader knows every extension;   *)
(* mints of the legacy program have none.                                  *)
Ordinary ==
    /\ \A d \in Nat : Ui * 10 ^ d > 0
    /\ \A a \in MintAccounts :
          /\ a.tlv \in Seq(KnownExtensions)
          /\ a.owner = Token => a.tlv = <<>>

PaymentOK(p) ==
    /\ at[p] \in 1 .. Len(chain)
    /\ \/ seen[p] = Null
       \/ seen[p] \in MintAccounts /\ seen[p].state = "mint" /\ shown[p] = Risks(seen[p])
    /\ pc[p] \in {"shown", "waiting", "landed", "refused"} =>
          seen[p] # Null /\ seen[p] = chain[at[p]].mint
    /\ pc[p] \in {"waiting", "landed", "refused"} => Planned(p)
    /\ pc[p] \notin {"waiting", "landed", "refused"} => tx[p] = <<>>
    /\ pc[p] = "landed" =>
          /\ tx[p][2].amount = Ui * 10 ^ executed[p].mint.decimals
          /\ executed[p].to.owner = payee
    /\ pc[p] = "refused" => (Ordinary => Cause(p))

Shape ==
    /\ pc \in [Payment -> {"idle", "shown", "waiting", "landed", "refused", "error", "panicked"}]
    /\ at \in [Payment -> 1 .. MaxBanks]
    /\ seen \in [Payment -> MintAccounts \cup {Null}]
    /\ shown \in [Payment -> SUBSET {"fee", "delegate", "hook"}]
    /\ tx = [p \in Payment |-> tx[p]]
    /\ executed = [p \in Payment |-> executed[p]]

IInv == ChainOK /\ Shape /\ \A p \in Payment : PaymentOK(p)

Grown ==
    /\ Len(chain') \in Nat /\ Len(chain') >= Len(chain)
    /\ \A n \in 1 .. Len(chain) : chain'[n] = chain[n]

SamePayment(p) ==
    /\ pc'[p] = pc[p] /\ at'[p] = at[p] /\ seen'[p] = seen[p]
    /\ shown'[p] = shown[p] /\ tx'[p] = tx[p] /\ executed'[p] = executed[p]

-----------------------------------------------------------------------------
(* Instructions and addresses.                                             *)

(* The addresses derived for a token program (get_associated_token_        *)
(* address): both exist on chain, and they differ.                         *)
LEMMA AddressFacts ==
    ASSUME NEW s, s.owner \in TokenPrograms
    PROVE  /\ SourceOf(s) \in Addresses /\ AtaOf(s) \in Addresses
           /\ SourceOf(s) = <<payer, s.owner, mint>> /\ AtaOf(s) = <<payee, s.owner, mint>>
           /\ SourceOf(s) # AtaOf(s) /\ SourceOf(s)[1] = payer /\ AtaOf(s)[1] # payer
<1>1. SourceOf(s) = <<payer, s.owner, mint>> /\ AtaOf(s) = <<payee, s.owner, mint>>
  BY DEF SourceOf, AtaOf, GetAssociatedTokenAddress
<1>2. payer # payee
  BY DEF payer, payee
<1>3. SourceOf(s) \in Addresses /\ AtaOf(s) \in Addresses
  BY DEF SourceOf, AtaOf, Addresses
<1> QED BY <1>1, <1>2, <1>3

(* The two instructions of a payment (token.rs,                            *)
(* associated_token_account.rs).                                           *)
LEMMA BuiltFacts ==
    ASSUME NEW t, NEW s, NEW account, Built(t, s, account)
    PROVE  /\ account = NoAccount \/ account.owner = payee
           /\ \/ t[1].op = "create-idempotent"
              \/ t[1].op = "create" /\ account = NoAccount
           /\ t[1].ata = AtaOf(s) /\ t[1].wallet = payee /\ t[1].program = s.owner
           /\ t[2].source = SourceOf(s) /\ t[2].destination = AtaOf(s)
           /\ t[2].amount = AmountOf(s) /\ t # <<>>
           /\ \/ /\ t[2].op = "transfer-checked"
                 /\ t[2].program = s.owner /\ t[2].decimals = s.decimals
              \/ t[2].op = "transfer" /\ s.owner = Token
<1>1. PICK create, transfer :
        /\ t = <<create, transfer>>
        /\ \/ create = CreateAssociatedTokenAccountIdempotent(payee, mint, s.owner)
           \/ /\ account = NoAccount
              /\ create = CreateAssociatedTokenAccount(payee, mint, s.owner)
        /\ \/ transfer = TransferChecked(SourceOf(s), mint, AtaOf(s), AmountOf(s),
                                         s.decimals, s.owner)
           \/ /\ s.owner = Token
              /\ transfer = Transfer(SourceOf(s), AtaOf(s), AmountOf(s), s.owner)
  BY DEF Built
<1>2. t[1] = create /\ t[2] = transfer /\ t # <<>>
  BY <1>1
<1>3. /\ create.ata = AtaOf(s) /\ create.wallet = payee /\ create.program = s.owner
      /\ \/ create.op = "create-idempotent"
         \/ create.op = "create" /\ account = NoAccount
  BY <1>1 DEF CreateAssociatedTokenAccountIdempotent, CreateAssociatedTokenAccount, Build, AtaOf
<1>4. /\ transfer.source = SourceOf(s) /\ transfer.destination = AtaOf(s)
      /\ transfer.amount = AmountOf(s)
      /\ \/ /\ transfer.op = "transfer-checked"
            /\ transfer.program = s.owner /\ transfer.decimals = s.decimals
         \/ transfer.op = "transfer" /\ s.owner = Token
  BY <1>1 DEF TransferChecked, Transfer
<1> QED BY <1>2, <1>3, <1>4 DEF Built

(* A mint whose data unpacks shows its own decimals (unpack_mint).         *)
LEMMA MintFacts ==
    ASSUME NEW s \in MintAccounts, s.state = "mint"
    PROVE  UnpackMint(s).ok /\ UnpackMint(s).decimals = s.decimals /\ s.decimals \in Nat
BY PaymentAssumption DEF UnpackMint

-----------------------------------------------------------------------------
(* The chain.                                                              *)

(* The last bank is one of them.                                           *)
LEMMA LastBank ==
    ASSUME ChainOK
    PROVE  /\ Len(chain) \in 1 .. Len(chain) /\ Len(chain) \in Nat /\ MaxBanks \in Nat
           /\ Bank = chain[Len(chain)] /\ BankOK(Bank)
           /\ \A n \in 1 .. Len(chain) : n \in 1 .. MaxBanks
BY PaymentAssumption DEF ChainOK, Bank

(* Appending a bank: a mint that cannot be made again is the same.         *)
LEMMA ChainGrows ==
    ASSUME ChainOK, NEW bank, BankOK(bank), Grow(bank),
           bank.mint = Bank.mint \/ Bank.mint.owner = Token2022
    PROVE  ChainOK' /\ Grown
<1> DEFINE B == [mint : MintAccounts \cup {Null}, accounts : [Addresses -> Account]]
           l == Len(chain)
<1>1. chain \in Seq(B) /\ l \in Nat /\ l >= 1 /\ bank \in B /\ MaxBanks \in Nat
  BY PaymentAssumption DEF ChainOK, BankOK
<1>2. chain' = Append(chain, bank) /\ l < MaxBanks
  BY DEF Grow
<1>3. /\ Len(chain') = l + 1 /\ chain' \in Seq(B)
      /\ \A n \in 1 .. l : chain'[n] = chain[n]
      /\ chain'[l + 1] = bank
  BY <1>1, <1>2
<1>4. \A n \in 1 .. l + 1 : BankOK(chain'[n])
  <2> SUFFICES ASSUME NEW n \in 1 .. l + 1 PROVE BankOK(chain'[n])
    OBVIOUS
  <2>1. CASE n \in 1 .. l
    BY <1>3, <2>1 DEF ChainOK
  <2>2. CASE n = l + 1
    BY <1>3, <2>2
  <2> QED BY <1>1, <2>1, <2>2
<1>5. ASSUME NEW n \in 1 .. l + 1, NEW m \in 1 .. l + 1, n <= m,
             chain'[n].mint.owner # Token2022
      PROVE  chain'[m].mint = chain'[n].mint
  <2>1. CASE m <= l
    <3>1. n \in 1 .. l /\ m \in 1 .. l
      BY <1>1, <1>5, <2>1
    <3>2. chain'[n] = chain[n] /\ chain'[m] = chain[m]
      BY <1>3, <3>1
    <3> QED BY <1>5, <3>1, <3>2 DEF ChainOK
  <2>2. CASE n = l + 1
    BY <1>1, <1>5, <2>2
  <2>3. CASE n <= l /\ m = l + 1
    <3>1. n \in 1 .. l /\ l \in 1 .. l /\ n <= l /\ chain'[n] = chain[n] /\ chain'[m] = bank
      BY <1>1, <1>3, <2>3
    <3>2. Bank.mint = chain[n].mint
      BY <1>5, <3>1 DEF ChainOK, Bank
    <3> QED BY <1>5, <3>1, <3>2
  <2> QED BY <1>1, <2>1, <2>2, <2>3
<1>6. ChainOK'
  BY <1>1, <1>2, <1>3, <1>4, <1>5 DEF ChainOK
<1> QED BY <1>1, <1>3, <1>6 DEF Grown

LEMMA NotGrown == ASSUME ChainOK, UNCHANGED chain PROVE Grown /\ ChainOK'
BY LastBank DEF Grown, ChainOK

(* A bank changed at one address.                                          *)
LEMMA OneChange ==
    ASSUME NEW old, BankOK(old), NEW address \in Addresses, NEW account \in Account,
           address[1] = payer => account = NoAccount \/ account.owner = payer
    PROVE  LET new == [old EXCEPT !.accounts[address] = account] IN
           /\ BankOK(new) /\ new.mint = old.mint
           /\ \A b \in Addresses :
                 new.accounts[b] = IF b = address THEN account ELSE old.accounts[b]
<1> DEFINE new == [old EXCEPT !.accounts[address] = account]
<1>1. old \in [mint : MintAccounts \cup {Null}, accounts : [Addresses -> Account]]
  BY DEF BankOK
<1>2. /\ new \in [mint : MintAccounts \cup {Null}, accounts : [Addresses -> Account]]
      /\ new.mint = old.mint
      /\ \A b \in Addresses : new.accounts[b] = IF b = address THEN account ELSE old.accounts[b]
  BY <1>1
<1> HIDE DEF new
<1>3. \A a \in Addresses : a[1] = payer =>
         new.accounts[a] = NoAccount \/ new.accounts[a].owner = payer
  BY <1>2 DEF BankOK
<1> QED BY <1>2, <1>3 DEF BankOK, new

-----------------------------------------------------------------------------
(* Payments on a growing chain.                                            *)

(* What a payment was planned from, and the cause of its refusal, stay.    *)
LEMMA Kept ==
    ASSUME ChainOK, Grown, NEW p \in Payment, at[p] \in 1 .. Len(chain),
           at'[p] = at[p], seen'[p] = seen[p], shown'[p] = shown[p], tx'[p] = tx[p]
    PROVE  /\ at'[p] \in 1 .. Len(chain') /\ chain'[at'[p]] = chain[at[p]]
           /\ Planned(p) => Planned(p)'
           /\ Cause(p) => Cause(p)'
<1>1. /\ at[p] \in 1 .. Len(chain') /\ at[p] \in Nat /\ Len(chain) \in Nat
      /\ \A n \in at[p] .. Len(chain) : n \in at[p] .. Len(chain') /\ chain'[n] = chain[n]
      /\ chain'[at[p]] = chain[at[p]]
  BY LastBank DEF Grown
<1>2. ASSUME Planned(p) PROVE Planned(p)'
  <2>1. PICK m \in at[p] .. Len(chain) :
          Built(tx[p], seen[p], chain[m].accounts[AtaOf(seen[p])])
    BY <1>2 DEF Planned
  <2>2. m \in at'[p] .. Len(chain') /\ chain'[m] = chain[m]
    BY <1>1, <2>1
  <2>3. Built(tx'[p], seen'[p], chain'[m].accounts[AtaOf(seen'[p])])
    BY <2>1, <2>2
  <2> QED BY <1>2, <2>2, <2>3 DEF Planned
<1>3. ASSUME Cause(p) PROVE Cause(p)'
  <2> DEFINE Other(n, c) ==
               \/ n.mint # c.mint
               \/ \E wallet \in {payer, payee} :
                     LET address == <<wallet, seen[p].owner, mint>>
                     IN  n.accounts[address] # c.accounts[address]
             Changed == \E n \in at[p] .. Len(chain) : Other(chain[n], chain[at[p]])
             Free ==
               \/ "hook" \in shown[p]
               \/ chain[at[p]].accounts[<<payer, seen[p].owner, mint>>].amount
                     < Ui * 10 ^ seen[p].decimals
  <2>1. Cause(p) <=> Free \/ Changed
    BY DEF Cause
  <2>2. Cause(p)' <=> Free' \/ \E n \in at'[p] .. Len(chain') : Other(chain'[n], chain'[at'[p]])
    BY DEF Cause
  <2>3. Free => Free'
    BY <1>1
  <2> HIDE DEF Other, Free
  <2>4. ASSUME NEW n \in at[p] .. Len(chain), Other(chain[n], chain[at[p]])
        PROVE  \E k \in at'[p] .. Len(chain') : Other(chain'[k], chain'[at'[p]])
    BY <1>1, <2>4
  <2> QED BY <1>3, <2>1, <2>2, <2>3, <2>4
<1> QED BY <1>1, <1>2, <1>3

(* A payment that does not move stays as it should be.                     *)
LEMMA Bystander ==
    ASSUME ChainOK, Grown, NEW p \in Payment, PaymentOK(p), SamePayment(p)
    PROVE  PaymentOK(p)'
<1>1. /\ at'[p] \in 1 .. Len(chain') /\ chain'[at'[p]] = chain[at[p]]
      /\ Planned(p) => Planned(p)'
      /\ Cause(p) => Cause(p)'
  BY Kept DEF PaymentOK, SamePayment
<1> QED BY <1>1 DEF PaymentOK, SamePayment

(* The same for all the payments a step does not touch.                    *)
LEMMA Bystanders ==
    ASSUME IInv, Grown
    PROVE  \A q \in Payment : SamePayment(q) => PaymentOK(q)'
<1> SUFFICES ASSUME NEW q \in Payment, SamePayment(q) PROVE PaymentOK(q)'
  OBVIOUS
<1>1. ChainOK /\ PaymentOK(q)
  BY DEF IInv
<1> QED BY <1>1, Bystander

-----------------------------------------------------------------------------
(* Steps.                                                                  *)

LEMMA InitIInv == Init => IInv
<1> SUFFICES ASSUME Init PROVE IInv
  OBVIOUS
<1>1. PICK m \in MintAccounts, balance \in Balances, held \in BOOLEAN :
        chain = << [mint |-> m,
                    accounts |-> [a \in Addresses |->
                        IF a[1] = payer /\ a[2] = m.owner THEN TokenAccount(payer, balance)
                        ELSE IF held /\ a[2] = m.owner THEN TokenAccount(payee, 0)
                        ELSE NoAccount]] >>
  BY DEF Init
<1> DEFINE accounts == [a \in Addresses |->
                           IF a[1] = payer /\ a[2] = m.owner THEN TokenAccount(payer, balance)
                           ELSE IF held /\ a[2] = m.owner THEN TokenAccount(payee, 0)
                           ELSE NoAccount]
           bank     == [mint |-> m, accounts |-> accounts]
<1>2. chain = <<bank>>
  BY <1>1
<1>3. /\ TokenAccount(payer, balance) \in Account /\ TokenAccount(payee, 0) \in Account
      /\ NoAccount \in Account /\ TokenAccount(payer, balance).owner = payer
  BY PaymentAssumption DEF TokenAccount, NoAccount, Account, Wallets
<1>4. accounts \in [Addresses -> Account]
  BY <1>3
<1>5. \A a \in Addresses : a[1] = payer => accounts[a] = NoAccount \/ accounts[a].owner = payer
  BY <1>3
<1>6. BankOK(bank)
  BY <1>4, <1>5 DEF BankOK
<1> HIDE DEF bank
<1>7. ChainOK
  <2>1. Len(chain) = 1 /\ chain[1] = bank /\ 1 .. Len(chain) = {1}
    BY <1>2
  <2>2. chain \in Seq([mint : MintAccounts \cup {Null}, accounts : [Addresses -> Account]])
    BY <1>2, <1>6 DEF BankOK
  <2>3. 1 \in 1 .. MaxBanks
    BY PaymentAssumption
  <2> QED BY <1>6, <2>1, <2>2, <2>3 DEF ChainOK
<1>8. Shape /\ \A p \in Payment : PaymentOK(p)
  <2>1. Len(chain) = 1 /\ 1 \in 1 .. MaxBanks
    BY <1>2, PaymentAssumption
  <2>2. Shape
    BY <2>1 DEF Init, Shape
  <2>3. ASSUME NEW p \in Payment PROVE PaymentOK(p)
    <3>1. pc[p] = "idle" /\ at[p] = 1 /\ seen[p] = Null /\ tx[p] = <<>>
      BY DEF Init
    <3>2. at[p] \in 1 .. Len(chain)
      BY <2>1, <3>1
    <3> QED BY <3>1, <3>2 DEF PaymentOK
  <2> QED BY <2>2, <2>3
<1> QED BY <1>7, <1>8 DEF IInv

(* The mint is read, and shown with its risks (unpack_mint, the finders).  *)
LEMMA MintStep ==
    ASSUME IInv, NEW p \in Payment, FetchMint(p)
    PROVE  IInv'
<1>1. /\ Shape /\ ChainOK /\ PaymentOK(p) /\ pc[p] = "idle" /\ tx[p] = <<>>
      /\ UNCHANGED <<chain, tx, executed>>
  BY DEF IInv, FetchMint, PaymentOK
<1>2. /\ Len(chain) \in 1 .. Len(chain) /\ Len(chain) \in 1 .. MaxBanks
      /\ Bank = chain[Len(chain)] /\ Bank.mint \in MintAccounts \cup {Null}
  BY <1>1, LastBank DEF BankOK
<1>3. Grown /\ ChainOK'
  BY <1>1, NotGrown
<1>4. CASE UnpackMint(Bank.mint).ok /\ ~Unassessed(Bank.mint)
  <2>1. /\ seen' = [seen EXCEPT ![p] = Bank.mint] /\ at' = [at EXCEPT ![p] = Len(chain)]
        /\ shown' = [shown EXCEPT ![p] = Risks(Bank.mint)]
        /\ pc' = [pc EXCEPT ![p] = "shown"]
    BY <1>4 DEF FetchMint, Go
  <2>2. Bank.mint.state = "mint" /\ Bank.mint # Null /\ Bank.mint \in MintAccounts
    <3>1. UnpacksWithExtensions(Bank.mint)
      BY <1>4 DEF Unassessed, FindTransferFeeConfig, Find
    <3> QED BY <1>2, <3>1 DEF UnpacksWithExtensions, Null, MintAccount
  <2>3. Risks(Bank.mint) \in SUBSET {"fee", "delegate", "hook"}
    BY DEF Risks
  <2>4. Shape'
    BY <1>1, <1>2, <2>1, <2>3 DEF Shape
  <2>5. \A q \in Payment \ {p} : SamePayment(q)
    BY <1>1, <2>1 DEF Shape, SamePayment
  <2>6. \A q \in Payment \ {p} : PaymentOK(q)'
    BY <1>3, <2>5, Bystanders
  <2>7. /\ pc'[p] = "shown" /\ at'[p] = Len(chain') /\ seen'[p] = Bank.mint
        /\ shown'[p] = Risks(Bank.mint) /\ tx'[p] = <<>> /\ chain'[at'[p]] = Bank
        /\ Len(chain') \in 1 .. Len(chain')
    BY <1>1, <1>2, <2>1 DEF Shape
  <2>8. PaymentOK(p)'
    BY <2>2, <2>7 DEF PaymentOK
  <2> QED BY <1>3, <2>4, <2>6, <2>8 DEF IInv
<1>5. CASE ~(UnpackMint(Bank.mint).ok /\ ~Unassessed(Bank.mint))
  <2>1. UNCHANGED <<seen, at, shown>> /\ pc' = [pc EXCEPT ![p] = "error"]
    BY <1>5 DEF FetchMint, Go
  <2>2. Shape'
    BY <1>1, <2>1 DEF Shape
  <2>3. \A q \in Payment \ {p} : SamePayment(q)
    BY <1>1, <2>1 DEF Shape, SamePayment
  <2>4. \A q \in Payment \ {p} : PaymentOK(q)'
    BY <1>3, <2>3, Bystanders
  <2>5. pc'[p] = "error"
    BY <1>1, <2>1 DEF Shape
  <2>6. PaymentOK(p)'
    BY <1>1, <2>1, <2>5 DEF PaymentOK
  <2> QED BY <1>3, <2>2, <2>4, <2>6 DEF IInv
<1> QED BY <1>4, <1>5

(* The payee's account is read and the instructions are built              *)
(* (unpack_token_account and the builders).                                *)
LEMMA PayeeStep ==
    ASSUME IInv, NEW p \in Payment, FetchPayee(p)
    PROVE  IInv'
<1> DEFINE s       == seen[p]
           account == Bank.accounts[AtaOf(s)]
<1>1. /\ Shape /\ ChainOK /\ PaymentOK(p) /\ pc[p] = "shown" /\ tx[p] = <<>>
      /\ UNCHANGED <<chain, at, seen, shown, executed>>
  BY DEF IInv, FetchPayee, PaymentOK
<1>2. /\ Len(chain) \in at[p] .. Len(chain) /\ at[p] \in 1 .. Len(chain)
      /\ Bank = chain[Len(chain)]
      /\ s \in MintAccounts /\ s.state = "mint" /\ s = chain[at[p]].mint
  BY <1>1, LastBank DEF PaymentOK
<1>3. UnpackMint(s).decimals = s.decimals
  BY <1>2, MintFacts
<1>4. Grown /\ ChainOK'
  BY <1>1, NotGrown
<1>5. \/ \E where \in {"panicked", "error"} : pc' = [pc EXCEPT ![p] = where] /\ tx' = tx
      \/ /\ pc' = [pc EXCEPT ![p] = "waiting"] /\ s.owner \in TokenPrograms
         /\ \E t : tx' = [tx EXCEPT ![p] = t] /\ Built(t, s, account)
  <2> DEFINE creates == {CreateAssociatedTokenAccountIdempotent(payee, mint, s.owner)}
                     \cup IF UnpackTokenAccount(account).ok THEN {}
                          ELSE {CreateAssociatedTokenAccount(payee, mint, s.owner)}
             transfers == {TransferChecked(SourceOf(s), mint, AtaOf(s), AmountOf(s),
                                           s.decimals, s.owner)}
                     \cup IF s.owner # Token THEN {}
                          ELSE {Transfer(SourceOf(s), AtaOf(s), AmountOf(s), s.owner)}
  <2>1. CASE pc' = [pc EXCEPT ![p] = "panicked"] /\ tx' = tx
    BY <2>1
  <2>2. CASE pc' = [pc EXCEPT ![p] = "error"] /\ tx' = tx
    BY <2>2
  <2>3. ASSUME ~Panics(s.owner),
               UnpackTokenAccount(account).ok => UnpackTokenAccount(account).owner = payee,
               NEW create \in creates, NEW transfer \in transfers,
               tx' = [tx EXCEPT ![p] = <<create, transfer>>],
               pc' = [pc EXCEPT ![p] = "waiting"]
        PROVE  /\ pc' = [pc EXCEPT ![p] = "waiting"] /\ s.owner \in TokenPrograms
               /\ \E t : tx' = [tx EXCEPT ![p] = t] /\ Built(t, s, account)
    <3>1. s.owner \in TokenPrograms
      BY <2>3 DEF Panics
    <3>2. account = NoAccount \/ account.owner = payee
      BY <2>3 DEF UnpackTokenAccount
    <3>3. \/ create = CreateAssociatedTokenAccountIdempotent(payee, mint, s.owner)
          \/ account = NoAccount /\ create = CreateAssociatedTokenAccount(payee, mint, s.owner)
      BY <2>3 DEF UnpackTokenAccount
    <3>4. \/ transfer = TransferChecked(SourceOf(s), mint, AtaOf(s), AmountOf(s),
                                        s.decimals, s.owner)
          \/ s.owner = Token /\ transfer = Transfer(SourceOf(s), AtaOf(s), AmountOf(s), s.owner)
      BY <2>3
    <3>5. Built(<<create, transfer>>, s, account)
      BY <3>2, <3>3, <3>4 DEF Built
    <3> QED BY <2>3, <3>1, <3>5
  <2>4. \/ pc' = [pc EXCEPT ![p] = "panicked"] /\ tx' = tx
        \/ pc' = [pc EXCEPT ![p] = "error"] /\ tx' = tx
        \/ /\ ~Panics(s.owner)
           /\ UnpackTokenAccount(account).ok => UnpackTokenAccount(account).owner = payee
           /\ \E create \in creates, transfer \in transfers :
                 tx' = [tx EXCEPT ![p] = <<create, transfer>>]
           /\ pc' = [pc EXCEPT ![p] = "waiting"]
    BY <1>3, Zenon DEF FetchPayee, Go, SourceOf, AtaOf, AmountOf
  <2> HIDE DEF creates, transfers, s, account
  <2> QED BY <2>1, <2>2, <2>3, <2>4, Zenon
<1>6. /\ Shape' /\ (\A q \in Payment \ {p} : SamePayment(q))
  <2>1. /\ \E where \in {"panicked", "error", "waiting"} : pc' = [pc EXCEPT ![p] = where]
        /\ tx' = tx \/ \E t : tx' = [tx EXCEPT ![p] = t]
    BY <1>5
  <2>2. pc' \in [Payment -> {"idle", "shown", "waiting", "landed", "refused", "error", "panicked"}]
    BY <1>1, <2>1 DEF Shape
  <2>3. \A q \in Payment \ {p} : pc'[q] = pc[q] /\ tx'[q] = tx[q]
    BY <1>1, <2>1 DEF Shape
  <2>4. tx' = [q \in Payment |-> tx'[q]]
    BY <1>1, <2>1 DEF Shape
  <2>5. Shape'
    BY <1>1, <2>2, <2>4 DEF Shape
  <2>6. \A q \in Payment \ {p} : SamePayment(q)
    BY <1>1, <2>3 DEF SamePayment
  <2> QED BY <2>5, <2>6
<1>7. \A q \in Payment \ {p} : PaymentOK(q)'
  BY <1>4, <1>6, Bystanders
<1>8. PaymentOK(p)'
  <2>1. ASSUME NEW where \in {"panicked", "error"}, pc' = [pc EXCEPT ![p] = where], tx' = tx
        PROVE  PaymentOK(p)'
    <3>1. pc'[p] = where
      BY <1>1, <2>1 DEF Shape
    <3> QED BY <1>1, <2>1, <3>1 DEF PaymentOK
  <2>2. ASSUME NEW t, pc' = [pc EXCEPT ![p] = "waiting"], s.owner \in TokenPrograms,
               tx' = [tx EXCEPT ![p] = t], Built(t, s, account)
        PROVE  PaymentOK(p)'
    <3>1. pc'[p] = "waiting" /\ tx'[p] = t
      BY <1>1, <2>2 DEF Shape
    <3>2. Len(chain') \in at'[p] .. Len(chain')
          /\ Built(tx'[p], seen'[p], chain'[Len(chain')].accounts[AtaOf(seen'[p])])
      BY <1>1, <1>2, <2>2, <3>1
    <3>3. Planned(p)'
      BY <1>1, <2>2, <3>2 DEF Planned
    <3> QED BY <1>1, <1>2, <3>1, <3>3 DEF PaymentOK
  <2> QED BY <1>5, <2>1, <2>2
<1> QED BY <1>4, <1>6, <1>7, <1>8 DEF IInv

(* A new balance at one address changes nothing else.                      *)
LEMMA AmountChanged ==
    ASSUME NEW B \in [mint : MintAccounts \cup {Null}, accounts : [Addresses -> Account]],
           NEW b \in Addresses, NEW n \in Int
    PROVE  LET new == [B EXCEPT !.accounts[b].amount = n] IN
           /\ new \in [mint : MintAccounts \cup {Null}, accounts : [Addresses -> Account]]
           /\ new.mint = B.mint
           /\ \A c \in Addresses : new.accounts[c].owner = B.accounts[c].owner
           /\ \A c \in Addresses \ {b} : new.accounts[c] = B.accounts[c]
<1> DEFINE a     == B.accounts
           after == [a EXCEPT ![b].amount = n]
<1>1. a \in [Addresses -> Account] /\ B.mint \in MintAccounts \cup {Null}
      /\ B = [mint |-> B.mint, accounts |-> a]
  OBVIOUS
<1> HIDE DEF a
<1>2. [B EXCEPT !.accounts[b].amount = n] = [mint |-> B.mint, accounts |-> after]
  BY <1>1 DEF a
<1>3. after[b] = [owner |-> a[b].owner, amount |-> n] /\ after[b] \in Account
  BY <1>1 DEF Account
<1>4. after \in [Addresses -> Account] /\ \A c \in Addresses \ {b} : after[c] = a[c]
  BY <1>1, <1>3
<1> HIDE DEF after
<1>5. \A c \in Addresses : after[c].owner = a[c].owner
  BY <1>3, <1>4
<1> QED BY <1>1, <1>2, <1>4, <1>5 DEF a

(* What a landing payment makes of the accounts, and where it lands.       *)
LEMMA Landing ==
    ASSUME NEW bank, BankOK(bank), NEW s, s.owner \in TokenPrograms, s.decimals \in Nat,
           NEW t, NEW account, Built(t, s, account),
           CanCreate(bank, t[1]), CanTransfer(AfterCreate(bank, t[1]), t[2])
    PROVE  LET new == AfterTransfer(AfterCreate(bank, t[1]), t[2]) IN
           /\ BankOK(new) /\ new.mint = bank.mint /\ bank.mint.owner = s.owner
           /\ new.accounts[t[2].destination].owner = payee
           /\ s.owner = Token \/ new.mint.decimals = s.decimals
<1> DEFINE S     == SourceOf(s)
           A     == AtaOf(s)
           ready == AfterCreate(bank, t[1])
           new   == AfterTransfer(ready, t[2])
<1>1. /\ S \in Addresses /\ A \in Addresses /\ S # A /\ S[1] = payer /\ A[1] # payer
  BY AddressFacts
<1>2. /\ t[1].ata = A /\ t[1].wallet = payee /\ t[1].program = s.owner
      /\ t[2].source = S /\ t[2].destination = A /\ t[2].amount = AmountOf(s)
      /\ \/ t[2].op = "transfer-checked" /\ t[2].decimals = s.decimals
         \/ t[2].op = "transfer" /\ s.owner = Token
  BY BuiltFacts
<1>3. AmountOf(s) \in Int
  <2>1. 10 ^ s.decimals \in Int /\ Ui \in Int
    BY PaymentAssumption
  <2> HIDE DEF ready, new
  <2> QED BY <2>1 DEF AmountOf
<1> HIDE DEF S, A
<1>4. BankOK(ready) /\ ready.mint = bank.mint /\ ready.accounts[A].owner = payee
  <2>1. TokenAccount(payee, 0) \in Account /\ TokenAccount(payee, 0).owner = payee
    BY DEF TokenAccount, Account, Wallets
  <2>2. CASE bank.accounts[A] = NoAccount
    <3>1. ready = [bank EXCEPT !.accounts[A] = TokenAccount(payee, 0)] \/ ready = bank
      BY <1>2 DEF AfterCreate
    <3>2. NoAccount = NoAccount
      OBVIOUS
    <3>3. ready = [bank EXCEPT !.accounts[A] = TokenAccount(payee, 0)]
      BY <1>2, <2>2 DEF AfterCreate
    <3> HIDE DEF ready
    <3>4. BankOK(ready) /\ ready.mint = bank.mint
          /\ \A b \in Addresses :
                ready.accounts[b] = IF b = A THEN TokenAccount(payee, 0) ELSE bank.accounts[b]
      BY <1>1, <2>1, <3>3, OneChange
    <3> QED BY <1>1, <2>1, <3>4
  <2>3. CASE bank.accounts[A] # NoAccount
    <3>1. ready = bank
      BY <1>2, <2>3 DEF AfterCreate
    <3>2. bank.accounts[A].owner = payee
      BY <1>2, <2>3 DEF CanCreate
    <3> QED BY <3>1, <3>2
  <2> QED BY <2>2, <2>3
<1>5. bank.mint.owner = s.owner
  BY <1>2 DEF CanCreate
<1>6. /\ ready.accounts[S].owner = payer
      /\ t[2].op = "transfer-checked" => ready.mint.decimals = t[2].decimals
  BY <1>2 DEF CanTransfer
<1> HIDE DEF ready
<1>7. /\ new \in [mint : MintAccounts \cup {Null}, accounts : [Addresses -> Account]]
      /\ new.mint = ready.mint
      /\ \A b \in Addresses : new.accounts[b].owner = ready.accounts[b].owner
      /\ \A b \in Addresses \ {S, A} : new.accounts[b] = ready.accounts[b]
  <2>1. ready \in [mint : MintAccounts \cup {Null}, accounts : [Addresses -> Account]]
    BY <1>4 DEF BankOK
  <2> DEFINE x    == AmountOf(s)
             paid == [ready EXCEPT !.accounts[S].amount = @ - x]
             got  == [paid EXCEPT !.accounts[A].amount = @ + x]
  <2>2. new = [ready EXCEPT !.accounts[S].amount = @ - x, !.accounts[A].amount = @ + x]
    BY <1>2 DEF AfterTransfer
  <2> HIDE DEF new, x
  <2>3. new = got
    BY <1>1, <2>1, <2>2
  <2>4. /\ paid \in [mint : MintAccounts \cup {Null}, accounts : [Addresses -> Account]]
        /\ paid.mint = ready.mint
        /\ \A b \in Addresses : paid.accounts[b].owner = ready.accounts[b].owner
        /\ \A b \in Addresses \ {S} : paid.accounts[b] = ready.accounts[b]
    <3>1. S \in Addresses /\ ready.accounts[S].amount - x \in Int
      BY <1>1, <1>3, <2>1 DEF Account, x
    <3> QED BY <2>1, <3>1, AmountChanged
  <2> HIDE DEF paid
  <2>5. /\ got \in [mint : MintAccounts \cup {Null}, accounts : [Addresses -> Account]]
        /\ got.mint = paid.mint
        /\ \A b \in Addresses : got.accounts[b].owner = paid.accounts[b].owner
        /\ \A b \in Addresses \ {A} : got.accounts[b] = paid.accounts[b]
    <3>1. A \in Addresses /\ paid.accounts[A].amount + x \in Int
      BY <1>1, <1>3, <2>4 DEF Account, x
    <3> QED BY <2>4, <3>1, AmountChanged
  <2> HIDE DEF got
  <2> QED BY <2>3, <2>4, <2>5
<1> HIDE DEF new
<1>8. BankOK(new)
  <2> SUFFICES ASSUME NEW b \in Addresses, b[1] = payer
               PROVE  new.accounts[b] = NoAccount \/ new.accounts[b].owner = payer
    BY <1>7 DEF BankOK
  <2>1. CASE b = S
    BY <1>1, <1>6, <1>7, <2>1
  <2>2. CASE b # S
    BY <1>1, <1>4, <1>7, <2>2 DEF BankOK
  <2> QED BY <2>1, <2>2
<1>9. new.accounts[t[2].destination].owner = payee
  BY <1>1, <1>2, <1>4, <1>7
<1>10. s.owner = Token \/ new.mint.decimals = s.decimals
  BY <1>2, <1>6, <1>7
<1> QED BY <1>4, <1>5, <1>7, <1>8, <1>9, <1>10 DEF new, ready

(* A payment built from the accounts as they still are is honoured, but    *)
(* for a hook or too small a balance (the builders and the programs).      *)
LEMMA Honoured ==
    ASSUME Ordinary, NEW bank, BankOK(bank), NEW s \in MintAccounts, s.state = "mint",
           s.owner \in TokenPrograms, bank.mint = s, "hook" \notin Risks(s),
           bank.accounts[SourceOf(s)].amount >= AmountOf(s),
           NEW t, Built(t, s, bank.accounts[AtaOf(s)])
    PROVE  CanCreate(bank, t[1]) /\ CanTransfer(AfterCreate(bank, t[1]), t[2])
<1> DEFINE S     == SourceOf(s)
           A     == AtaOf(s)
           ready == AfterCreate(bank, t[1])
<1>1. /\ S \in Addresses /\ A \in Addresses /\ S # A /\ S[1] = payer /\ A[1] # payer
  BY AddressFacts
<1>2. /\ t[1].ata = A /\ t[1].wallet = payee /\ t[1].program = s.owner
      /\ t[2].source = S /\ t[2].destination = A /\ t[2].amount = AmountOf(s)
      /\ \/ t[1].op = "create-idempotent"
         \/ t[1].op = "create" /\ bank.accounts[A] = NoAccount
      /\ bank.accounts[A] = NoAccount \/ bank.accounts[A].owner = payee
      /\ \/ /\ t[2].op = "transfer-checked"
            /\ t[2].program = s.owner /\ t[2].decimals = s.decimals
         \/ t[2].op = "transfer" /\ s.owner = Token
  BY BuiltFacts
<1>3. AmountOf(s) > 0
  BY MintFacts DEF Ordinary, AmountOf
<1> HIDE DEF S, A
<1>4. CanCreate(bank, t[1])
  BY <1>2 DEF CanCreate
<1>5. /\ ready.mint = s /\ ready.accounts[A] # NoAccount
      /\ ready.accounts[S] = bank.accounts[S]
  <2>1. bank \in [mint : MintAccounts \cup {Null}, accounts : [Addresses -> Account]]
    BY DEF BankOK
  <2>2. TokenAccount(payee, 0) # NoAccount
    BY DEF TokenAccount, NoAccount, payee
  <2>3. CASE bank.accounts[A] = NoAccount
    <3>1. ready = [bank EXCEPT !.accounts[A] = TokenAccount(payee, 0)]
      BY <1>2, <2>3 DEF AfterCreate
    <3> QED BY <1>1, <2>1, <2>2, <3>1
  <2>4. CASE bank.accounts[A] # NoAccount
    BY <1>2, <2>4 DEF AfterCreate
  <2> QED BY <2>3, <2>4
<1>6. bank.accounts[S].owner = payer /\ bank.accounts[S].amount >= AmountOf(s)
  <2>1. NoAccount.amount = 0
    BY DEF NoAccount, TokenAccount
  <2>2. bank.accounts[S].amount >= AmountOf(s)
    BY DEF S
  <2>3. bank.accounts[S] # NoAccount
    BY <1>3, <2>1, <2>2, MintFacts, PaymentAssumption DEF AmountOf
  <2> QED BY <1>1, <2>2, <2>3 DEF BankOK
<1>7. \A i \in 1 .. Len(s.tlv) :
         s.tlv[i] # "hook" /\ (s.tlv[i] = "fee" => t[2].op = "transfer-checked")
  <2> SUFFICES ASSUME NEW i \in 1 .. Len(s.tlv)
               PROVE  s.tlv[i] # "hook" /\ (s.tlv[i] = "fee" => t[2].op = "transfer-checked")
    OBVIOUS
  <2>1. s.tlv \in Seq(KnownExtensions) /\ \A j \in 1 .. i - 1 : s.tlv[j] \in KnownExtensions
    BY DEF Ordinary
  <2>2. s.tlv[i] # "hook"
    BY <2>1, MintFacts DEF Risks, FindTransferHook, Find, UnpacksWithExtensions, GetExtension
  <2>3. s.owner # Token
    BY DEF Ordinary
  <2> QED BY <1>2, <2>2, <2>3
<1> HIDE DEF ready
<1>8. CanTransfer(ready, t[2])
  BY <1>2, <1>5, <1>6, <1>7 DEF CanTransfer
<1> QED BY <1>4, <1>8 DEF ready

(* The payment lands as approved, or is refused for a cause.               *)
LEMMA ExecuteStep ==
    ASSUME IInv, NEW p \in Payment, Execute(p)
    PROVE  IInv'
<1> DEFINE s     == seen[p]
           t     == tx[p]
           ready == AfterCreate(Bank, t[1])
           new   == AfterTransfer(ready, t[2])
           n     == Len(chain)
<1>1. /\ Shape /\ ChainOK /\ PaymentOK(p) /\ pc[p] = "waiting" /\ Planned(p)
      /\ UNCHANGED <<at, seen, shown, tx>>
  BY DEF IInv, Execute, PaymentOK
<1>2. /\ at[p] \in 1 .. n /\ n \in at[p] .. n /\ n \in 1 .. n /\ n \in Nat
      /\ Bank = chain[n] /\ BankOK(Bank)
      /\ s \in MintAccounts /\ s.state = "mint" /\ s = chain[at[p]].mint
      /\ shown[p] = Risks(s) /\ s.owner \in TokenPrograms /\ s.decimals \in Nat
  BY <1>1, LastBank, MintFacts DEF PaymentOK, Planned
<1>3. PICK m \in at[p] .. n : Built(t, s, chain[m].accounts[AtaOf(s)])
  BY <1>1 DEF Planned
<1>4. CASE /\ CanCreate(Bank, t[1]) /\ CanTransfer(ready, t[2])
           /\ Grow(new) /\ pc' = [pc EXCEPT ![p] = "landed"]
           /\ executed' = [executed EXCEPT ![p] =
                 [mint |-> new.mint, to |-> new.accounts[t[2].destination]]]
  <2>1. /\ BankOK(new) /\ new.mint = Bank.mint /\ Bank.mint.owner = s.owner
        /\ new.accounts[t[2].destination].owner = payee
        /\ s.owner = Token \/ new.mint.decimals = s.decimals
    <3> HIDE DEF s, t
    <3>1. /\ BankOK(Bank) /\ s.owner \in TokenPrograms /\ s.decimals \in Nat
          /\ CanCreate(Bank, t[1]) /\ CanTransfer(AfterCreate(Bank, t[1]), t[2])
      BY <1>2, <1>4
    <3> QED BY <1>3, <3>1, Landing
  <2> HIDE DEF new, ready
  <2>2. ChainOK' /\ Grown
    BY <1>1, <1>4, <2>1, ChainGrows
  <2>3. new.mint.decimals = s.decimals
    <3>1. CASE s.owner = Token
      <4>1. s.owner # Token2022
        BY <3>1 DEF Token, Token2022
      <4>2. Bank.mint = s
        BY <1>1, <1>2, <4>1 DEF ChainOK
      <4> QED BY <2>1, <4>2
    <3> QED BY <2>1, <3>1
  <2>4. Shape' /\ \A q \in Payment \ {p} : SamePayment(q)
    BY <1>1, <1>4 DEF Shape, SamePayment
  <2>5. \A q \in Payment \ {p} : PaymentOK(q)'
    BY <2>2, <2>4, Bystanders
  <2>6. at'[p] \in 1 .. Len(chain') /\ chain'[at'[p]] = chain[at[p]] /\ Planned(p)'
    BY <1>1, <1>2, <2>2, Kept
  <2>7. pc'[p] = "landed" /\ executed'[p].mint = new.mint
        /\ executed'[p].to = new.accounts[t[2].destination]
    BY <1>1, <1>4 DEF Shape
  <2>8. t[2].amount = Ui * 10 ^ s.decimals
    BY <1>3, BuiltFacts DEF AmountOf
  <2>9. PaymentOK(p)'
    BY <1>1, <2>1, <2>3, <2>6, <2>7, <2>8 DEF PaymentOK
  <2> QED BY <2>2, <2>4, <2>5, <2>9 DEF IInv
<1>5. CASE /\ ~(CanCreate(Bank, t[1]) /\ CanTransfer(ready, t[2]))
           /\ pc' = [pc EXCEPT ![p] = "refused"] /\ UNCHANGED <<chain, executed>>
  <2> HIDE DEF new
  <2>1. Grown /\ ChainOK'
    BY <1>1, <1>5, NotGrown
  <2>2. Shape' /\ \A q \in Payment \ {p} : SamePayment(q)
    BY <1>1, <1>5 DEF Shape, SamePayment
  <2>3. \A q \in Payment \ {p} : PaymentOK(q)'
    BY <2>1, <2>2, Bystanders
  <2>4. ASSUME Ordinary PROVE Cause(p)
    <3> SUFFICES ASSUME ~Cause(p) PROVE FALSE
      OBVIOUS
    <3>1. SourceOf(s) = <<payer, s.owner, mint>> /\ AtaOf(s) = <<payee, s.owner, mint>>
          /\ SourceOf(s) \in Addresses
      BY <1>2, AddressFacts
    <3>2. /\ "hook" \notin Risks(s)
          /\ ~(chain[at[p]].accounts[SourceOf(s)].amount < AmountOf(s))
          /\ \A i \in at[p] .. n :
                /\ chain[i].mint = s
                /\ chain[i].accounts[SourceOf(s)] = chain[at[p]].accounts[SourceOf(s)]
                /\ chain[i].accounts[AtaOf(s)] = chain[at[p]].accounts[AtaOf(s)]
      BY <1>2, <3>1 DEF Cause, AmountOf
    <3>3. /\ Bank.mint = s /\ chain[m].accounts[AtaOf(s)] = Bank.accounts[AtaOf(s)]
          /\ Bank.accounts[SourceOf(s)] = chain[at[p]].accounts[SourceOf(s)]
      BY <1>2, <1>3, <3>2
    <3>4. Bank.accounts[SourceOf(s)].amount >= AmountOf(s)
      <4>1. Bank.accounts[SourceOf(s)].amount \in Int
        BY <1>2, <3>1 DEF BankOK, Account
      <4>2. 10 ^ s.decimals \in Int /\ Ui \in Int
        BY <1>2, PaymentAssumption
      <4>3. AmountOf(s) \in Int
        BY <4>2 DEF AmountOf
      <4> QED BY <3>2, <3>3, <4>1, <4>3
    <3>5. Built(t, s, Bank.accounts[AtaOf(s)])
      BY <1>3, <3>3
    <3>6. CanCreate(Bank, t[1]) /\ CanTransfer(ready, t[2])
      BY <1>2, <2>4, <3>2, <3>3, <3>4, <3>5, Honoured
    <3> QED BY <1>5, <3>6
  <2>5. /\ at'[p] \in 1 .. Len(chain') /\ chain'[at'[p]] = chain[at[p]] /\ Planned(p)'
        /\ Cause(p) => Cause(p)'
    BY <1>1, <1>2, <2>1, Kept
  <2>6. pc'[p] = "refused" /\ (Ordinary => Cause(p)')
    BY <1>1, <1>5, <2>4, <2>5 DEF Shape
  <2>7. PaymentOK(p)'
    BY <1>1, <2>5, <2>6 DEF PaymentOK
  <2> QED BY <2>1, <2>2, <2>3, <2>7 DEF IInv
<1> QED BY <1>4, <1>5 DEF Execute, Go

(* Others change the mint or an account: no payment moves.                 *)
LEMMA OthersStep ==
    ASSUME IInv,
           \/ \E m \in MintAccounts \cup {Null} : Recreate(m)
           \/ \E address \in Addresses :
                 \/ /\ address[1] = payee
                    /\ \E account \in {NoAccount, TokenAccount(payee, 0), TokenAccount("other", 0)} :
                           Change(address, account)
                 \/ address[1] = payer /\ Change(address, TokenAccount(payer, 0))
    PROVE  IInv'
<1>1. ChainOK /\ Shape /\ BankOK(Bank)
  BY LastBank DEF IInv
<1>2. ASSUME NEW bank, BankOK(bank), Grow(bank),
             bank.mint = Bank.mint \/ Bank.mint.owner = Token2022,
             UNCHANGED <<pc, at, seen, shown, tx, executed>>
      PROVE  IInv'
  <2>1. ChainOK' /\ Grown
    BY <1>1, <1>2, ChainGrows
  <2>2. \A p \in Payment : PaymentOK(p)'
    BY <1>1, <1>2, <2>1, Bystander DEF IInv, SamePayment
  <2> QED BY <1>1, <1>2, <2>1, <2>2 DEF IInv, Shape
<1>3. ASSUME NEW m \in MintAccounts \cup {Null}, Recreate(m) PROVE IInv'
  <2> DEFINE bank == [Bank EXCEPT !.mint = m]
  <2>1. BankOK(bank)
    BY <1>1 DEF BankOK
  <2>2. /\ Grow(bank) /\ Bank.mint.owner = Token2022
        /\ UNCHANGED <<pc, at, seen, shown, tx, executed>>
    BY <1>3 DEF Recreate
  <2> HIDE DEF bank
  <2> QED BY <1>2, <2>1, <2>2
<1>4. ASSUME NEW address \in Addresses, NEW account \in Account, Change(address, account),
             address[1] = payer => account = NoAccount \/ account.owner = payer
      PROVE  IInv'
  <2> DEFINE bank == [Bank EXCEPT !.accounts[address] = account]
  <2>1. BankOK(bank) /\ bank.mint = Bank.mint
    BY <1>1, <1>4, OneChange
  <2>2. Grow(bank) /\ UNCHANGED <<pc, at, seen, shown, tx, executed>>
    BY <1>4 DEF Change
  <2> HIDE DEF bank
  <2> QED BY <1>2, <2>1, <2>2
<1>5. /\ {NoAccount, TokenAccount(payee, 0), TokenAccount("other", 0), TokenAccount(payer, 0)}
            \subseteq Account
      /\ TokenAccount(payer, 0).owner = payer /\ payer # payee
  BY DEF NoAccount, TokenAccount, Account, Wallets, payer, payee
<1> QED BY <1>3, <1>4, <1>5

(* Every step keeps the invariant.                                         *)
LEMMA NextIInv == IInv /\ [Next]_vars => IInv'
<1> SUFFICES ASSUME IInv, [Next]_vars PROVE IInv'
  OBVIOUS
<1>1. CASE Next
  <2>1. CASE \E p \in Payment : FetchMint(p) \/ FetchPayee(p) \/ Execute(p)
    BY <2>1, MintStep, PayeeStep, ExecuteStep
  <2> QED BY <1>1, <2>1, OthersStep DEF Next
<1>2. CASE UNCHANGED vars
  <2>1. UNCHANGED <<chain, pc, at, seen, shown, tx, executed>>
    BY <1>2 DEF vars
  <2>2. Shape' /\ ChainOK' /\ Grown
    BY <2>1, NotGrown DEF IInv, Shape
  <2>3. \A p \in Payment : PaymentOK(p)'
    BY <2>1, <2>2, Bystander DEF SamePayment, IInv
  <2> QED BY <2>2, <2>3 DEF IInv
<1> QED BY <1>1, <1>2

-----------------------------------------------------------------------------

(* Every state satisfies the invariant (token_state.rs and token.rs).      *)
THEOREM Invariant == Spec => []IInv
BY InitIInv, NextIInv, PTL DEF Spec

(* What lands pays the approved number of whole tokens, by the mint's      *)
(* decimals at that moment, into an account of the payee's                 *)
(* (transfer_checked, and transfer on a mint of the legacy program).       *)
THEOREM LandsAsApproved == Spec => []LandedAsApproved
<1>1. IInv => LandedAsApproved
  BY DEF IInv, PaymentOK, LandedAsApproved
<1> QED BY <1>1, Invariant, PTL

(* A refusal has a hook that was shown, too small a balance or a change    *)
(* since the mint was read behind it, when something is to be paid and the *)
(* reader knows every extension (the builders).                            *)
THEOREM RefusalsJustified == Ordinary => (Spec => []RefusedForCause)
<1> SUFFICES ASSUME Ordinary PROVE Spec => []RefusedForCause
  OBVIOUS
<1>1. IInv => RefusedForCause
  BY DEF IInv, PaymentOK, RefusedForCause, Cause
<1> QED BY <1>1, Invariant, PTL

(* A permanent delegate is shown whatever stands before it in the TLV      *)
(* data, when the reader knows every extension (find_permanent_delegate).  *)
THEOREM DelegatesShown == Ordinary => (Spec => []DelegateNeverOmitted)
<1> SUFFICES ASSUME Ordinary PROVE Spec => []DelegateNeverOmitted
  OBVIOUS
<1>1. IInv => DelegateNeverOmitted
  <2> SUFFICES ASSUME IInv, NEW p \in Payment, NEW i \in 1 .. Len(seen[p].tlv),
                      seen[p].tlv[i] = "delegate"
               PROVE  "delegate" \in shown[p]
    BY DEF DelegateNeverOmitted
  <2>1. PaymentOK(p)
    BY DEF IInv
  <2>2. seen[p] # Null
    BY DEF Null, MintAccount
  <2>3. seen[p] \in MintAccounts /\ seen[p].state = "mint" /\ shown[p] = Risks(seen[p])
    BY <2>1, <2>2 DEF PaymentOK
  <2>4. \A j \in 1 .. i - 1 : seen[p].tlv[j] \in KnownExtensions
    BY <2>3 DEF Ordinary
  <2>5. GetExtension(seen[p].tlv, "delegate")
    BY <2>4 DEF GetExtension
  <2> QED BY <2>3, <2>5, MintFacts DEF Risks, FindPermanentDelegate, Find, UnpacksWithExtensions
<1> QED BY <1>1, Invariant, PTL

-----------------------------------------------------------------------------
(* Balances.                                                               *)

NoDebt(bank) == \A a \in Addresses : bank.accounts[a].amount >= 0

Solvent == \A n \in 1 .. Len(chain) : NoDebt(chain[n])

(* Nobody is overdrawn by a payment (transfer, transfer_checked).          *)
LEMMA LandingSolvent ==
    ASSUME NEW bank, BankOK(bank), NoDebt(bank), NEW s, s.owner \in TokenPrograms,
           AmountOf(s) \in Nat, NEW t, NEW account, Built(t, s, account),
           CanTransfer(AfterCreate(bank, t[1]), t[2])
    PROVE  NoDebt(AfterTransfer(AfterCreate(bank, t[1]), t[2]))
<1> DEFINE S     == SourceOf(s)
           A     == AtaOf(s)
           x     == AmountOf(s)
           ready == AfterCreate(bank, t[1])
           new   == AfterTransfer(ready, t[2])
<1>1. /\ S \in Addresses /\ A \in Addresses /\ S # A
      /\ t[1].ata = A /\ t[1].wallet = payee /\ x \in Nat
      /\ t[2].source = S /\ t[2].destination = A /\ t[2].amount = x
  BY AddressFacts, BuiltFacts
<1> HIDE DEF S, A, x
<1>2. /\ ready \in [mint : MintAccounts \cup {Null}, accounts : [Addresses -> Account]]
      /\ NoDebt(ready)
  <2>1. bank \in [mint : MintAccounts \cup {Null}, accounts : [Addresses -> Account]]
    BY DEF BankOK
  <2>2. TokenAccount(payee, 0) \in Account /\ TokenAccount(payee, 0).amount = 0
    BY DEF TokenAccount, Account, Wallets
  <2>3. ready = bank \/ ready = [bank EXCEPT !.accounts[A] = TokenAccount(payee, 0)]
    BY <1>1 DEF AfterCreate
  <2> HIDE DEF ready
  <2> QED BY <1>1, <2>1, <2>2, <2>3 DEF NoDebt
<1>3. ready.accounts[S].amount >= x
  BY <1>1 DEF CanTransfer
<1>4. new = [ready EXCEPT !.accounts[S].amount = @ - x, !.accounts[A].amount = @ + x]
  BY <1>1 DEF AfterTransfer
<1> HIDE DEF ready, new
<1> DEFINE paid == [ready EXCEPT !.accounts[S].amount = @ - x]
<1>5. /\ paid \in [mint : MintAccounts \cup {Null}, accounts : [Addresses -> Account]]
      /\ NoDebt(paid)
  BY <1>1, <1>2, <1>3 DEF NoDebt, Account
<1>6. new = [paid EXCEPT !.accounts[A].amount = @ + x]
  BY <1>1, <1>2, <1>4
<1> HIDE DEF paid
<1>7. NoDebt(new)
  BY <1>1, <1>5, <1>6 DEF NoDebt, Account
<1> QED BY <1>7 DEF new, ready

(* Every step keeps the balances.                                          *)
LEMMA NextSolvent ==
    ASSUME \A d \in Nat : Ui * 10 ^ d \in Nat
    PROVE  IInv /\ Solvent /\ [Next]_vars => Solvent'
<1> SUFFICES ASSUME IInv, Solvent, [Next]_vars PROVE Solvent'
  OBVIOUS
<1>1. /\ ChainOK /\ BankOK(Bank) /\ NoDebt(Bank)
      /\ Bank \in [mint : MintAccounts \cup {Null}, accounts : [Addresses -> Account]]
  <2>1. ChainOK /\ BankOK(Bank) /\ Len(chain) \in 1 .. Len(chain) /\ Bank = chain[Len(chain)]
    BY LastBank DEF IInv
  <2> QED BY <2>1 DEF Solvent, BankOK
<1>2. ASSUME NEW bank, NoDebt(bank), Grow(bank) PROVE Solvent'
  <2>1. chain' = Append(chain, bank) /\ Len(chain) \in Nat
    BY <1>1, <1>2, LastBank DEF Grow
  <2>2. /\ Len(chain') = Len(chain) + 1 /\ chain'[Len(chain) + 1] = bank
        /\ \A n \in 1 .. Len(chain) : chain'[n] = chain[n]
    BY <1>1, <2>1 DEF ChainOK
  <2>3. ASSUME NEW n \in 1 .. Len(chain) + 1 PROVE NoDebt(chain'[n])
    <3>1. CASE n \in 1 .. Len(chain)
      BY <2>2, <3>1 DEF Solvent
    <3>2. CASE n = Len(chain) + 1
      BY <1>2, <2>2, <3>2
    <3> QED BY <2>1, <3>1, <3>2
  <2> QED BY <2>2, <2>3 DEF Solvent
<1>3. ASSUME UNCHANGED chain PROVE Solvent'
  BY <1>3 DEF Solvent, NoDebt
<1>4. ASSUME NEW address, NEW account, account.amount = 0, Change(address, account)
      PROVE  Solvent'
  <2> DEFINE bank == [Bank EXCEPT !.accounts[address] = account]
  <2>1. NoDebt(bank)
    BY <1>1, <1>4 DEF NoDebt, Account
  <2>2. Grow(bank)
    BY <1>4 DEF Change
  <2> HIDE DEF bank
  <2> QED BY <1>2, <2>1, <2>2
<1>5. ASSUME NEW m, Recreate(m) PROVE Solvent'
  <2> DEFINE bank == [Bank EXCEPT !.mint = m]
  <2>1. NoDebt(bank)
    BY <1>1 DEF NoDebt
  <2>2. Grow(bank)
    BY <1>5 DEF Recreate
  <2> HIDE DEF bank
  <2> QED BY <1>2, <2>1, <2>2
<1>6. ASSUME NEW p \in Payment, Execute(p) PROVE Solvent'
  <2>1. CASE UNCHANGED chain
    BY <1>3, <2>1
  <2> DEFINE ready == AfterCreate(Bank, tx[p][1])
             bank  == AfterTransfer(ready, tx[p][2])
  <2>2. CASE CanTransfer(ready, tx[p][2]) /\ Grow(bank)
    <3>1. /\ PaymentOK(p) /\ Planned(p) /\ seen[p].state = "mint" /\ seen[p] \in MintAccounts
      BY <1>6 DEF IInv, PaymentOK, Execute
    <3>2. PICK account : Built(tx[p], seen[p], account)
      BY <3>1 DEF Planned
    <3>3. AmountOf(seen[p]) \in Nat /\ seen[p].owner \in TokenPrograms
      BY <3>1, MintFacts DEF AmountOf, Planned
    <3>4. NoDebt(bank)
      BY <1>1, <2>2, <3>2, <3>3, LandingSolvent
    <3> HIDE DEF bank
    <3> QED BY <1>2, <2>2, <3>4
  <2> QED BY <1>6, <2>1, <2>2 DEF Execute
<1>7. CASE Next
  <2>1. NoAccount.amount = 0 /\ \A owner : TokenAccount(owner, 0).amount = 0
    BY DEF NoAccount, TokenAccount
  <2>2. ASSUME NEW p \in Payment, FetchMint(p) \/ FetchPayee(p) PROVE Solvent'
    <3>1. UNCHANGED chain
      BY <2>2 DEF FetchMint, FetchPayee
    <3> QED BY <1>3, <3>1
  <2> QED BY <1>4, <1>5, <1>6, <1>7, <2>1, <2>2 DEF Next
<1>8. CASE UNCHANGED vars
  BY <1>3, <1>8 DEF vars
<1> QED BY <1>7, <1>8

(* The two instructions of a payment are about the same account, and no    *)
(* account is overdrawn, when amounts are natural numbers (token.rs).      *)
THEOREM TypeCorrect == (\A d \in Nat : Ui * 10 ^ d \in Nat) => (Spec => []TypeOK)
<1> SUFFICES ASSUME \A d \in Nat : Ui * 10 ^ d \in Nat PROVE Spec => []TypeOK
  OBVIOUS
<1>1. Init => Solvent
  <2> SUFFICES ASSUME Init PROVE Solvent
    OBVIOUS
  <2>1. PICK m \in MintAccounts, balance \in Balances, held \in BOOLEAN :
          chain = << [mint |-> m,
                      accounts |-> [a \in Addresses |->
                          IF a[1] = payer /\ a[2] = m.owner THEN TokenAccount(payer, balance)
                          ELSE IF held /\ a[2] = m.owner THEN TokenAccount(payee, 0)
                          ELSE NoAccount]] >>
    BY DEF Init
  <2>2. balance >= 0
    BY PaymentAssumption
  <2> QED BY <2>1, <2>2 DEF Solvent, NoDebt, TokenAccount, NoAccount
<1>2. IInv /\ Solvent => TypeOK
  <2> SUFFICES ASSUME IInv, Solvent PROVE TypeOK
    OBVIOUS
  <2>1. ASSUME NEW n \in 1 .. Len(chain)
        PROVE  /\ chain[n].mint \in MintAccounts \cup {Null}
               /\ \A a \in Addresses : /\ chain[n].accounts[a].owner \in Wallets \cup {"none"}
                                       /\ chain[n].accounts[a].amount \in Nat
    <3>1. BankOK(chain[n]) /\ NoDebt(chain[n])
      BY DEF IInv, ChainOK, Solvent
    <3>2. chain[n] \in [mint : MintAccounts \cup {Null}, accounts : [Addresses -> Account]]
      BY <3>1 DEF BankOK
    <3>3. \A a \in Addresses : chain[n].accounts[a] \in Account
      BY <3>2
    <3> QED BY <3>1, <3>2, <3>3 DEF Account, NoDebt
  <2>2. ASSUME NEW p \in Payment, tx[p] # <<>> PROVE tx[p][1].ata = tx[p][2].destination
    <3>1. PICK account : Built(tx[p], seen[p], account)
      BY <2>2 DEF IInv, PaymentOK, Planned
    <3> QED BY <3>1, BuiltFacts
  <2>3. \A p \in Payment : seen[p] \in MintAccounts \cup {Null}
                           /\ shown[p] \subseteq {"fee", "delegate", "hook"}
    BY DEF IInv, Shape
  <2> QED BY <2>1, <2>2, <2>3 DEF TypeOK, IInv, Shape, ChainOK
<1>3. IInv /\ Solvent /\ [Next]_vars => Solvent'
  BY NextSolvent
<1> QED BY <1>1, <1>2, <1>3, InitIInv, NextIInv, PTL DEF Spec

=============================================================================
