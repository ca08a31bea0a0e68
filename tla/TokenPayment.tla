---------------------------- MODULE TokenPayment ----------------------------
(***************************************************************************)
(* A token payment put together from src/src/token_state.rs and            *)
(* src/src/instruction/{token,associated_token_account}.rs: a plugin reads *)
(* the mint and the payee's token account, shows what it found, and builds *)
(* a transaction that waits for approval.  Until it lands the mint may be  *)
(* closed and made again, the payee's account made, closed or handed to    *)
(* somebody else, and the payer's tokens spent.                            *)
(*                                                                         *)
(* Accounts are what their parsers make of them.  The plugin, the token    *)
(* programs, the cluster and the reader of extensions (TLV data) are       *)
(* external.                                                               *)
(***************************************************************************)
EXTENDS Integers, Sequences

CONSTANTS
    Payment,        \* runs of the plugin
    MintAccounts,   \* bound: what the mint's address may hold
    Balances,       \* bound: raw balances the payer may have
    Ui,             \* what is to be paid, in whole tokens
    MaxBanks        \* bound: changes of the accounts, plus one

Token     == "token"
Token2022 == "token-2022"
TokenPrograms == {Token, Token2022}

payer == "payer"
payee == "payee"
mint  == "mint"
Wallets == {payer, payee, "other"}

(* An account: the program that owns it, what its data is (a mint, a mint  *)
(* in the first 82 bytes only, too short, not initialized), the decimals,  *)
(* and the extension types in TLV order.                                   *)
MintAccount(owner, state, decimals, tlv) ==
    [owner |-> owner, state |-> state, decimals |-> decimals, tlv |-> tlv]

Null == MintAccount("none", "null", 0, <<>>)

TokenAccount(owner, amount) == [owner |-> owner, amount |-> amount]
NoAccount == TokenAccount("none", 0)

ASSUME PaymentAssumption ==
    /\ \A a \in MintAccounts : a.state \in {"mint", "base", "short", "uninitialized"} /\ a.decimals \in Nat
    /\ Balances \subseteq Nat /\ Ui \in Nat /\ MaxBanks \in Nat \ {0}

VARIABLES
    chain,          \* the banks the cluster went through, newest last
    pc,
    at,             \* history: the bank a payment's mint was read from
    seen,           \* the mint account as read
    shown,          \* the risks shown for approval
    tx,
    executed        \* history: the mint and the payee's account as paid

vars == <<chain, pc, at, seen, shown, tx, executed>>

-----------------------------------------------------------------------------
(* token_state.rs                                                          *)

(* Both unpack functions trim the data to the base length first, so the    *)
(* extensions do not matter, nor does the owner.                           *)
UnpackMint(account) ==
    IF account.state \in {"mint", "base"} THEN [ok |-> TRUE, decimals |-> account.decimals]
    ELSE [ok |-> FALSE, decimals |-> 0]

UnpackTokenAccount(account) == [ok |-> account # NoAccount, owner |-> account.owner]

KnownExtensions == {"fee", "delegate", "hook", "uninteresting"}

(* The reader walks the entries and gives up at a type it does not know.   *)
GetExtension(tlv, type) ==
    \E i \in 1 .. Len(tlv) :
        tlv[i] = type /\ \A j \in 1 .. i - 1 : tlv[j] \in KnownExtensions

(* The finders unpack the whole data, what follows the base included.      *)
UnpacksWithExtensions(account) == account.state = "mint"

(* "some", "none" or "error"; any error of the reader is "none".           *)
Find(account, type) ==
    IF ~UnpacksWithExtensions(account) THEN "error"
    ELSE IF GetExtension(account.tlv, type) THEN "some" ELSE "none"

FindTransferFeeConfig(account) == Find(account, "fee")

(* Mutant of FindPermanentDelegate: looks at the first entry only.         *)
FindPermanentDelegateFirst(account) ==
    IF account.tlv # <<>> /\ account.tlv[1] = "delegate" THEN "some" ELSE "none"

FindPermanentDelegate(account) == Find(account, "delegate")

FindTransferHook(account) == Find(account, "hook")

Unassessed(account) ==
    "error" \in {FindTransferFeeConfig(account), FindPermanentDelegate(account),
                 FindTransferHook(account)}

Risks(account) ==
    {risk \in {"fee", "delegate", "hook"} :
        \/ risk = "fee" /\ FindTransferFeeConfig(account) = "some"
        \/ risk = "delegate" /\ FindPermanentDelegate(account) = "some"
        \/ risk = "hook" /\ FindTransferHook(account) = "some"}

-----------------------------------------------------------------------------
(* instruction/associated_token_account.rs and instruction/token.rs        *)

GetAssociatedTokenAddress(wallet, m, program) == <<wallet, program, m>>

Build(wallet, m, program, tag) ==
    [op |-> tag, ata |-> GetAssociatedTokenAddress(wallet, m, program),
     wallet |-> wallet, program |-> program]

CreateAssociatedTokenAccount(wallet, m, program) == Build(wallet, m, program, "create")

(* Mutant of CreateAssociatedTokenAccountIdempotent: the wrong tag.        *)
CreateWithPlainTag(wallet, m, program) == Build(wallet, m, program, "create")

CreateAssociatedTokenAccountIdempotent(wallet, m, program) ==
    Build(wallet, m, program, "create-idempotent")

(* Both builders panic when the program is neither of the two.             *)
Panics(program) == program \notin TokenPrograms

(* Mutant of Transfer: source and destination in the wrong order.          *)
TransferReversed(source, destination, amount, program) ==
    [op |-> "transfer", source |-> destination, destination |-> source,
     amount |-> amount, program |-> program]

Transfer(source, destination, amount, program) ==
    [op |-> "transfer", source |-> source, destination |-> destination,
     amount |-> amount, program |-> program]

(* Mutant of TransferChecked: drops what it has to pin.                    *)
TransferUnpinned(source, m, destination, amount, decimals, program) ==
    Transfer(source, destination, amount, program)

TransferChecked(source, m, destination, amount, decimals, program) ==
    [op |-> "transfer-checked", source |-> source, mint |-> m, destination |-> destination,
     amount |-> amount, decimals |-> decimals, program |-> program]

-----------------------------------------------------------------------------
(* The cluster.                                                            *)

Addresses == {GetAssociatedTokenAddress(w, mint, p) : w \in {payer, payee}, p \in TokenPrograms}

Bank == chain[Len(chain)]

Grow(bank) == Len(chain) < MaxBanks /\ chain' = Append(chain, bank)

(* Creating an account that exists is an error, or idempotently a no-op    *)
(* when its owner is the wallet.                                           *)
CanCreate(bank, ix) ==
    /\ bank.mint.state = "mint" /\ bank.mint.owner = ix.program
    /\ \/ bank.accounts[ix.ata] = NoAccount
       \/ ix.op = "create-idempotent" /\ bank.accounts[ix.ata].owner = ix.wallet

AfterCreate(bank, ix) ==
    IF bank.accounts[ix.ata] # NoAccount THEN bank
    ELSE [bank EXCEPT !.accounts[ix.ata] = TokenAccount(ix.wallet, 0)]

(* Mints with a transfer hook need accounts the builders do not provide;   *)
(* those with a fee are not transferred unchecked.                         *)
CanTransfer(bank, ix) ==
    /\ bank.accounts[ix.source].owner = payer
    /\ bank.accounts[ix.source].amount >= ix.amount
    /\ bank.accounts[ix.destination] # NoAccount
    /\ ix.op = "transfer-checked" =>
           /\ bank.mint.state = "mint" /\ bank.mint.owner = ix.program
           /\ bank.mint.decimals = ix.decimals
    /\ \A i \in 1 .. Len(bank.mint.tlv) :
           bank.mint.tlv[i] # "hook" /\ (bank.mint.tlv[i] = "fee" => ix.op = "transfer-checked")

AfterTransfer(bank, ix) ==
    [bank EXCEPT !.accounts[ix.source].amount = @ - ix.amount,
                 !.accounts[ix.destination].amount = @ + ix.amount]

-----------------------------------------------------------------------------

Init ==
    /\ \E m \in MintAccounts, balance \in Balances, held \in BOOLEAN :
          chain = << [mint |-> m,
                      accounts |-> [a \in Addresses |->
                          IF a[1] = payer /\ a[2] = m.owner THEN TokenAccount(payer, balance)
                          ELSE IF held /\ a[2] = m.owner THEN TokenAccount(payee, 0)
                          ELSE NoAccount]] >>
    /\ pc = [p \in Payment |-> "idle"]
    /\ at = [p \in Payment |-> 1]
    /\ seen = [p \in Payment |-> Null]
    /\ shown = [p \in Payment |-> {}]
    /\ tx = [p \in Payment |-> <<>>]
    /\ executed = [p \in Payment |-> [mint |-> Null, to |-> NoAccount]]

Go(p, where) == pc' = [pc EXCEPT ![p] = where]

(* get_account_info for the mint, unpack_mint, and the three finders, any  *)
(* of which may fail.                                                      *)
FetchMint(p) ==
    /\ pc[p] = "idle"
    /\ IF UnpackMint(Bank.mint).ok /\ ~Unassessed(Bank.mint)
       THEN /\ seen' = [seen EXCEPT ![p] = Bank.mint]
            /\ at' = [at EXCEPT ![p] = Len(chain)]
            /\ shown' = [shown EXCEPT ![p] = Risks(Bank.mint)]
            /\ Go(p, "shown")
       ELSE Go(p, "error") /\ UNCHANGED <<seen, at, shown>>
    /\ UNCHANGED <<chain, tx, executed>>

(* Reads the payee's account and builds the transaction.  A legacy mint    *)
(* keeps its decimals for good, so for one an unchecked transfer will do.  *)
FetchPayee(p) ==
    LET program == seen[p].owner
        source  == GetAssociatedTokenAddress(payer, mint, program)
        ata     == GetAssociatedTokenAddress(payee, mint, program)
        there   == UnpackTokenAccount(Bank.accounts[ata])
        amount  == Ui * 10 ^ UnpackMint(seen[p]).decimals
        creates == {CreateAssociatedTokenAccountIdempotent(payee, mint, program)}
                     \cup IF there.ok THEN {}
                          ELSE {CreateAssociatedTokenAccount(payee, mint, program)}
        transfers == {TransferChecked(source, mint, ata, amount,
                                      UnpackMint(seen[p]).decimals, program)}
                       \cup IF program # Token THEN {}
                            ELSE {Transfer(source, ata, amount, program)}
    IN  /\ pc[p] = "shown"
        /\ \/ Panics(program) /\ Go(p, "panicked") /\ UNCHANGED tx
           \/ /\ ~Panics(program)
              /\ there.ok /\ there.owner # payee
              /\ Go(p, "error") /\ UNCHANGED tx
           \/ /\ ~Panics(program)
              /\ there.ok => there.owner = payee
              /\ \E create \in creates, transfer \in transfers :
                    tx' = [tx EXCEPT ![p] = <<create, transfer>>]
              /\ Go(p, "waiting")
        /\ UNCHANGED <<chain, at, seen, shown, executed>>

Execute(p) ==
    /\ pc[p] = "waiting"
    /\ IF CanCreate(Bank, tx[p][1]) /\ CanTransfer(AfterCreate(Bank, tx[p][1]), tx[p][2])
       THEN LET bank == AfterTransfer(AfterCreate(Bank, tx[p][1]), tx[p][2]) IN
            /\ Grow(bank)
            /\ Go(p, "landed")
            /\ executed' = [executed EXCEPT ![p] =
                  [mint |-> bank.mint, to |-> bank.accounts[tx[p][2].destination]]]
       ELSE Go(p, "refused") /\ UNCHANGED <<chain, executed>>
    /\ UNCHANGED <<at, seen, shown, tx>>

(* Others: a Token-2022 mint is closed and its address used again, the     *)
(* payee's account appears, disappears or changes hands, the payer spends. *)
Recreate(m) ==
    /\ Bank.mint.owner = Token2022
    /\ Grow([Bank EXCEPT !.mint = m])
    /\ UNCHANGED <<pc, at, seen, shown, tx, executed>>

Change(address, account) ==
    /\ account # Bank.accounts[address]
    /\ Grow([Bank EXCEPT !.accounts[address] = account])
    /\ UNCHANGED <<pc, at, seen, shown, tx, executed>>

Next ==
    \/ \E p \in Payment : FetchMint(p) \/ FetchPayee(p) \/ Execute(p)
    \/ \E m \in MintAccounts \cup {Null} : Recreate(m)
    \/ \E address \in Addresses :
          \/ /\ address[1] = payee
             /\ \E account \in {NoAccount, TokenAccount(payee, 0), TokenAccount("other", 0)} :
                    Change(address, account)
          \/ address[1] = payer /\ Change(address, TokenAccount(payer, 0))

Spec == Init /\ [][Next]_vars

-----------------------------------------------------------------------------

(* A waiting transaction is one create and one transfer within the         *)
(* accounts of one program, and no account is ever overdrawn.              *)
TypeOK ==
    /\ Len(chain) \in 1 .. MaxBanks
    /\ \A n \in 1 .. Len(chain) :
          /\ chain[n].mint \in MintAccounts \cup {Null}
          /\ \A a \in Addresses : chain[n].accounts[a].owner \in Wallets \cup {"none"}
                                  /\ chain[n].accounts[a].amount \in Nat
    /\ pc \in [Payment -> {"idle", "shown", "waiting", "landed", "refused", "error", "panicked"}]
    /\ at \in [Payment -> 1 .. MaxBanks]
    /\ \A p \in Payment :
          /\ seen[p] \in MintAccounts \cup {Null}
          /\ shown[p] \subseteq {"fee", "delegate", "hook"}
          /\ tx[p] # <<>> => tx[p][1].ata = tx[p][2].destination

(* What lands is what was approved: so many whole tokens, by the mint's    *)
(* decimals at that moment, into an account of the payee's, however the    *)
(* mint and the account changed meanwhile (transfer_checked "pins the mint *)
(* and decimals"; the idempotent create checks the owner).                 *)
LandedAsApproved ==
    \A p \in Payment : pc[p] = "landed" =>
        /\ tx[p][2].amount = Ui * 10 ^ executed[p].mint.decimals
        /\ executed[p].to.owner = payee

(* A payment is refused only for a hook that was shown, for too small a    *)
(* balance, or for a mint or account of the payment that changed since the *)
(* mint was read: the two creates, the two transfers and the addresses     *)
(* derived for either token program are what that program expects.         *)
RefusedForCause ==
    \A p \in Payment : pc[p] = "refused" =>
        \/ "hook" \in shown[p]
        \/ chain[at[p]].accounts[<<payer, seen[p].owner, mint>>].amount
             < Ui * 10 ^ seen[p].decimals
        \/ \E n \in at[p] .. Len(chain) :
              \/ chain[n].mint # chain[at[p]].mint
              \/ \E wallet \in {payer, payee} :
                    LET address == <<wallet, seen[p].owner, mint>>
                    IN  chain[n].accounts[address] # chain[at[p]].accounts[address]

(* "a mint-risk check must never omit it": a permanent delegate of the     *)
(* mint that was read is always shown (find_permanent_delegate).           *)
DelegateNeverOmitted ==
    \A p \in Payment :
        (\E i \in 1 .. Len(seen[p].tlv) : seen[p].tlv[i] = "delegate") => "delegate" \in shown[p]

=============================================================================
