------------------------ MODULE RecurringDelegation -------------------------
(***************************************************************************)
(* Pulling on a recurring delegation: plugins fetch the account, compute   *)
(* what is available (src/src/subscription_state.rs) and submit a transfer *)
(* of it (instruction/subscriptions.rs), while others pull, time goes on   *)
(* and the delegation expires.  The on-chain program is the environment.   *)
(*                                                                         *)
(* Half stands for 2^63: i64 is -Half .. Half - 1, u64 is 0 .. 2*Half - 1. *)
(***************************************************************************)
EXTENDS Integers

CONSTANTS
    Half,
    Plugin,     \* delegatees' plugins working on the same delegation
    Starts, Lengths, Amounts, Expiries,     \* the terms a delegation may be created with
    Horizon,    \* bound: the last time
    NoAsk       \* no transfer outstanding

ASSUME WidthAssumption ==
    /\ Half \in Nat /\ Half > 1
    /\ Lengths \subseteq 1 .. 2 * Half - 1 /\ Amounts \subseteq 0 .. 2 * Half - 1
    /\ Expiries \subseteq 0 .. Half - 1 /\ Starts \subseteq 1 .. Half - 1
    /\ Horizon \in 1 .. Half - 1
    /\ NoAsk \notin Int

VARIABLES
    now,        \* the cluster's clock, a unix timestamp
    account,    \* the RecurringDelegation account on chain
    seen,       \* each plugin's last unpacked copy of it
    asked       \* the amount of each plugin's transfer on its way

vars == <<now, account, seen, asked>>

I64 == -Half .. Half - 1
U64 == 0 .. 2 * Half - 1

(* The fields of an unpacked account that amounts depend on.               *)
Delegation ==
    [current_period_start_ts : I64, period_length_s : U64, expiry_ts : I64,
     amount_per_period : U64, amount_pulled_in_period : U64]

-----------------------------------------------------------------------------
(* subscription_state.rs, with the arithmetic of i64 and u64.              *)

AsI64(x) == IF x < Half THEN x ELSE x - 2 * Half

SaturatingAdd(a, b) ==
    IF a + b > Half - 1 THEN Half - 1 ELSE IF a + b < -Half THEN -Half ELSE a + b

SaturatingSub(a, b) == IF a < b THEN 0 ELSE a - b

IsExpired(d, t) == d.expiry_ts # 0 /\ t >= d.expiry_ts

PeriodElapsed(d, t) ==
    t >= SaturatingAdd(d.current_period_start_ts, AsI64(d.period_length_s))

(* Mutant of AmountAvailable: full again one second late.                  *)
AmountAvailableLate(d, t) ==
    IF IsExpired(d, t) THEN 0
    ELSE IF t > SaturatingAdd(d.current_period_start_ts, AsI64(d.period_length_s))
         THEN d.amount_per_period
         ELSE SaturatingSub(d.amount_per_period, d.amount_pulled_in_period)

(* Mutant of AmountAvailable: skipped periods accumulate.                  *)
AmountAvailableAccumulating(d, t) ==
    IF IsExpired(d, t) THEN 0
    ELSE IF PeriodElapsed(d, t)
         THEN SaturatingSub(2 * d.amount_per_period, d.amount_pulled_in_period)
         ELSE SaturatingSub(d.amount_per_period, d.amount_pulled_in_period)

(* Mutant of AmountAvailable: the elapsed period is not looked at.         *)
AmountAvailableNeverFresh(d, t) ==
    IF IsExpired(d, t) THEN 0
    ELSE SaturatingSub(d.amount_per_period, d.amount_pulled_in_period)

AmountAvailable(d, t) ==
    IF IsExpired(d, t) THEN 0
    ELSE IF PeriodElapsed(d, t)
         THEN d.amount_per_period
         ELSE SaturatingSub(d.amount_per_period, d.amount_pulled_in_period)

-----------------------------------------------------------------------------
(* The program on chain: nothing is paid before the first period or from   *)
(* the expiry on, the period counter rolls forward by whole periods, and   *)
(* skipped ones do not accumulate.                                         *)

Started(d, t) == d.current_period_start_ts <= t

Lapsed(d, t) == d.expiry_ts \in 1 .. t

Rolled(d, t) ==
    LET age     == t - d.current_period_start_ts
        periods == age \div d.period_length_s
    IN  IF age < d.period_length_s THEN d
        ELSE [d EXCEPT !.current_period_start_ts = @ + periods * d.period_length_s,
                       !.amount_pulled_in_period = 0]

Allowed(d, t) ==
    IF Started(d, t) /\ ~Lapsed(d, t)
    THEN Rolled(d, t).amount_per_period - Rolled(d, t).amount_pulled_in_period
    ELSE 0

-----------------------------------------------------------------------------

(* create_recurring_delegation has landed: its first period starts now (a  *)
(* start_ts of 0, which needs an expiry, or of this moment) or later.      *)
Created(s, l, a, e) ==
    [current_period_start_ts |-> s, period_length_s |-> l, expiry_ts |-> e,
     amount_per_period |-> a, amount_pulled_in_period |-> 0]

Init ==
    /\ now = 1
    /\ \E s \in Starts, l \in Lengths, a \in Amounts, e \in Expiries :
          account = Created(s, l, a, e)
    /\ seen = [p \in Plugin |-> account]
    /\ asked = [p \in Plugin |-> NoAsk]

Tick ==
    /\ now < Horizon
    /\ now' = now + 1
    /\ UNCHANGED <<account, seen, asked>>

(* get_account_info and RecurringDelegation::unpack.                       *)
Fetch(p) ==
    /\ asked[p] = NoAsk
    /\ seen' = [seen EXCEPT ![p] = account]
    /\ UNCHANGED <<now, account, asked>>

(* transfer_recurring for all that is available, or for part of it.        *)
Ask(p) ==
    /\ asked[p] = NoAsk
    /\ \E amount \in 1 .. AmountAvailable(seen[p], now) : asked' = [asked EXCEPT ![p] = amount]
    /\ UNCHANGED <<now, account, seen>>

(* The transfer executes, is rejected, or is lost on the way.              *)
Pull(p) ==
    /\ asked[p] # NoAsk
    /\ asked' = [asked EXCEPT ![p] = NoAsk]
    /\ \/ /\ asked[p] <= Allowed(account, now)
          /\ account' = [Rolled(account, now) EXCEPT !.amount_pulled_in_period = @ + asked[p]]
       \/ UNCHANGED account
    /\ UNCHANGED <<now, seen>>

Next == Tick \/ \E p \in Plugin : Fetch(p) \/ Ask(p) \/ Pull(p)

Spec == Init /\ [][Next]_vars

-----------------------------------------------------------------------------

(* Every field keeps its width; pulls stay within a period's amount, and   *)
(* no plugin asks for more than that.                                      *)
TypeOK ==
    /\ now \in 1 .. Horizon
    /\ account \in Delegation
    /\ account.amount_pulled_in_period <= account.amount_per_period
    /\ seen \in [Plugin -> Delegation]
    /\ asked \in [Plugin -> U64 \cup {NoAsk}]
    /\ \A p \in Plugin : asked[p] # NoAsk => asked[p] <= seen[p].amount_per_period

(* The length survives its cast, and the clock is below the value at which *)
(* saturating_add stops.                                                   *)
InRange == account.period_length_s < Half /\ now < Half - 1

(* amount_available never promises less than the program allows, and once  *)
(* the first period has started it promises just that, whatever was pulled *)
(* and however many periods were skipped; only where the cast or the sum   *)
(* is not exact may it promise more.                                       *)
AgreesWithProgram ==
    /\ AmountAvailable(account, now) >= Allowed(account, now)
    /\ InRange /\ Started(account, now)
           => AmountAvailable(account, now) = Allowed(account, now)

(* A stale copy never hides allowance: what a plugin computes from an old  *)
(* fetch is at least what it would compute from a new one.                 *)
StaleNeverLow ==
    \A p \in Plugin : AmountAvailable(seen[p], now) >= AmountAvailable(account, now)

(* A transfer on its way is still allowed when it arrives, however late,   *)
(* unless somebody pulled since the fetch, the delegation has expired or   *)
(* its first period is yet to start.                                       *)
OutstandingHonoured ==
    \A p \in Plugin :
        asked[p] # NoAsk /\ account = seen[p]
          /\ InRange /\ Started(account, now) /\ ~Lapsed(account, now)
            => asked[p] <= Allowed(account, now)

(* amount_available as its comment has it (subscription_state.rs:166-169): *)
(* the full amount once the period has elapsed, otherwise what remains.    *)
AsDocumented(d, t) ==
    IF IsExpired(d, t) THEN 0
    ELSE IF t - d.current_period_start_ts >= d.period_length_s
         THEN d.amount_per_period
         ELSE SaturatingSub(d.amount_per_period, d.amount_pulled_in_period)

=============================================================================
