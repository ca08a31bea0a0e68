---------------------- MODULE RecurringDelegationProofs ---------------------
(***************************************************************************)
(* For words of every width: amount_available never promises less than the *)
(* program would allow, and where the period length fits a signed word it  *)
(* agrees with the program and with its own comment.                       *)
(***************************************************************************)
EXTENDS RecurringDelegation, TLAPS

(* The terms of an account created here.                                   *)
Terms(d) ==
    /\ d \in Delegation
    /\ d.current_period_start_ts > 0
    /\ d.period_length_s \in Lengths
    /\ d.expiry_ts \in Expiries
    /\ d.amount_pulled_in_period <= d.amount_per_period

(* s was read from the account that is now d.                              *)
Behind(s, d) ==
    /\ s.period_length_s = d.period_length_s
    /\ s.expiry_ts = d.expiry_ts
    /\ s.amount_per_period = d.amount_per_period
    /\ \/ s.current_period_start_ts + s.period_length_s <= d.current_period_start_ts
       \/ /\ s.current_period_start_ts = d.current_period_start_ts
          /\ s.amount_pulled_in_period <= d.amount_pulled_in_period

(* A plugin asks for no more than its copy still offers.                   *)
WithinCopy(p) ==
    asked[p] # NoAsk /\ ~IsExpired(seen[p], now) => asked[p] <= AmountAvailable(seen[p], now)

(* A copy is of an earlier period only once a later one has started.       *)
SamePeriod(p) ==
    seen[p].current_period_start_ts = account.current_period_start_ts \/ Started(account, now)

IInv ==
    /\ TypeOK
    /\ Terms(account)
    /\ \A p \in Plugin :
          Terms(seen[p]) /\ Behind(seen[p], account) /\ WithinCopy(p) /\ SamePeriod(p)

-----------------------------------------------------------------------------

(* Whole periods in an interval: none iff it is shorter than a period, and *)
(* together they are no longer than it.                                    *)
LEMMA WholePeriods ==
    ASSUME NEW a \in Nat, NEW l \in Nat, l > 0
    PROVE  /\ a \div l \in Nat
           /\ a \div l = 0 <=> a < l
           /\ (a \div l) * l <= a
           /\ a \div l # 0 => l <= (a \div l) * l
<1> DEFINE k == a \div l
<1>1. k \in Nat /\ k * l <= a /\ a < k * l + l
  BY SMT
<1> HIDE DEF k
<1>2. k # 0 => l <= k * l
  <2>1. SUFFICES ASSUME k # 0 PROVE l <= k * l
    OBVIOUS
  <2>2. PICK j \in Nat : k = j + 1
    <3>1. k - 1 \in Nat /\ k = (k - 1) + 1
      BY <1>1, <2>1
    <3> QED  BY <3>1
  <2>3. k * l = j * l + l /\ j * l >= 0
    BY <2>2, SMT
  <2> QED  BY <2>2, <2>3, <1>1, SMT
<1>3. k = 0 => k * l = 0
  BY SMT
<1>4. k * l \in Nat
  BY <1>1, SMT
<1>5. k = 0 <=> a < l
  BY <1>1, <1>2, <1>3, <1>4
<1> QED  BY <1>1, <1>2, <1>5 DEF k

(* Where they are in range the cast and the saturating sum are exact.      *)
LEMMA ElapsedExact ==
    ASSUME NEW t \in 1 .. Half - 2, NEW d \in Delegation,
           d.current_period_start_ts > 0, d.period_length_s \in 1 .. Half - 1
    PROVE  PeriodElapsed(d, t) <=> t - d.current_period_start_ts >= d.period_length_s
  BY WidthAssumption DEF PeriodElapsed, SaturatingAdd, AsI64, Delegation, I64, U64

(* Whatever a length is cast to, a period over on chain is over here too:  *)
(* a wide length turns negative and saturating_add stops at i64::MAX.      *)
LEMMA ElapsedInTime ==
    ASSUME NEW t \in 1 .. Horizon, NEW d \in Delegation,
           d.current_period_start_ts > 0, d.period_length_s \in Lengths,
           t - d.current_period_start_ts >= d.period_length_s
    PROVE  PeriodElapsed(d, t)
  BY WidthAssumption DEF PeriodElapsed, SaturatingAdd, AsI64, Delegation, I64, U64

(* The copy behind an account sees its period end no later.                *)
LEMMA ElapsedEarlier ==
    ASSUME NEW t \in 1 .. Horizon, NEW s \in Delegation, NEW d \in Delegation,
           Behind(s, d), s.period_length_s \in Lengths, PeriodElapsed(d, t)
    PROVE  PeriodElapsed(s, t)
<1>1. s.period_length_s = d.period_length_s /\ s.current_period_start_ts <= d.current_period_start_ts
  BY WidthAssumption DEF Behind, Delegation, I64, U64
<1> QED  BY <1>1, WidthAssumption DEF PeriodElapsed, SaturatingAdd, AsI64, Delegation, I64, U64

(* amount_available does what its comment says, for lengths and times that *)
(* are in range.                                                           *)
THEOREM AmountIsDocumented ==
    ASSUME NEW t \in 1 .. Half - 2, NEW d \in Delegation,
           d.current_period_start_ts > 0, d.period_length_s \in 1 .. Half - 1
    PROVE  AmountAvailable(d, t) = AsDocumented(d, t)
  BY ElapsedExact DEF AmountAvailable, AsDocumented

(* Code and program agree on when a delegation has expired.                *)
LEMMA LapsedIsExpired ==
    ASSUME NEW t \in 1 .. Horizon, NEW d, d.expiry_ts \in Expiries
    PROVE  Lapsed(d, t) <=> IsExpired(d, t)
<1>1. \A e \in Expiries : e \in 1 .. t <=> e # 0 /\ t >= e
  BY WidthAssumption
<1> QED  BY <1>1 DEF Lapsed, IsExpired

(* What the program allows, in the terms of the code.                      *)
LEMMA AllowedCases ==
    ASSUME NEW t \in 1 .. Horizon, NEW d, Terms(d)
    PROVE  LET age == t - d.current_period_start_ts IN
           /\ ~Started(d, t) \/ IsExpired(d, t) => Allowed(d, t) = 0
           /\ Started(d, t) /\ ~IsExpired(d, t) /\ age < d.period_length_s
                  => Allowed(d, t) = d.amount_per_period - d.amount_pulled_in_period
           /\ Started(d, t) /\ ~IsExpired(d, t) /\ age >= d.period_length_s
                  => Allowed(d, t) = d.amount_per_period
<1> DEFINE age == t - d.current_period_start_ts
<1>1. /\ Lapsed(d, t) <=> IsExpired(d, t)
      /\ d.amount_per_period \in Nat /\ age \in Int /\ d.period_length_s \in Int
  BY LapsedIsExpired, WidthAssumption DEF Terms, Delegation, I64, U64
<1>2. age < d.period_length_s => Rolled(d, t) = d
  BY DEF Rolled
<1>3. age >= d.period_length_s => /\ Rolled(d, t).amount_per_period = d.amount_per_period
                                  /\ Rolled(d, t).amount_pulled_in_period = 0
  <2>1. CASE age >= d.period_length_s
    <3>1. ~(age < d.period_length_s)
      BY <1>1, <2>1
    <3> QED  BY <3>1 DEF Rolled, Terms, Delegation
  <2> QED  BY <2>1
<1>4. CASE ~Started(d, t) \/ IsExpired(d, t)
  BY <1>1, <1>4 DEF Allowed
<1>5. CASE Started(d, t) /\ ~IsExpired(d, t)
  <2>1. Allowed(d, t) = Rolled(d, t).amount_per_period - Rolled(d, t).amount_pulled_in_period
    BY <1>1, <1>5 DEF Allowed
  <2> QED  BY <1>1, <1>2, <1>3, <1>5, <2>1
<1> QED  BY <1>4, <1>5

(* amount_available agrees with the program's own accounting of periods.   *)
LEMMA AvailableIsAllowed ==
    ASSUME NEW t \in 1 .. Horizon, NEW d, Terms(d),
           d.period_length_s < Half, t < Half - 1, Started(d, t)
    PROVE  AmountAvailable(d, t) = Allowed(d, t)
<1> DEFINE age == t - d.current_period_start_ts
           l == d.period_length_s
<1>1. /\ t \in 1 .. Half - 2 /\ l \in 1 .. Half - 1 /\ age \in Int
      /\ d.amount_per_period \in Nat /\ d.amount_pulled_in_period \in Nat
  BY WidthAssumption DEF Terms, Delegation, I64, U64
<1>2. PeriodElapsed(d, t) <=> age >= l
  BY <1>1, ElapsedExact DEF Terms
<1>3. CASE IsExpired(d, t)
  BY <1>3, AllowedCases DEF AmountAvailable
<1>4. CASE ~IsExpired(d, t) /\ age >= l
  BY <1>2, <1>4, AllowedCases DEF AmountAvailable
<1>5. CASE ~IsExpired(d, t) /\ age < l
  <2>1. ~PeriodElapsed(d, t)
    BY <1>1, <1>2, <1>5
  <2>2. AmountAvailable(d, t) = SaturatingSub(d.amount_per_period, d.amount_pulled_in_period)
    BY <1>5, <2>1 DEF AmountAvailable
  <2>3. Allowed(d, t) = d.amount_per_period - d.amount_pulled_in_period
    BY <1>5, AllowedCases
  <2> QED  BY <1>1, <2>2, <2>3 DEF SaturatingSub, Terms
<1> QED  BY <1>1, <1>3, <1>4, <1>5

(* For lengths of every width it never promises less than the program.     *)
LEMMA AvailableCovers ==
    ASSUME NEW t \in 1 .. Horizon, NEW d, Terms(d)
    PROVE  AmountAvailable(d, t) >= Allowed(d, t)
<1> DEFINE age == t - d.current_period_start_ts
           l == d.period_length_s
<1>1. /\ l \in Int /\ age \in Int
      /\ d.amount_per_period \in Nat /\ d.amount_pulled_in_period \in Nat
      /\ d.amount_pulled_in_period <= d.amount_per_period
  BY WidthAssumption DEF Terms, Delegation, I64, U64
<1>2. age >= l => PeriodElapsed(d, t)
  BY ElapsedInTime DEF Terms
<1>3. SaturatingSub(d.amount_per_period, d.amount_pulled_in_period)
          = d.amount_per_period - d.amount_pulled_in_period
  BY <1>1 DEF SaturatingSub
<1>4. /\ AmountAvailable(d, t) \in Nat
      /\ ~IsExpired(d, t) => AmountAvailable(d, t) >= d.amount_per_period - d.amount_pulled_in_period
      /\ ~IsExpired(d, t) /\ PeriodElapsed(d, t) => AmountAvailable(d, t) = d.amount_per_period
  BY <1>1, <1>3 DEF AmountAvailable
<1>5. CASE ~Started(d, t) \/ IsExpired(d, t)
  BY <1>4, <1>5, AllowedCases
<1>6. CASE Started(d, t) /\ ~IsExpired(d, t) /\ age < l
  BY <1>1, <1>4, <1>6, AllowedCases
<1>7. CASE Started(d, t) /\ ~IsExpired(d, t) /\ age >= l
  BY <1>1, <1>2, <1>4, <1>7, AllowedCases
<1> QED  BY <1>1, <1>5, <1>6, <1>7

(* Rolling an account forward keeps its terms, and older copies behind it. *)
LEMMA RolledTerms ==
    ASSUME NEW t \in 1 .. Horizon, NEW d, Terms(d)
    PROVE  LET r == Rolled(d, t) IN
           /\ Terms(r)
           /\ r.period_length_s = d.period_length_s
           /\ r.expiry_ts = d.expiry_ts
           /\ r.amount_per_period = d.amount_per_period
           /\ Behind(d, r)
           /\ r.current_period_start_ts = d.current_period_start_ts \/ Started(r, t)
<1> DEFINE age == t - d.current_period_start_ts
           l == d.period_length_s
           k == age \div l
<1>1. age \in Int /\ l \in Nat /\ l > 0
  BY WidthAssumption DEF Terms, Delegation, I64, U64
<1>2. CASE age < l
  <2>1. Rolled(d, t) = d
    BY <1>2 DEF Rolled
  <2>2. Behind(d, d)
    BY WidthAssumption DEF Behind, Terms, Delegation, U64
  <2> QED  BY <2>1, <2>2
<1>3. CASE ~(age < l)
  <2>0. age \in Nat
    BY <1>1, <1>3
  <2>1. k \in Nat /\ k * l <= age /\ l <= k * l
    BY <1>1, <1>3, <2>0, WholePeriods
  <2>2. k * l \in Int
    BY <1>1, <2>1, SMT
  <2> DEFINE new == d.current_period_start_ts + k * l
  <2>3. Rolled(d, t) = [d EXCEPT !.current_period_start_ts = new, !.amount_pulled_in_period = 0]
    BY <1>3 DEF Rolled
  <2>4. new \in 1 .. t /\ d.current_period_start_ts + l <= new
    BY <1>1, <2>0, <2>1, <2>2, WidthAssumption DEF Terms, Delegation, I64
  <2>5. new \in I64 /\ new > 0 /\ 0 \in U64
    BY <2>4, WidthAssumption DEF I64, U64
  <2> HIDE DEF new
  <2>6. d \in Delegation /\ d.amount_per_period \in Nat
    BY WidthAssumption DEF Terms, Delegation, U64
  <2>7. /\ Rolled(d, t) \in Delegation
        /\ Rolled(d, t).current_period_start_ts = new
        /\ Rolled(d, t).amount_pulled_in_period = 0
        /\ Rolled(d, t).period_length_s = d.period_length_s
        /\ Rolled(d, t).expiry_ts = d.expiry_ts
        /\ Rolled(d, t).amount_per_period = d.amount_per_period
    BY <2>3, <2>5, <2>6 DEF Delegation
  <2>8. Terms(Rolled(d, t))
    BY <2>5, <2>6, <2>7 DEF Terms
  <2>9. Started(Rolled(d, t), t)
    BY <2>4, <2>7 DEF Started
  <2> QED  BY <2>4, <2>7, <2>8, <2>9 DEF Behind
<1> QED  BY <1>2, <1>3

(* What a copy offers does not shrink with time while it is not expired.   *)
LEMMA OfferGrows ==
    ASSUME NEW d \in Delegation, NEW t \in 1 .. Horizon, t + 1 <= Horizon,
           ~IsExpired(d, t + 1)
    PROVE  ~IsExpired(d, t) /\ AmountAvailable(d, t) <= AmountAvailable(d, t + 1)
<1>1. ~IsExpired(d, t)
  BY DEF IsExpired, Delegation, I64
<1>2. SaturatingAdd(d.current_period_start_ts, AsI64(d.period_length_s)) \in Int
  BY WidthAssumption DEF SaturatingAdd, AsI64, Delegation, I64, U64
<1>3. PeriodElapsed(d, t) => PeriodElapsed(d, t + 1)
  BY <1>2 DEF PeriodElapsed
<1>4. SaturatingSub(d.amount_per_period, d.amount_pulled_in_period) <= d.amount_per_period
  BY WidthAssumption DEF SaturatingSub, Delegation, U64
<1>5. /\ d.amount_per_period \in Int
      /\ SaturatingSub(d.amount_per_period, d.amount_pulled_in_period) \in Int
  BY WidthAssumption DEF SaturatingSub, Delegation, U64
<1> QED  BY <1>1, <1>3, <1>4, <1>5 DEF AmountAvailable

(* The offer is an unsigned word.                                          *)
LEMMA OfferType ==
    ASSUME NEW d \in Delegation, NEW t \in Int
    PROVE  AmountAvailable(d, t) \in U64 /\ AmountAvailable(d, t) <= d.amount_per_period
  BY WidthAssumption DEF AmountAvailable, SaturatingSub, Delegation, U64

-----------------------------------------------------------------------------

LEMMA InitIInv == Init => IInv
<1> SUFFICES ASSUME Init PROVE IInv
  OBVIOUS
<1>1. PICK s \in Starts, l \in Lengths, a \in Amounts, e \in Expiries : account = Created(s, l, a, e)
  BY DEF Init
<1>2. account \in Delegation
  BY <1>1, WidthAssumption DEF Created, Delegation, I64, U64
<1>3. Terms(account)
  BY <1>1, <1>2, WidthAssumption DEF Init, Created, Terms
<1>4. TypeOK
  BY <1>2, <1>3, WidthAssumption DEF Init, TypeOK, Terms
<1>5. ASSUME NEW p \in Plugin
      PROVE  Terms(seen[p]) /\ Behind(seen[p], account) /\ WithinCopy(p) /\ SamePeriod(p)
  <2>1. seen[p] = account /\ asked[p] = NoAsk
    BY DEF Init
  <2> QED  BY <1>1, <1>3, <2>1, WidthAssumption DEF Behind, WithinCopy, SamePeriod, Created
<1> QED  BY <1>3, <1>4, <1>5 DEF IInv

(* Behind is kept along a chain of later accounts.                         *)
LEMMA BehindTrans ==
    ASSUME NEW s \in Delegation, NEW d \in Delegation, NEW r \in Delegation,
           Behind(s, d), Behind(d, r)
    PROVE  Behind(s, r)
  BY WidthAssumption DEF Behind, Delegation, I64, U64

LEMMA TickIInv == IInv /\ Tick => IInv'
<1> SUFFICES ASSUME IInv, Tick PROVE IInv'
  OBVIOUS
<1>1. /\ now \in 1 .. Horizon /\ now' = now + 1 /\ now' \in 1 .. Horizon
      /\ account' = account /\ seen' = seen /\ asked' = asked
  BY WidthAssumption DEF IInv, TypeOK, Tick
<1>2. TypeOK'
  BY <1>1 DEF IInv, TypeOK
<1>3. Terms(account)' /\ \A p \in Plugin : Terms(seen[p])'
  BY <1>1 DEF IInv, Terms
<1>4. ASSUME NEW p \in Plugin PROVE WithinCopy(p)'
  <2> SUFFICES ASSUME asked[p] # NoAsk, ~IsExpired(seen[p], now + 1)
               PROVE  asked[p] <= AmountAvailable(seen[p], now + 1)
    BY <1>1 DEF WithinCopy
  <2>1. seen[p] \in Delegation
    BY DEF IInv, TypeOK
  <2>2. /\ ~IsExpired(seen[p], now)
        /\ AmountAvailable(seen[p], now) <= AmountAvailable(seen[p], now + 1)
    BY <1>1, <2>1, OfferGrows
  <2>3. asked[p] <= AmountAvailable(seen[p], now)
    BY <2>2 DEF IInv, WithinCopy
  <2>4. /\ asked[p] \in Int
        /\ AmountAvailable(seen[p], now) \in Int
        /\ AmountAvailable(seen[p], now + 1) \in Int
    BY <1>1, <2>1, OfferType, WidthAssumption DEF IInv, TypeOK, U64
  <2> QED  BY <2>2, <2>3, <2>4
<1>5. ASSUME NEW p \in Plugin PROVE SamePeriod(p)'
  <2>1. account.current_period_start_ts \in Int
    BY DEF IInv, TypeOK, Delegation, I64
  <2> QED  BY <1>1, <2>1 DEF IInv, SamePeriod, Started
<1> QED  BY <1>1, <1>2, <1>3, <1>4, <1>5 DEF IInv

LEMMA FetchIInv == \A p \in Plugin : IInv /\ Fetch(p) => IInv'
<1> SUFFICES ASSUME NEW p \in Plugin, IInv, Fetch(p) PROVE IInv'
  OBVIOUS
<1>1. /\ seen' = [seen EXCEPT ![p] = account] /\ asked[p] = NoAsk
      /\ now' = now /\ account' = account /\ asked' = asked
  BY DEF Fetch
<1>2. TypeOK'
  BY <1>1 DEF IInv, TypeOK
<1>3. \A q \in Plugin : seen'[q] = IF q = p THEN account ELSE seen[q]
  BY <1>1 DEF IInv, TypeOK
<1>4. Behind(account, account)
  BY WidthAssumption DEF Behind, IInv, Terms, Delegation, U64
<1>5. Terms(account)'
  BY <1>1 DEF IInv, Terms
<1>6. ASSUME NEW q \in Plugin
      PROVE  Terms(seen[q])' /\ Behind(seen[q], account)' /\ WithinCopy(q)' /\ SamePeriod(q)'
  <2>1. CASE q = p
    BY <1>1, <1>3, <1>4, <1>5, <2>1 DEF WithinCopy, SamePeriod, Terms
  <2>2. CASE q # p
    BY <1>1, <1>3, <2>2 DEF IInv, WithinCopy, SamePeriod, Started, Terms
  <2> QED  BY <2>1, <2>2
<1> QED  BY <1>2, <1>5, <1>6 DEF IInv

LEMMA AskIInv == \A p \in Plugin : IInv /\ Ask(p) => IInv'
<1> SUFFICES ASSUME NEW p \in Plugin, IInv, Ask(p) PROVE IInv'
  OBVIOUS
<1>1. PICK amount \in 1 .. AmountAvailable(seen[p], now) : asked' = [asked EXCEPT ![p] = amount]
  BY DEF Ask
<1>2. now' = now /\ account' = account /\ seen' = seen
  BY DEF Ask
<1>3. /\ AmountAvailable(seen[p], now) \in U64
      /\ AmountAvailable(seen[p], now) <= seen[p].amount_per_period
      /\ seen[p].amount_per_period \in U64
  BY OfferType, WidthAssumption DEF IInv, TypeOK, Delegation
<1>4. /\ amount \in U64 /\ amount <= AmountAvailable(seen[p], now)
      /\ amount <= seen[p].amount_per_period
  BY <1>3, WidthAssumption DEF U64
<1>5. TypeOK'
  BY <1>1, <1>2, <1>4 DEF IInv, TypeOK
<1>6. /\ Terms(account)'
      /\ \A q \in Plugin : Terms(seen[q])' /\ Behind(seen[q], account)' /\ SamePeriod(q)'
  BY <1>2 DEF IInv, Terms, SamePeriod, Started
<1>7. ASSUME NEW q \in Plugin PROVE WithinCopy(q)'
  <2>1. asked'[q] = IF q = p THEN amount ELSE asked[q]
    BY <1>1 DEF IInv, TypeOK
  <2> QED  BY <1>2, <1>4, <2>1 DEF IInv, WithinCopy
<1> QED  BY <1>5, <1>6, <1>7 DEF IInv

LEMMA PullIInv == \A p \in Plugin : IInv /\ Pull(p) => IInv'
<1> SUFFICES ASSUME NEW p \in Plugin, IInv, Pull(p) PROVE IInv'
  OBVIOUS
<1>1. /\ now' = now /\ seen' = seen /\ asked[p] # NoAsk
      /\ asked' = [asked EXCEPT ![p] = NoAsk]
  BY DEF Pull
<1>2. now \in 1 .. Horizon /\ asked' \in [Plugin -> U64 \cup {NoAsk}]
  BY <1>1 DEF IInv, TypeOK
<1>3. \A q \in Plugin : WithinCopy(q)' /\ Terms(seen[q])'
  BY <1>1 DEF IInv, TypeOK, WithinCopy, Terms
<1>4. CASE UNCHANGED account
  BY <1>1, <1>2, <1>3, <1>4 DEF IInv, TypeOK, Terms, SamePeriod, Started
<1>5. CASE /\ asked[p] <= Allowed(account, now)
           /\ account' = [Rolled(account, now) EXCEPT !.amount_pulled_in_period = @ + asked[p]]
  <2> DEFINE r == Rolled(account, now)
  <2>1. /\ Terms(r) /\ r \in Delegation
        /\ r.period_length_s = account.period_length_s
        /\ r.expiry_ts = account.expiry_ts
        /\ r.amount_per_period = account.amount_per_period
        /\ r.amount_pulled_in_period <= r.amount_per_period
        /\ Behind(account, r)
        /\ r.current_period_start_ts = account.current_period_start_ts \/ Started(r, now)
    BY <1>2, RolledTerms DEF IInv, Terms
  <2>2. asked[p] \in U64
    BY <1>1 DEF IInv, TypeOK
  <2>3. asked[p] <= r.amount_per_period - r.amount_pulled_in_period \/ asked[p] <= 0
    BY <1>5 DEF Allowed
  <2>4. r.amount_pulled_in_period + asked[p] <= r.amount_per_period
    BY <2>1, <2>2, <2>3, WidthAssumption DEF Delegation, U64
  <2>5. account' = [r EXCEPT !.amount_pulled_in_period = @ + asked[p]]
    BY <1>5
  <2> HIDE DEF r
  <2>6. r.amount_pulled_in_period + asked[p] \in U64
    BY <2>1, <2>2, <2>4, WidthAssumption DEF Delegation, U64
  <2>7. /\ account' \in Delegation
        /\ account'.current_period_start_ts = r.current_period_start_ts
        /\ account'.period_length_s = r.period_length_s
        /\ account'.expiry_ts = r.expiry_ts
        /\ account'.amount_per_period = r.amount_per_period
        /\ account'.amount_pulled_in_period = r.amount_pulled_in_period + asked[p]
    BY <2>1, <2>5, <2>6 DEF Delegation
  <2>8. Terms(account)'
    BY <1>1, <2>1, <2>4, <2>7 DEF IInv, Terms
  <2>9. Behind(r, account')
    BY <2>1, <2>2, <2>7, WidthAssumption DEF Behind, Delegation, U64
  <2>10. ASSUME NEW q \in Plugin PROVE Behind(seen[q], account)'
    <3>1. seen[q] \in Delegation /\ account \in Delegation /\ Behind(seen[q], account)
      BY DEF IInv, TypeOK
    <3>2. Behind(seen[q], r)
      BY <2>1, <3>1, BehindTrans
    <3>3. Behind(seen[q], account')
      BY <2>1, <2>7, <2>9, <3>1, <3>2, BehindTrans
    <3> QED  BY <1>1, <3>3
  <2>11. TypeOK'
    BY <1>1, <1>2, <2>7, <2>8 DEF IInv, TypeOK, Terms
  <2>12. ASSUME NEW q \in Plugin PROVE SamePeriod(q)'
    BY <1>1, <2>1, <2>7 DEF IInv, SamePeriod, Started
  <2> QED  BY <1>3, <2>8, <2>10, <2>11, <2>12 DEF IInv
<1> QED  BY <1>4, <1>5 DEF Pull

(* The account a plugin pulls from keeps its terms and its cap, every copy *)
(* lies behind it, and no plugin asks for more than its copy offers.       *)
THEOREM Invariant == Spec => []IInv
<1>1. Init => IInv
  BY InitIInv
<1>2. IInv /\ [Next]_vars => IInv'
  <2> SUFFICES ASSUME IInv, [Next]_vars PROVE IInv'
    OBVIOUS
  <2>1. CASE Tick
    BY <2>1, TickIInv
  <2>2. ASSUME NEW p \in Plugin, Fetch(p) PROVE IInv'
    BY <2>2, FetchIInv
  <2>3. ASSUME NEW p \in Plugin, Ask(p) PROVE IInv'
    BY <2>3, AskIInv
  <2>4. ASSUME NEW p \in Plugin, Pull(p) PROVE IInv'
    BY <2>4, PullIInv
  <2>5. CASE UNCHANGED vars
    BY <2>5 DEF vars, IInv, TypeOK, Terms, WithinCopy, SamePeriod, Started
  <2> QED  BY <2>1, <2>2, <2>3, <2>4, <2>5 DEF Next
<1> QED  BY <1>1, <1>2, PTL DEF Spec

-----------------------------------------------------------------------------

(* Pulls never exceed the cap of a period, and every field keeps its width.*)
THEOREM TypeCorrect == Spec => []TypeOK
<1>1. IInv => TypeOK
  BY DEF IInv
<1> QED  BY <1>1, Invariant, PTL

(* At every moment amount_available is at least what the program allows,   *)
(* and no more than that once the first period has started, where the cast *)
(* of the period length is exact and the clock below i64::MAX.             *)
THEOREM AgreesAlways == Spec => []AgreesWithProgram
<1>1. IInv => AgreesWithProgram
  <2> SUFFICES ASSUME IInv PROVE AgreesWithProgram
    OBVIOUS
  <2>1. now \in 1 .. Horizon /\ Terms(account)
    BY DEF IInv, TypeOK
  <2> QED  BY <2>1, AvailableIsAllowed, AvailableCovers DEF AgreesWithProgram, InRange
<1> QED  BY <1>1, Invariant, PTL

(* A plugin's stale copy never hides allowance, whatever the cast makes of *)
(* the period length (subscription_state.rs, period_elapsed).              *)
THEOREM StaleCopiesOfferMore == Spec => []StaleNeverLow
<1>1. IInv => StaleNeverLow
  <2> SUFFICES ASSUME IInv, NEW p \in Plugin
               PROVE  AmountAvailable(seen[p], now) >= AmountAvailable(account, now)
    BY DEF StaleNeverLow
  <2> DEFINE s == seen[p]
  <2>1. now \in 1 .. Horizon /\ Terms(s) /\ Terms(account) /\ Behind(s, account)
    BY DEF IInv, TypeOK
  <2>2. IsExpired(s, now) <=> IsExpired(account, now)
    BY <2>1 DEF IsExpired, Behind
  <2>3. PeriodElapsed(account, now) => PeriodElapsed(s, now)
    BY <2>1, ElapsedEarlier DEF Terms
  <2>4. /\ s.amount_per_period = account.amount_per_period
        /\ AmountAvailable(account, now) <= account.amount_per_period
        /\ AmountAvailable(account, now) \in Nat /\ account.amount_per_period \in Nat
    BY <2>1, OfferType, WidthAssumption DEF Terms, Behind, Delegation, U64
  <2>5. CASE IsExpired(s, now)
    BY <2>2, <2>5 DEF AmountAvailable
  <2>6. CASE ~IsExpired(s, now) /\ PeriodElapsed(s, now)
    BY <2>4, <2>6 DEF AmountAvailable
  <2>7. CASE ~IsExpired(s, now) /\ ~PeriodElapsed(s, now)
    <3>1. s.current_period_start_ts + s.period_length_s > account.current_period_start_ts
      <4>1. now - s.current_period_start_ts < s.period_length_s /\ s.period_length_s > 0
        BY <2>1, <2>7, ElapsedInTime, WidthAssumption DEF Terms, Delegation, I64, U64
      <4>2. \/ s.current_period_start_ts = account.current_period_start_ts
            \/ account.current_period_start_ts <= now
        BY DEF IInv, SamePeriod, Started
      <4> QED  BY <2>1, <4>1, <4>2 DEF Terms, Delegation, I64, U64
    <3>2. s.amount_pulled_in_period <= account.amount_pulled_in_period
      BY <2>1, <3>1, WidthAssumption DEF Terms, Behind, Delegation, I64, U64
    <3>3. /\ AmountAvailable(s, now) = SaturatingSub(s.amount_per_period, s.amount_pulled_in_period)
          /\ AmountAvailable(account, now)
                = SaturatingSub(account.amount_per_period, account.amount_pulled_in_period)
      BY <2>2, <2>3, <2>7 DEF AmountAvailable
    <3> QED  BY <2>1, <2>4, <3>2, <3>3, WidthAssumption DEF SaturatingSub, Terms, Delegation, U64
  <2> QED  BY <2>5, <2>6, <2>7
<1> QED  BY <1>1, Invariant, PTL

(* What a plugin asked for is still allowed when it arrives, unless the    *)
(* account has changed or expired since, or its first period is to come.   *)
THEOREM AskedIsHonoured == Spec => []OutstandingHonoured
<1>1. IInv => OutstandingHonoured
  <2> SUFFICES ASSUME IInv, NEW p \in Plugin, asked[p] # NoAsk, account = seen[p],
                      InRange, Started(account, now), ~Lapsed(account, now)
               PROVE  asked[p] <= Allowed(account, now)
    BY DEF OutstandingHonoured
  <2>1. now \in 1 .. Horizon /\ Terms(account)
    BY DEF IInv, TypeOK
  <2>2. ~IsExpired(account, now)
    BY <2>1, LapsedIsExpired DEF Terms
  <2>3. asked[p] <= AmountAvailable(account, now)
    BY <2>2 DEF IInv, WithinCopy
  <2>4. AmountAvailable(account, now) = Allowed(account, now)
    BY <2>1, AvailableIsAllowed DEF InRange
  <2> QED  BY <2>3, <2>4
<1> QED  BY <1>1, Invariant, PTL

(* A length of 2^63 seconds or more is cast to a negative one, so every    *)
(* moment is past the period: the whole amount is offered whatever was     *)
(* pulled, where the program allows what is left (`period_length_s as i64`,*)
(* subscription_state.rs:177).                                             *)
THEOREM WideLengthsForgetPulls ==
    ASSUME NEW t \in 1 .. Horizon, NEW d, Terms(d),
           Started(d, t), ~IsExpired(d, t), d.period_length_s >= Half
    PROVE  /\ AmountAvailable(d, t) = d.amount_per_period
           /\ Allowed(d, t) = d.amount_per_period - d.amount_pulled_in_period
<1>1. PeriodElapsed(d, t)
  BY WidthAssumption DEF Started, PeriodElapsed, SaturatingAdd, AsI64, Terms, Delegation, I64, U64
<1>2. t - d.current_period_start_ts < d.period_length_s
  BY WidthAssumption DEF Terms, Delegation, I64, U64
<1> QED  BY <1>1, <1>2, AllowedCases DEF AmountAvailable

=============================================================================
