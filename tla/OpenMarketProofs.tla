------------------------- MODULE OpenMarketProofs -------------------------
(***************************************************************************)
(* Theorems about OpenMarket, for every number of markets, users, rates    *)
(* and amounts.                                                            *)
(***************************************************************************)
EXTENDS OpenMarket, SumLemmas

USE SetsAssumption, AmountsAssumption, RatesAssumption, LimitsAssumption

-----------------------------------------------------------------------------
(* Division and rates. *)

LEMMA DivNat ==
  ASSUME NEW a \in Nat, NEW b \in Nat \ {0}
  PROVE  a \div b \in Nat /\ b * (a \div b) <= a /\ a < b * (a \div b) + b
OBVIOUS

LEMMA TruncDivNat ==
  ASSUME NEW a \in Nat, NEW b \in Nat \ {0}
  PROVE  /\ TruncDiv(a, b) \in Nat
         /\ b * TruncDiv(a, b) <= a /\ a < b * TruncDiv(a, b) + b
<1>1. TruncDiv(a, b) = a \div b
  BY DEF TruncDiv
<1>2. QED
  BY <1>1, DivNat

LEMMA TruncDivInt ==
  ASSUME NEW a \in Int, NEW b \in Nat \ {0}
  PROVE  TruncDiv(a, b) \in Int
BY DEF TruncDiv

\* A rate of at most 100 % takes at most the amount.
LEMMA BpsBounds ==
  ASSUME NEW a \in Nat, NEW bps \in 0..BPS
  PROVE  Bps(a, bps, BPS) \in 0..a
<1>1. a * bps \in Nat /\ a * bps <= a * BPS
  OBVIOUS
<1> DEFINE q == Bps(a, bps, BPS)
<1>2. q \in Nat /\ BPS * q <= a * bps
  BY <1>1, TruncDivNat DEF Bps
<1> HIDE DEF q
<1>3. BPS * q <= BPS * a
  BY <1>1, <1>2
<1>4. q <= a
  BY <1>2, <1>3
<1>5. QED
  BY <1>2, <1>4 DEF q

-----------------------------------------------------------------------------
(* Credited is a recursive function on Nat: it exists, and grows. *)

AfterBody(g, i, stake, fee, pool) ==
  IF i = 0 THEN stake ELSE g[i - 1] + TruncDiv(fee * g[i - 1], pool)

IsAfter(g, stake, fee, pool) == g = [i \in Nat |-> AfterBody(g, i, stake, fee, pool)]

LEMMA CreditedUnfold ==
  ASSUME NEW stake, NEW n, NEW fee, NEW pool
  PROVE  Credited(stake, n, fee, pool) = (CHOOSE g : IsAfter(g, stake, fee, pool))[n]
BY DEF Credited, IsAfter, AfterBody

\* g follows the recursion up to n.
UpTo(g, n, stake, fee, pool) ==
  \A i \in Nat : i <= n => g[i] = AfterBody(g, i, stake, fee, pool)

LEMMA UpToUnique ==
  ASSUME NEW stake, NEW fee, NEW pool, NEW g, NEW h, NEW n \in Nat,
         UpTo(g, n, stake, fee, pool), UpTo(h, n, stake, fee, pool)
  PROVE  \A i \in Nat : i <= n => g[i] = h[i]
<1> DEFINE B == {i \in Nat : i <= n /\ g[i] # h[i]}
<1>1. B = {}
  <2> SUFFICES ASSUME B # {} PROVE FALSE
    OBVIOUS
  <2>1. B \subseteq Nat
    OBVIOUS
  <2>2. PICK i \in B : \A j \in B : i <= j
    BY <2>1, NatMin
  <2>3. i \in Nat /\ i <= n /\ g[i] # h[i]
    OBVIOUS
  <2>4. g[i] = AfterBody(g, i, stake, fee, pool) /\ h[i] = AfterBody(h, i, stake, fee, pool)
    BY <2>3 DEF UpTo
  <2>5. i # 0
    BY <2>3, <2>4 DEF AfterBody
  <2>6. i - 1 \in Nat /\ i - 1 <= n /\ ~(i <= i - 1)
    BY <2>3, <2>5
  <2>7. g[i - 1] = h[i - 1]
    BY <2>2, <2>6
  <2>8. QED
    BY <2>3, <2>4, <2>5, <2>7 DEF AfterBody
<1>2. QED
  BY <1>1

LEMMA UpToExists ==
  ASSUME NEW stake \in Nat, NEW fee \in Nat, NEW pool \in Nat \ {0}
  PROVE  \A n \in Nat : \E g \in [Nat -> Nat] : UpTo(g, n, stake, fee, pool)
<1> DEFINE B == {n \in Nat : ~\E g \in [Nat -> Nat] : UpTo(g, n, stake, fee, pool)}
<1>1. B = {}
  <2> SUFFICES ASSUME B # {} PROVE FALSE
    OBVIOUS
  <2>1. B \subseteq Nat
    OBVIOUS
  <2>2. PICK n \in B : \A j \in B : n <= j
    BY <2>1, NatMin
  <2>3. n \in Nat /\ ~\E g \in [Nat -> Nat] : UpTo(g, n, stake, fee, pool)
    OBVIOUS
  <2>4. n # 0
    <3> SUFFICES ASSUME n = 0 PROVE FALSE
      OBVIOUS
    <3> DEFINE g == [i \in Nat |-> stake]
    <3>1. g \in [Nat -> Nat] /\ g[0] = stake
      OBVIOUS
    <3>2. \A i \in Nat : i <= 0 => i = 0
      OBVIOUS
    <3>3. UpTo(g, 0, stake, fee, pool)
      <4> HIDE DEF g
      <4>1. QED
        BY <3>1, <3>2 DEF UpTo, AfterBody
    <3>4. QED
      BY <2>3, <3>1, <3>3
  <2>5. n - 1 \in Nat /\ n - 1 \notin B
    <3>1. n - 1 \in Nat /\ ~(n <= n - 1)
      BY <2>3, <2>4
    <3> HIDE DEF B
    <3>2. QED
      BY <2>2, <3>1
  <2>6. PICK g \in [Nat -> Nat] : UpTo(g, n - 1, stake, fee, pool)
    BY <2>5
  <2> DEFINE a == g[n - 1]
             x == a + TruncDiv(fee * a, pool)
             h == [g EXCEPT ![n] = x]
  <2>7. a \in Nat /\ fee * a \in Nat
    BY <2>5
  <2>8. x \in Nat
    BY <2>7, TruncDivNat
  <2>9. h \in [Nat -> Nat] /\ h[n] = x /\ \A i \in Nat : i # n => h[i] = g[i]
    <3> HIDE DEF x
    <3>1. QED
      BY <2>3, <2>8
  <2>10. UpTo(h, n, stake, fee, pool)
    <3> SUFFICES ASSUME NEW i \in Nat, i <= n
                 PROVE  h[i] = AfterBody(h, i, stake, fee, pool)
      BY DEF UpTo
    <3>1. CASE i = n
      <4>1. h[i - 1] = a
        BY <2>3, <2>5, <2>9, <3>1
      <4>2. h[i] = x
        BY <2>9, <3>1
      <4> HIDE DEF h, a
      <4>3. QED
        BY <2>4, <3>1, <4>1, <4>2 DEF AfterBody, x
    <3>2. CASE i # n
      <4>1. i <= n - 1 /\ i - 1 # n
        BY <2>3, <3>2
      <4>2. g[i] = AfterBody(g, i, stake, fee, pool)
        BY <2>6, <4>1 DEF UpTo
      <4>3. i # 0 => i - 1 \in Nat
        OBVIOUS
      <4>4. h[i] = g[i] /\ (i # 0 => h[i - 1] = g[i - 1])
        BY <2>9, <3>2, <4>1, <4>3
      <4> HIDE DEF h
      <4>5. QED
        BY <4>2, <4>4 DEF AfterBody
    <3>3. QED
      BY <3>1, <3>2
  <2>11. QED
    BY <2>3, <2>9, <2>10
<1>2. QED
  BY <1>1

LEMMA AfterExists ==
  ASSUME NEW stake \in Nat, NEW fee \in Nat, NEW pool \in Nat \ {0}
  PROVE  \E g \in [Nat -> Nat] : IsAfter(g, stake, fee, pool)
<1> DEFINE U(g, n) == UpTo(g, n, stake, fee, pool)
           w(n) == CHOOSE g \in [Nat -> Nat] : U(g, n)
           G == [i \in Nat |-> w(i)[i]]
<1>1. \A n \in Nat : w(n) \in [Nat -> Nat] /\ U(w(n), n)
  BY UpToExists
<1>2. G \in [Nat -> Nat]
  <2> HIDE DEF w
  <2>1. QED
    BY <1>1
<1>3. ASSUME NEW i \in Nat PROVE G[i] = AfterBody(G, i, stake, fee, pool)
  <2> HIDE DEF w
  <2>1. G[i] = w(i)[i]
    OBVIOUS
  <2>2. w(i)[i] = AfterBody(w(i), i, stake, fee, pool)
    BY <1>1 DEF UpTo
  <2>3. CASE i = 0
    BY <2>1, <2>2, <2>3 DEF AfterBody
  <2>4. CASE i # 0
    <3>1. i - 1 \in Nat /\ i - 1 <= i
      BY <2>4
    <3>2. U(w(i), i - 1)
      <4>1. U(w(i), i)
        BY <1>1
      <4>2. QED
        BY <3>1, <4>1 DEF UpTo
    <3>3. U(w(i - 1), i - 1)
      BY <1>1, <3>1
    <3>4. w(i - 1)[i - 1] = w(i)[i - 1]
      <4> HIDE DEF U
      <4>1. \A j \in Nat : j <= i - 1 => w(i - 1)[j] = w(i)[j]
        BY <3>1, <3>2, <3>3, UpToUnique DEF U
      <4>2. QED
        BY <3>1, <4>1
    <3>5. G[i - 1] = w(i)[i - 1]
      BY <3>1, <3>4
    <3> HIDE DEF G
    <3>6. QED
      BY <2>1, <2>2, <2>4, <3>5 DEF AfterBody
  <2>5. QED
    BY <2>3, <2>4
<1> HIDE DEF G
<1>4. IsAfter(G, stake, fee, pool)
  <2>1. G = [i \in Nat |-> G[i]]
    BY <1>2
  <2>2. QED
    BY <1>3, <2>1 DEF IsAfter
<1>5. QED
  BY <1>2, <1>4

\* Crediting a share of the fee never lowers a stake; a single entry adds the
\* rounded share once.
LEMMA CreditedGrows ==
  ASSUME NEW stake \in Nat, NEW fee \in Nat, NEW pool \in Nat \ {0}, NEW n \in Nat
  PROVE  /\ Credited(stake, n, fee, pool) \in Nat
         /\ Credited(stake, n, fee, pool) >= stake
         /\ n = 1 => Credited(stake, n, fee, pool) = stake + TruncDiv(fee * stake, pool)
<1> DEFINE g == CHOOSE g : IsAfter(g, stake, fee, pool)
<1>0. \E h : IsAfter(h, stake, fee, pool)
  BY AfterExists
<1>1. IsAfter(g, stake, fee, pool)
  BY <1>0
<1>2. Credited(stake, n, fee, pool) = g[n]
  BY CreditedUnfold
<1> HIDE DEF g
<1>3. \A i \in Nat : g[i] = AfterBody(g, i, stake, fee, pool)
  BY <1>1 DEF IsAfter
<1> DEFINE B == {i \in Nat : ~(g[i] \in Nat /\ g[i] >= stake)}
<1>4. B = {}
  <2> SUFFICES ASSUME B # {} PROVE FALSE
    OBVIOUS
  <2>1. B \subseteq Nat
    OBVIOUS
  <2>2. PICK i \in B : \A j \in B : i <= j
    BY <2>1, NatMin
  <2>3. i \in Nat /\ ~(g[i] \in Nat /\ g[i] >= stake)
    OBVIOUS
  <2>4. i # 0
    BY <1>3, <2>3 DEF AfterBody
  <2>5. i - 1 \in Nat /\ i - 1 \notin B
    BY <2>2, <2>3, <2>4
  <2> DEFINE a == g[i - 1]
  <2>6. a \in Nat /\ a >= stake
    BY <2>5
  <2>7. g[i] = a + TruncDiv(fee * a, pool)
    BY <1>3, <2>3, <2>4 DEF AfterBody
  <2> HIDE DEF a
  <2>8. fee * a \in Nat
    BY <2>6
  <2>9. TruncDiv(fee * a, pool) \in Nat
    BY <2>8, TruncDivNat
  <2>10. QED
    BY <2>3, <2>6, <2>7, <2>9
<1>5. g[n] \in Nat /\ g[n] >= stake
  BY <1>4
<1>6. ASSUME n = 1 PROVE g[n] = stake + TruncDiv(fee * stake, pool)
  <2>1. g[0] = stake
    BY <1>3 DEF AfterBody
  <2>2. g[1] = g[1 - 1] + TruncDiv(fee * g[1 - 1], pool)
    BY <1>3 DEF AfterBody
  <2>3. 1 - 1 = 0
    OBVIOUS
  <2>4. QED
    BY <1>6, <2>1, <2>2, <2>3
<1>7. QED
  BY <1>2, <1>5, <1>6

-----------------------------------------------------------------------------
(* The inductive invariant, market by market.  Its parts take the records of  *)
(* one market as parameters, to speak of them before and after a step.        *)

\* Stakes that are still in the market, stakes of all records, and those behind
\* the outcome o.
StakeIn(p) == IF p.store = "persistent" THEN p.stake_amount ELSE 0
LiveStakes(pr) == SumFunction([u \in Users |-> StakeIn(pr[u])])
AllStakes(pr) == SumFunction([u \in Users |-> pr[u].stake_amount])
WinningStakes(o, pr) ==
  SumFunction([u \in Users |-> IF pr[u].chosen_outcome = o THEN pr[u].stake_amount ELSE 0])

\* What the winners se are due, fees included.
Gross(stake, winning_pool, total_pool) ==
  stake + WinnerShare(stake, winning_pool, total_pool)
Due(o, total_pool, pr, se) ==
  SumFunction([u \in Users |->
    IF u \in se THEN Gross(pr[u].stake_amount, WinningStakes(o, pr), total_pool) ELSE 0])

\* A market that is resolved, or has paid anybody, is past its end or cancelled.
Timely(mk, di, se, t) ==
  /\ ~mk.exists => mk = NoMarket /\ se = {}
  /\ mk.exists => mk.end_time <= mk.resolution_time
  /\ mk.is_resolved => /\ mk.end_time <= t /\ ~mk.is_cancelled
                       /\ mk.resolved_outcome \in Outcomes
  /\ di > 0 => mk.is_resolved
  /\ se # {} => mk.is_cancelled \/ mk.end_time <= t

\* The predictor list, and who was paid.
Listing(n, pr, li, se, an) ==
  /\ n = SumFunction(li)
  /\ \A u \in Users : li[u] >= IF pr[u].store = "persistent" THEN 1 ELSE 0
  /\ \A u \in se : pr[u].store # "persistent"
  /\ "overwritten" \notin an =>
       \A u \in Users :
         li[u] = IF pr[u].store = "persistent" \/ u \in se THEN 1 ELSE 0

\* Every record has a stake, and the pool holds those in the market.
Staking(total_pool, pr) ==
  /\ \A u \in Users : IF pr[u].store = "none" THEN pr[u] = NoPrediction
                      ELSE pr[u].stake_amount > 0
  /\ LiveStakes(pr) <= total_pool

\* Without anomalies: before a decision nobody was paid, after a cancellation
\* what was paid has left the market, and after a resolution the records that
\* moved to temporary storage are those of the winners who were paid.
Accounted(mk, pr, pd, se, du, an) ==
  an = {} =>
    /\ du >= 0 /\ pd >= 0 /\ (pd = 0 => se = {})
    /\ ~mk.is_resolved => pd + LiveStakes(pr) = mk.total_pool
    /\ ~mk.is_resolved /\ ~mk.is_cancelled =>
         pd = 0 /\ \A u \in Users : pr[u].store # "temporary"
    /\ mk.is_resolved =>
         /\ AllStakes(pr) = mk.total_pool
         /\ \A u \in Users : pr[u].store = "temporary" <=> u \in se
         /\ \A u \in se : pr[u].chosen_outcome = mk.resolved_outcome
         /\ pd = Due(mk.resolved_outcome, mk.total_pool, pr, se)

Sound(m) ==
  /\ Timely(market[m], dispute[m], settled[m], now)
  /\ Listing(market[m].participant_count, prediction[m], listed[m], settled[m], anomaly[m])
  /\ Staking(market[m].total_pool, prediction[m])
  /\ Accounted(market[m], prediction[m], paid[m], settled[m], dust[m], anomaly[m])

IInv == TypeOK /\ EscrowMatchesBooks /\ \A m \in Markets : Sound(m)

-----------------------------------------------------------------------------
(* What a step on one market has to keep. *)

\* The types of what is stored for a market, and of the rest.
RowOK(m) ==
  /\ market[m] \in Market /\ prediction[m] \in [Users -> Prediction]
  /\ listed[m] \in [Users -> Int] /\ commitment[m] \in [Users -> Commitment]
  /\ dispute[m] \in Nat /\ submission[m] \in {"none", "pending", "settled"}
  /\ paid[m] \in Int /\ settled[m] \in SUBSET Users
  /\ dust[m] \in Int /\ anomaly[m] \in SUBSET Anomalies

FundsOK ==
  /\ config \in Config /\ escrow \in Nat /\ treasury \in Nat /\ insurance \in Nat
  /\ now \in 0..MaxTime

OnlyAt(m) ==
  /\ market' = [market EXCEPT ![m] = market'[m]]
  /\ prediction' = [prediction EXCEPT ![m] = prediction'[m]]
  /\ listed' = [listed EXCEPT ![m] = listed'[m]]
  /\ commitment' = [commitment EXCEPT ![m] = commitment'[m]]
  /\ dispute' = [dispute EXCEPT ![m] = dispute'[m]]
  /\ submission' = [submission EXCEPT ![m] = submission'[m]]
  /\ paid' = [paid EXCEPT ![m] = paid'[m]]
  /\ settled' = [settled EXCEPT ![m] = settled'[m]]
  /\ dust' = [dust EXCEPT ![m] = dust'[m]]
  /\ anomaly' = [anomaly EXCEPT ![m] = anomaly'[m]]

\* What the contract holds for a market, and what is left of its pool.
HeldFor(m) == market[m].bond + dispute[m] + Staked(m)
PoolOf(m) == market[m].total_pool - paid[m] + dust[m]

\* Tokens come and go as the books of m, the treasury and the insurance say.
Balances(m) ==
  escrow' - escrow = (treasury' - treasury) + (insurance' - insurance)
                     + (HeldFor(m)' - HeldFor(m)) + (PoolOf(m)' - PoolOf(m))

\* PoolFrozen for one market.
Frozen(m) ==
  market[m].is_resolved \/ market[m].is_cancelled \/ settled[m] # {} =>
    market'[m].total_pool = market[m].total_pool /\ listed'[m] = listed[m]

LocalStep(m) ==
  /\ OnlyAt(m) /\ RowOK(m)' /\ FundsOK' /\ now' = now
  /\ Sound(m)' /\ Frozen(m) /\ anomaly[m] \subseteq anomaly'[m]
  /\ "overcharged" \in anomaly'[m] \/ Balances(m)

LEMMA RowTypes == ASSUME TypeOK, NEW m \in Markets PROVE RowOK(m)
BY DEF TypeOK, RowOK

LEMMA BookInt ==
  ASSUME NEW m, RowOK(m)
  PROVE  HeldFor(m) \in Int /\ PoolOf(m) \in Int /\ Staked(m) \in Nat
<1>1. /\ market[m].bond \in Nat /\ dispute[m] \in Nat /\ Staked(m) \in Nat
      /\ market[m].total_pool \in Int /\ paid[m] \in Int /\ dust[m] \in Int
  BY DEF RowOK, Market, Staked
<1>2. QED
  BY <1>1 DEF HeldFor, PoolOf

LEMMA BookIntNext ==
  ASSUME NEW m, RowOK(m)'
  PROVE  HeldFor(m)' \in Int /\ PoolOf(m)' \in Int /\ Staked(m)' \in Nat
<1>1. /\ market'[m].bond \in Nat /\ dispute'[m] \in Nat /\ Staked(m)' \in Nat
      /\ market'[m].total_pool \in Int /\ paid'[m] \in Int /\ dust'[m] \in Int
  BY DEF RowOK, Market, Staked
<1>2. QED
  BY <1>1 DEF HeldFor, PoolOf

\* The rest of the markets is as it was.
LEMMA OthersSame ==
  ASSUME TypeOK, NEW m \in Markets, OnlyAt(m), NEW n \in Markets, n # m
  PROVE  /\ market'[n] = market[n] /\ prediction'[n] = prediction[n]
         /\ listed'[n] = listed[n] /\ commitment'[n] = commitment[n]
         /\ dispute'[n] = dispute[n] /\ submission'[n] = submission[n]
         /\ paid'[n] = paid[n] /\ settled'[n] = settled[n]
         /\ dust'[n] = dust[n] /\ anomaly'[n] = anomaly[n]
BY DEF TypeOK, OnlyAt

LEMMA LocalTypes ==
  ASSUME TypeOK, NEW m \in Markets, OnlyAt(m), RowOK(m)', FundsOK'
  PROVE  TypeOK'
<1>1. market' \in [Markets -> Market] /\ prediction' \in [Markets -> [Users -> Prediction]]
  BY DEF TypeOK, OnlyAt, RowOK
<1>2. listed' \in [Markets -> [Users -> Int]] /\ commitment' \in [Markets -> [Users -> Commitment]]
  BY DEF TypeOK, OnlyAt, RowOK
<1>3. dispute' \in [Markets -> Nat] /\ submission' \in [Markets -> {"none", "pending", "settled"}]
  BY DEF TypeOK, OnlyAt, RowOK
<1>4. paid' \in [Markets -> Int] /\ settled' \in [Markets -> SUBSET Users]
  BY DEF TypeOK, OnlyAt, RowOK
<1>5. dust' \in [Markets -> Int] /\ anomaly' \in [Markets -> SUBSET Anomalies]
  BY DEF TypeOK, OnlyAt, RowOK
<1>6. QED
  BY <1>1, <1>2, <1>3, <1>4, <1>5 DEF TypeOK, FundsOK

Books == escrow = treasury + insurance + SumFunction([m \in Markets |-> HeldFor(m)])
                  + SumFunction([m \in Markets |-> PoolOf(m)])

LEMMA BooksAre ==
  EscrowMatchesBooks <=> ((\A m \in Markets : "overcharged" \notin anomaly[m]) => Books)
BY DEF EscrowMatchesBooks, Books, Held, HeldFor, PoolOf

LEMMA LocalBooks ==
  ASSUME TypeOK, TypeOK', Books, NEW m \in Markets, OnlyAt(m), Balances(m)
  PROVE  Books'
<1> DEFINE f1 == [n \in Markets |-> HeldFor(n)]
           f2 == [n \in Markets |-> HeldFor(n)']
           g1 == [n \in Markets |-> PoolOf(n)]
           g2 == [n \in Markets |-> PoolOf(n)']
<1>1. \A n \in Markets : HeldFor(n) \in Int /\ PoolOf(n) \in Int
  BY RowTypes, BookInt
<1>2. \A n \in Markets : HeldFor(n)' \in Int /\ PoolOf(n)' \in Int
  <2> SUFFICES ASSUME NEW n \in Markets PROVE HeldFor(n)' \in Int /\ PoolOf(n)' \in Int
    OBVIOUS
  <2>1. RowOK(n)'
    BY DEF TypeOK, RowOK
  <2>2. QED
    BY <2>1, BookIntNext
<1>3. ASSUME NEW n \in Markets, n # m PROVE HeldFor(n)' = HeldFor(n) /\ PoolOf(n)' = PoolOf(n)
  BY <1>3, OthersSame DEF HeldFor, PoolOf, Staked
<1>4. /\ f1 \in [Markets -> Int] /\ f2 \in [Markets -> Int]
      /\ g1 \in [Markets -> Int] /\ g2 \in [Markets -> Int]
  BY <1>1, <1>2
<1>5. /\ \A n \in Markets : n # m => f2[n] = f1[n] /\ g2[n] = g1[n]
      /\ f1[m] = HeldFor(m) /\ f2[m] = HeldFor(m)' /\ g1[m] = PoolOf(m) /\ g2[m] = PoolOf(m)'
  BY <1>3
<1> HIDE DEF f1, f2, g1, g2
<1>6. SumFunction(f2) = SumFunction(f1) - f1[m] + f2[m]
  BY <1>4, <1>5, SumUpdate
<1>7. SumFunction(g2) = SumFunction(g1) - g1[m] + g2[m]
  BY <1>4, <1>5, SumUpdate
<1>8. SumFunction(f1) \in Int /\ SumFunction(g1) \in Int
  BY <1>4, SumInt
<1>9. escrow = treasury + insurance + SumFunction(f1) + SumFunction(g1)
  BY DEF Books, f1, g1
<1>10. escrow' = treasury' + insurance' + SumFunction(f2) + SumFunction(g2)
  <2>1. /\ escrow \in Int /\ treasury \in Int /\ insurance \in Int
        /\ escrow' \in Int /\ treasury' \in Int /\ insurance' \in Int
    BY DEF TypeOK
  <2>2. f1[m] \in Int /\ f2[m] \in Int /\ g1[m] \in Int /\ g2[m] \in Int
    BY <1>4
  <2>3. escrow' - escrow = (treasury' - treasury) + (insurance' - insurance)
                           + (f2[m] - f1[m]) + (g2[m] - g1[m])
    BY <1>5 DEF Balances
  <2>4. QED
    BY <1>6, <1>7, <1>8, <1>9, <2>1, <2>2, <2>3
<1>11. QED
  BY <1>10 DEF Books, f2, g2

\* A step on one market that keeps it sound keeps everything.
LEMMA LocalInv ==
  ASSUME IInv, NEW m \in Markets, LocalStep(m)
  PROVE  IInv' /\ \A n \in Markets : Frozen(n)
<1>1. TypeOK /\ TypeOK'
  BY LocalTypes DEF IInv, LocalStep
<1>2. ASSUME NEW n \in Markets, n # m PROVE Sound(n)' /\ Frozen(n)
  <2>1. Sound(n)
    BY DEF IInv
  <2>2. now' = now /\ OnlyAt(m)
    BY DEF LocalStep
  <2>3. /\ market'[n] = market[n] /\ prediction'[n] = prediction[n]
        /\ listed'[n] = listed[n] /\ dispute'[n] = dispute[n] /\ paid'[n] = paid[n]
        /\ settled'[n] = settled[n] /\ dust'[n] = dust[n] /\ anomaly'[n] = anomaly[n]
    BY <1>1, <1>2, <2>2, OthersSame
  <2>4. QED
    BY <2>1, <2>2, <2>3 DEF Sound, Frozen
<1>3. \A n \in Markets : Sound(n)' /\ Frozen(n)
  BY <1>2 DEF LocalStep
<1>4. EscrowMatchesBooks'
  <2> SUFFICES ASSUME \A n \in Markets : "overcharged" \notin anomaly'[n]
               PROVE  Books'
    BY DEF EscrowMatchesBooks, Books, Held, HeldFor, PoolOf
  <2>1. \A n \in Markets : anomaly[n] \subseteq anomaly'[n]
    <3> SUFFICES ASSUME NEW n \in Markets PROVE anomaly[n] \subseteq anomaly'[n]
      OBVIOUS
    <3>1. CASE n = m
      BY <3>1 DEF LocalStep
    <3>2. CASE n # m
      BY <1>1, <3>2, OthersSame DEF LocalStep
    <3>3. QED
      BY <3>1, <3>2
  <2>2. Books
    BY <2>1, BooksAre DEF IInv
  <2>3. Balances(m) /\ OnlyAt(m)
    BY DEF LocalStep
  <2>4. QED
    BY <1>1, <2>2, <2>3, LocalBooks
<1>5. QED
  BY <1>1, <1>3, <1>4 DEF IInv

-----------------------------------------------------------------------------
(* market.rs: steps that leave positions alone. *)

\* Accounted looks only at these fields of the market.
LEMMA AccountedSame ==
  ASSUME NEW mk, NEW old, NEW pr, NEW pd, NEW se, NEW du, NEW an,
         Accounted(old, pr, pd, se, du, an), mk.is_resolved = old.is_resolved,
         mk.total_pool = old.total_pool, mk.resolved_outcome = old.resolved_outcome,
         old.is_cancelled => mk.is_cancelled
  PROVE  Accounted(mk, pr, pd, se, du, an)
BY DEF Accounted

LEMMA MarketStep ==
  ASSUME IInv, NEW m \in Markets, NEW mk \in Market, NEW di \in Nat,
         NEW su \in {"none", "pending", "settled"},
         market' = [market EXCEPT ![m] = mk], dispute' = [dispute EXCEPT ![m] = di],
         submission' = [submission EXCEPT ![m] = su],
         UNCHANGED <<config, prediction, listed, commitment, now, paid, settled, dust, anomaly>>,
         mk.total_pool = market[m].total_pool,
         mk.participant_count = market[m].participant_count,
         Timely(mk, di, settled[m], now),
         Accounted(mk, prediction[m], paid[m], settled[m], dust[m], anomaly[m]),
         escrow' \in Nat, treasury' \in Nat, insurance' \in Nat, Balances(m)
  PROVE  LocalStep(m)
<1>1. TypeOK /\ Sound(m) /\ RowOK(m)
  BY RowTypes DEF IInv
<1>2. market'[m] = mk /\ dispute'[m] = di /\ submission'[m] = su
  BY <1>1 DEF TypeOK
<1>3. OnlyAt(m)
  <2>1. /\ prediction = [prediction EXCEPT ![m] = prediction[m]]
        /\ listed = [listed EXCEPT ![m] = listed[m]]
        /\ commitment = [commitment EXCEPT ![m] = commitment[m]]
        /\ paid = [paid EXCEPT ![m] = paid[m]]
        /\ settled = [settled EXCEPT ![m] = settled[m]]
        /\ dust = [dust EXCEPT ![m] = dust[m]]
        /\ anomaly = [anomaly EXCEPT ![m] = anomaly[m]]
    BY <1>1 DEF TypeOK
  <2>2. QED
    BY <1>2, <2>1 DEF OnlyAt
<1>4. RowOK(m)'
  BY <1>1, <1>2 DEF RowOK
<1>5. FundsOK'
  BY <1>1 DEF FundsOK, TypeOK
<1>6. Sound(m)'
  BY <1>1, <1>2 DEF Sound
<1>7. Frozen(m)
  BY <1>2 DEF Frozen
<1>8. QED
  BY <1>3, <1>4, <1>5, <1>6, <1>7 DEF LocalStep

\* The fields of a market.
LEMMA MarketFields ==
  ASSUME NEW mk \in Market
  PROVE  /\ mk.end_time \in Nat /\ mk.resolution_time \in Nat
         /\ mk.exists \in BOOLEAN /\ mk.is_closed \in BOOLEAN
         /\ mk.is_resolved \in BOOLEAN /\ mk.is_cancelled \in BOOLEAN
         /\ mk.resolved_outcome \in Outcomes \cup {NoOutcome} /\ mk.resolved_at \in Nat
         /\ mk.total_pool \in Int /\ mk.participant_count \in Int
         /\ mk.creator_fee_bps \in 0..MAX_CREATOR_FEE_BPS /\ mk.bond \in Nat
BY DEF Market

\* Nothing but market[m] changes.
LEMMA MarketAlone ==
  ASSUME IInv, NEW m \in Markets, NEW mk \in Market,
         market' = [market EXCEPT ![m] = mk],
         UNCHANGED <<config, prediction, listed, commitment, dispute, submission, insurance,
                     now, paid, settled, dust, anomaly>>,
         mk.total_pool = market[m].total_pool,
         mk.participant_count = market[m].participant_count,
         Timely(mk, dispute[m], settled[m], now),
         Accounted(mk, prediction[m], paid[m], settled[m], dust[m], anomaly[m]),
         escrow' \in Nat, treasury' \in Nat,
         escrow' - escrow = (treasury' - treasury) + mk.bond - market[m].bond
  PROVE  LocalStep(m)
<1>1. TypeOK /\ RowOK(m)
  BY RowTypes DEF IInv
<1>2. /\ dispute[m] \in Nat /\ submission[m] \in {"none", "pending", "settled"}
      /\ dispute' = [dispute EXCEPT ![m] = dispute[m]]
      /\ submission' = [submission EXCEPT ![m] = submission[m]]
      /\ insurance' \in Nat /\ market'[m] = mk
  BY <1>1 DEF TypeOK
<1>3. Balances(m)
  <2>1. /\ HeldFor(m)' = mk.bond + dispute[m] + Staked(m)
        /\ PoolOf(m)' = PoolOf(m)
    BY <1>2 DEF HeldFor, PoolOf, Staked
  <2>2. /\ HeldFor(m) = market[m].bond + dispute[m] + Staked(m)
        /\ PoolOf(m) \in Int /\ Staked(m) \in Int /\ dispute[m] \in Int
        /\ mk.bond \in Int /\ market[m].bond \in Int
    BY <1>1, BookInt, MarketFields DEF HeldFor, RowOK
  <2>3. /\ insurance' - insurance = 0 /\ PoolOf(m)' - PoolOf(m) = 0
        /\ HeldFor(m)' - HeldFor(m) = mk.bond - market[m].bond
        /\ treasury' - treasury \in Int
    BY <1>1, <2>1, <2>2 DEF TypeOK
  <2>4. QED
    BY <2>2, <2>3 DEF Balances
<1>4. QED
  BY <1>2, <1>3, MarketStep

LEMMA CreateMarketStep ==
  ASSUME IInv, NEW m \in Markets, NEW p \in MarketParams, CreateMarket(m, p)
  PROVE  LocalStep(m)
<1> DEFINE mk == [NoMarket EXCEPT !.exists = TRUE, !.end_time = p.end_time,
                     !.resolution_time = p.resolution_time,
                     !.creator_fee_bps = p.creator_fee_bps, !.bond = p.bond]
<1>1. p \in [end_time : Nat, resolution_time : Nat, creator_fee_bps : Nat, bond : Nat]
  OBVIOUS
<1>2. NoMarket \in Market
  BY DEF NoMarket, Market
<1>3. p.creator_fee_bps <= MAX_CREATOR_FEE_BPS /\ p.end_time <= p.resolution_time
  BY DEF CreateMarket
<1>4. market' = [market EXCEPT ![m] = mk]
  BY DEF CreateMarket
<1>5. /\ mk \in Market /\ mk.exists /\ mk.end_time = p.end_time
      /\ mk.resolution_time = p.resolution_time /\ mk.bond = p.bond
      /\ mk.is_resolved = NoMarket.is_resolved /\ mk.total_pool = NoMarket.total_pool
      /\ mk.resolved_outcome = NoMarket.resolved_outcome
      /\ mk.participant_count = NoMarket.participant_count
  <2>1. p.creator_fee_bps \in 0..MAX_CREATOR_FEE_BPS /\ p.end_time \in Nat
        /\ p.resolution_time \in Nat /\ p.bond \in Nat
    BY <1>1, <1>3
  <2>2. QED
    BY <1>2, <2>1 DEF Market
<1> HIDE DEF mk
<1>6. TypeOK /\ Sound(m) /\ RowOK(m) /\ ~market[m].exists
  BY RowTypes DEF IInv, CreateMarket
<1>7. market[m] = NoMarket /\ settled[m] = {} /\ ~(dispute[m] > 0)
  BY <1>6 DEF Sound, Timely, NoMarket
<1>8. Timely(mk, dispute[m], settled[m], now)
  BY <1>3, <1>5, <1>7 DEF Timely, NoMarket
<1>9. Accounted(mk, prediction[m], paid[m], settled[m], dust[m], anomaly[m])
  <2>1. Accounted(market[m], prediction[m], paid[m], settled[m], dust[m], anomaly[m])
    BY <1>6 DEF Sound
  <2>2. /\ mk.is_resolved = market[m].is_resolved /\ mk.total_pool = market[m].total_pool
        /\ mk.resolved_outcome = market[m].resolved_outcome /\ ~market[m].is_cancelled
    BY <1>5, <1>7 DEF NoMarket
  <2>3. QED
    BY <2>1, <2>2, AccountedSame
<1>10. escrow' = escrow + p.bond /\ treasury' = treasury
       /\ UNCHANGED <<config, prediction, listed, commitment, dispute, submission, insurance,
                     now, paid, settled, dust, anomaly>>
  BY DEF CreateMarket, history
<1>11. /\ mk.bond = p.bond /\ market[m].bond = 0
       /\ mk.total_pool = market[m].total_pool
       /\ mk.participant_count = market[m].participant_count
  BY <1>5, <1>7 DEF NoMarket
<1>12. /\ escrow' \in Nat /\ treasury' \in Nat
       /\ escrow' - escrow = (treasury' - treasury) + mk.bond - market[m].bond
  BY <1>1, <1>6, <1>10, <1>11 DEF TypeOK
<1>13. QED
  BY <1>4, <1>5, <1>8, <1>9, <1>10, <1>11, <1>12, MarketAlone

LEMMA CloseMarketStep ==
  ASSUME IInv, NEW m \in Markets, CloseMarket(m)
  PROVE  LocalStep(m)
<1> DEFINE mk == [market[m] EXCEPT !.is_closed = TRUE]
<1>1. TypeOK /\ Sound(m) /\ RowOK(m) /\ market[m] \in Market /\ market[m].exists
  BY RowTypes DEF IInv, CloseMarket, RowOK
<1>2. market' = [market EXCEPT ![m] = mk]
  BY <1>1 DEF CloseMarket
<1>3. /\ mk \in Market /\ mk.exists = market[m].exists /\ mk.end_time = market[m].end_time
      /\ mk.resolution_time = market[m].resolution_time
      /\ mk.is_resolved = market[m].is_resolved /\ mk.is_cancelled = market[m].is_cancelled
      /\ mk.resolved_outcome = market[m].resolved_outcome
      /\ mk.total_pool = market[m].total_pool
      /\ mk.participant_count = market[m].participant_count
      /\ mk.bond = market[m].bond
  BY <1>1 DEF Market
<1> HIDE DEF mk
<1>4. Timely(mk, dispute[m], settled[m], now)
  BY <1>1, <1>3 DEF Sound, Timely
<1>5. Accounted(mk, prediction[m], paid[m], settled[m], dust[m], anomaly[m])
  BY <1>1, <1>3, AccountedSame DEF Sound
<1>6. escrow' = escrow /\ treasury' = treasury
      /\ UNCHANGED <<config, prediction, listed, commitment, dispute, submission, insurance,
                     now, paid, settled, dust, anomaly>>
  BY DEF CloseMarket, history, funds
<1>7. /\ escrow' \in Nat /\ treasury' \in Nat
      /\ escrow' - escrow = (treasury' - treasury) + mk.bond - market[m].bond
  BY <1>1, <1>3, <1>6, MarketFields DEF TypeOK
<1>8. QED
  BY <1>2, <1>3, <1>4, <1>5, <1>6, <1>7, MarketAlone

LEMMA UpdateCreatorFeeStep ==
  ASSUME IInv, NEW m \in Markets, NEW bps \in CreatorFees, UpdateCreatorFee(m, bps)
  PROVE  LocalStep(m)
<1> DEFINE mk == [market[m] EXCEPT !.creator_fee_bps = bps]
<1>1. TypeOK /\ Sound(m) /\ RowOK(m) /\ market[m] \in Market /\ market[m].exists
      /\ bps \in 0..MAX_CREATOR_FEE_BPS
  BY RowTypes DEF IInv, UpdateCreatorFee, RowOK, Tradable, AcceptsStakes
<1>2. market' = [market EXCEPT ![m] = mk]
  BY <1>1 DEF UpdateCreatorFee
<1>3. /\ mk \in Market /\ mk.exists = market[m].exists /\ mk.end_time = market[m].end_time
      /\ mk.resolution_time = market[m].resolution_time
      /\ mk.is_resolved = market[m].is_resolved /\ mk.is_cancelled = market[m].is_cancelled
      /\ mk.resolved_outcome = market[m].resolved_outcome
      /\ mk.total_pool = market[m].total_pool
      /\ mk.participant_count = market[m].participant_count
      /\ mk.bond = market[m].bond
  BY <1>1 DEF Market
<1> HIDE DEF mk
<1>4. Timely(mk, dispute[m], settled[m], now)
  BY <1>1, <1>3 DEF Sound, Timely
<1>5. Accounted(mk, prediction[m], paid[m], settled[m], dust[m], anomaly[m])
  BY <1>1, <1>3, AccountedSame DEF Sound
<1>6. escrow' = escrow /\ treasury' = treasury
      /\ UNCHANGED <<config, prediction, listed, commitment, dispute, submission, insurance,
                     now, paid, settled, dust, anomaly>>
  BY DEF UpdateCreatorFee, history, funds
<1>7. /\ escrow' \in Nat /\ treasury' \in Nat
      /\ escrow' - escrow = (treasury' - treasury) + mk.bond - market[m].bond
  BY <1>1, <1>3, <1>6, MarketFields DEF TypeOK
<1>8. QED
  BY <1>2, <1>3, <1>4, <1>5, <1>6, <1>7, MarketAlone

LEMMA ExtendMarketEndTimeStep ==
  ASSUME IInv, NEW m \in Markets, NEW t \in EndTimes, ExtendMarketEndTime(m, t)
  PROVE  LocalStep(m)
<1> DEFINE rt == IF market[m].resolution_time < t THEN t ELSE market[m].resolution_time
           mk == [market[m] EXCEPT !.end_time = t, !.resolution_time = rt]
<1>1. /\ TypeOK /\ Sound(m) /\ RowOK(m) /\ market[m] \in Market /\ market[m].exists
      /\ ~market[m].is_resolved /\ ~market[m].is_cancelled /\ now < market[m].end_time
      /\ now \in Nat /\ t \in Nat
  BY RowTypes DEF IInv, ExtendMarketEndTime, RowOK, Tradable, AcceptsStakes, TypeOK
<1>2. market' = [market EXCEPT ![m] = mk]
  BY <1>1 DEF ExtendMarketEndTime
<1>3. rt \in Nat /\ t <= rt
  BY <1>1, MarketFields
<1> HIDE DEF rt
<1>4. /\ mk \in Market /\ mk.exists = market[m].exists /\ mk.end_time = t
      /\ mk.resolution_time = rt
      /\ mk.is_resolved = market[m].is_resolved /\ mk.is_cancelled = market[m].is_cancelled
      /\ mk.resolved_outcome = market[m].resolved_outcome
      /\ mk.total_pool = market[m].total_pool
      /\ mk.participant_count = market[m].participant_count
      /\ mk.bond = market[m].bond
  BY <1>1, <1>3 DEF Market
<1> HIDE DEF mk
<1>5. settled[m] = {}
  BY <1>1, MarketFields DEF Sound, Timely
<1>6. Timely(mk, dispute[m], settled[m], now)
  BY <1>1, <1>3, <1>4, <1>5 DEF Sound, Timely
<1>7. Accounted(mk, prediction[m], paid[m], settled[m], dust[m], anomaly[m])
  BY <1>1, <1>4, AccountedSame DEF Sound
<1>8. escrow' = escrow /\ treasury' = treasury
      /\ UNCHANGED <<config, prediction, listed, commitment, dispute, submission, insurance,
                     now, paid, settled, dust, anomaly>>
  BY DEF ExtendMarketEndTime, history, funds
<1>9. /\ escrow' \in Nat /\ treasury' \in Nat
      /\ escrow' - escrow = (treasury' - treasury) + mk.bond - market[m].bond
  BY <1>1, <1>4, <1>8, MarketFields DEF TypeOK
<1>10. QED
  BY <1>2, <1>4, <1>6, <1>7, <1>8, <1>9, MarketAlone

LEMMA CancelMarketStep ==
  ASSUME IInv, NEW m \in Markets, CancelMarket(m)
  PROVE  LocalStep(m)
<1> DEFINE mk == [market[m] EXCEPT !.is_cancelled = TRUE, !.bond = 0]
<1>1. /\ TypeOK /\ Sound(m) /\ RowOK(m) /\ market[m] \in Market /\ market[m].exists
      /\ ~market[m].is_resolved
  BY RowTypes DEF IInv, CancelMarket, RowOK
<1>2. market' = [market EXCEPT ![m] = mk]
  BY <1>1 DEF CancelMarket
<1>3. /\ mk \in Market /\ mk.exists = market[m].exists /\ mk.end_time = market[m].end_time
      /\ mk.resolution_time = market[m].resolution_time
      /\ mk.is_resolved = market[m].is_resolved /\ mk.is_cancelled
      /\ mk.resolved_outcome = market[m].resolved_outcome
      /\ mk.total_pool = market[m].total_pool
      /\ mk.participant_count = market[m].participant_count
      /\ mk.bond = 0
  BY <1>1 DEF Market
<1> HIDE DEF mk
<1>4. Timely(mk, dispute[m], settled[m], now)
  BY <1>1, <1>3 DEF Sound, Timely
<1>5. Accounted(mk, prediction[m], paid[m], settled[m], dust[m], anomaly[m])
  BY <1>1, <1>3, AccountedSame DEF Sound
<1>6. escrow' = escrow /\ treasury' = treasury + market[m].bond
      /\ UNCHANGED <<config, prediction, listed, commitment, dispute, submission, insurance,
                     now, paid, settled, dust, anomaly>>
  BY DEF CancelMarket, history
<1>7. /\ escrow' \in Nat /\ treasury' \in Nat
      /\ escrow' - escrow = (treasury' - treasury) + mk.bond - market[m].bond
  BY <1>1, <1>3, <1>6, MarketFields DEF TypeOK
<1>8. QED
  BY <1>2, <1>3, <1>4, <1>5, <1>6, <1>7, MarketAlone

-----------------------------------------------------------------------------
(* Resolutions and disputes. *)

LEMMA DueNone ==
  ASSUME NEW o, NEW total_pool, NEW pr
  PROVE  Due(o, total_pool, pr, {}) = 0
<1> DEFINE f == [u \in Users |->
             IF u \in {} THEN Gross(pr[u].stake_amount, WinningStakes(o, pr), total_pool) ELSE 0]
<1>1. f \in [Users -> Int] /\ \A u \in Users : f[u] = 0
  OBVIOUS
<1>2. Due(o, total_pool, pr, {}) = SumFunction(f)
  BY DEF Due
<1> HIDE DEF f
<1>3. QED
  BY <1>1, <1>2, SumZero

\* Without paid records every stake is in the market.
LEMMA AllLive ==
  ASSUME NEW pr, NEW total_pool, Staking(total_pool, pr),
         \A u \in Users : pr[u].store \in {"none", "persistent"}
  PROVE  AllStakes(pr) = LiveStakes(pr)
<1>1. \A u \in Users : pr[u].stake_amount = StakeIn(pr[u])
  BY DEF Staking, StakeIn, NoPrediction
<1>2. [u \in Users |-> pr[u].stake_amount] = [u \in Users |-> StakeIn(pr[u])]
  BY <1>1
<1>3. QED
  BY <1>2 DEF AllStakes, LiveStakes

LEMMA StoreValues ==
  ASSUME NEW pr \in [Users -> Prediction], NEW u \in Users
  PROVE  /\ pr[u].store \in {"none", "persistent", "temporary"}
         /\ pr[u].stake_amount \in Int /\ pr[u].chosen_outcome \in Outcomes \cup {NoOutcome}
BY DEF Prediction

\* Nobody was paid when a market is decided, and all that is in the pool is
\* there to be shared out.
LEMMA ResolvedAccounted ==
  ASSUME NEW mk, NEW old, NEW pr \in [Users -> Prediction], NEW pd \in Int, NEW se, NEW du, NEW an,
         Accounted(old, pr, pd, se, du, an), Staking(old.total_pool, pr),
         ~old.is_resolved, ~old.is_cancelled, mk.total_pool = old.total_pool, mk.is_resolved
  PROVE  Accounted(mk, pr, pd, se, du, an)
<1> SUFFICES ASSUME an = {}
             PROVE  /\ du >= 0 /\ pd >= 0 /\ (pd = 0 => se = {})
                    /\ AllStakes(pr) = mk.total_pool
                    /\ \A u \in Users : pr[u].store = "temporary" <=> u \in se
                    /\ \A u \in se : pr[u].chosen_outcome = mk.resolved_outcome
                    /\ pd = Due(mk.resolved_outcome, mk.total_pool, pr, se)
  BY DEF Accounted
<1>1. /\ du >= 0 /\ pd = 0 /\ se = {} /\ pd + LiveStakes(pr) = old.total_pool
      /\ \A u \in Users : pr[u].store # "temporary"
  BY DEF Accounted
<1>2. \A u \in Users : pr[u].store \in {"none", "persistent"}
  BY <1>1, StoreValues
<1>3. AllStakes(pr) = LiveStakes(pr)
  BY <1>2, AllLive
<1>4. LiveStakes(pr) \in Int
  <2>1. [u \in Users |-> StakeIn(pr[u])] \in [Users -> Int]
    BY StoreValues DEF StakeIn
  <2>2. QED
    BY <2>1, SumInt DEF LiveStakes
<1>5. AllStakes(pr) = mk.total_pool
  BY <1>1, <1>3, <1>4
<1>6. Due(mk.resolved_outcome, mk.total_pool, pr, se) = 0
  BY <1>1, DueNone
<1>7. QED
  BY <1>1, <1>5, <1>6

\* A market that paid nobody is as before its resolution.
LEMMA ReopenedAccounted ==
  ASSUME NEW mk, NEW old, NEW pr \in [Users -> Prediction], NEW pd \in Int, NEW se, NEW du, NEW an,
         Accounted(old, pr, pd, se, du, an), Staking(old.total_pool, pr), ~(pd > 0),
         old.is_resolved, mk.total_pool = old.total_pool, ~mk.is_resolved
  PROVE  Accounted(mk, pr, pd, se, du, an)
<1> SUFFICES ASSUME an = {}
             PROVE  /\ du >= 0 /\ pd >= 0 /\ (pd = 0 => se = {})
                    /\ pd + LiveStakes(pr) = mk.total_pool
                    /\ pd = 0 /\ \A u \in Users : pr[u].store # "temporary"
  BY DEF Accounted
<1>1. /\ du >= 0 /\ pd = 0 /\ se = {} /\ AllStakes(pr) = old.total_pool
      /\ \A u \in Users : pr[u].store = "temporary" <=> u \in se
  BY DEF Accounted
<1>2. \A u \in Users : pr[u].store \in {"none", "persistent"}
  BY <1>1, StoreValues
<1>3. AllStakes(pr) = LiveStakes(pr)
  BY <1>2, AllLive
<1>4. LiveStakes(pr) \in Int
  <2>1. [u \in Users |-> StakeIn(pr[u])] \in [Users -> Int]
    BY StoreValues DEF StakeIn
  <2>2. QED
    BY <2>1, SumInt DEF LiveStakes
<1>5. QED
  BY <1>1, <1>2, <1>3, <1>4

LEMMA ResolveStep ==
  ASSUME IInv, NEW m \in Markets, NEW outcome \in Outcomes, NEW balance \in Nat,
         NEW su \in {"none", "pending", "settled"}, submission' = [submission EXCEPT ![m] = su],
         Resolve(m, outcome, balance),
         balance - escrow = (IF su = "pending" THEN ORACLE_STAKE ELSE 0) - Staked(m)
  PROVE  LocalStep(m)
<1> DEFINE refunded == IF market[m].bond <= balance THEN market[m].bond ELSE 0
           mk == [market[m] EXCEPT !.is_resolved = TRUE, !.resolved_outcome = outcome,
                                   !.resolved_at = now, !.bond = @ - refunded]
<1>1. /\ TypeOK /\ Sound(m) /\ RowOK(m) /\ market[m] \in Market /\ market[m].exists
      /\ ~market[m].is_resolved /\ ~market[m].is_cancelled
      /\ now >= market[m].resolution_time /\ now \in Nat /\ escrow \in Nat
  BY RowTypes DEF IInv, Resolve, RowOK, TypeOK
<1>2. market' = [market EXCEPT ![m] = mk] /\ escrow' = balance - refunded
  BY <1>1 DEF Resolve
<1>3. refunded \in 0..balance /\ market[m].bond - refunded \in Nat
  BY <1>1, MarketFields
<1> HIDE DEF refunded
<1>4. /\ mk \in Market /\ mk.exists /\ mk.end_time = market[m].end_time
      /\ mk.resolution_time = market[m].resolution_time
      /\ mk.is_resolved /\ mk.is_cancelled = market[m].is_cancelled
      /\ mk.resolved_outcome = outcome
      /\ mk.total_pool = market[m].total_pool
      /\ mk.participant_count = market[m].participant_count
      /\ mk.bond = market[m].bond - refunded
  BY <1>1, <1>3 DEF Market
<1> HIDE DEF mk
<1>5. Timely(mk, dispute[m], settled[m], now)
  BY <1>1, <1>4, MarketFields DEF Sound, Timely
<1>6. Accounted(mk, prediction[m], paid[m], settled[m], dust[m], anomaly[m])
  BY <1>1, <1>4, ResolvedAccounted DEF Sound, RowOK
<1>7. UNCHANGED <<config, prediction, listed, commitment, dispute, treasury, insurance,
                  now, paid, settled, dust, anomaly>>
  BY DEF Resolve, history
<1>8. /\ dispute' = [dispute EXCEPT ![m] = dispute[m]] /\ dispute[m] \in Nat
      /\ escrow' \in Nat /\ treasury' \in Nat /\ insurance' \in Nat
      /\ market'[m] = mk /\ submission'[m] = su
  BY <1>1, <1>2, <1>3, <1>7 DEF TypeOK
<1>9. Balances(m)
  <2>1. Staked(m)' = IF su = "pending" THEN ORACLE_STAKE ELSE 0
    BY <1>8 DEF Staked
  <2>2. /\ HeldFor(m)' = mk.bond + dispute[m] + Staked(m)'
        /\ PoolOf(m)' = PoolOf(m)
    BY <1>4, <1>7, <1>8 DEF HeldFor, PoolOf
  <2>3. /\ HeldFor(m) = market[m].bond + dispute[m] + Staked(m)
        /\ PoolOf(m) \in Int /\ Staked(m) \in Int /\ dispute[m] \in Int
        /\ market[m].bond \in Int /\ Staked(m)' \in Int /\ refunded \in Int
    BY <1>1, <1>3, <2>1, BookInt, MarketFields DEF HeldFor, RowOK
  <2>4. /\ treasury' - treasury = 0 /\ insurance' - insurance = 0 /\ PoolOf(m)' - PoolOf(m) = 0
        /\ HeldFor(m)' - HeldFor(m) = Staked(m)' - Staked(m) - refunded
    BY <1>1, <1>4, <1>7, <2>2, <2>3 DEF TypeOK
  <2>5. escrow' - escrow = Staked(m)' - Staked(m) - refunded
    BY <1>1, <1>2, <2>1, <2>3
  <2>6. QED
    BY <2>3, <2>4, <2>5 DEF Balances
<1>10. QED
  BY <1>2, <1>4, <1>5, <1>6, <1>7, <1>8, <1>9, MarketStep

LEMMA ResolveMarketStep ==
  ASSUME IInv, NEW m \in Markets, NEW o \in Outcomes, ResolveMarket(m, o)
  PROVE  LocalStep(m)
<1>1. TypeOK /\ submission' = submission /\ Resolve(m, o, escrow)
  BY DEF IInv, ResolveMarket
<1>2. /\ submission' = [submission EXCEPT ![m] = submission[m]]
      /\ submission[m] \in {"none", "pending", "settled"} /\ escrow \in Nat
  BY <1>1 DEF TypeOK
<1>3. escrow - escrow = (IF submission[m] = "pending" THEN ORACLE_STAKE ELSE 0) - Staked(m)
  BY <1>2 DEF Staked
<1>4. QED
  BY <1>1, <1>2, <1>3, ResolveStep

LEMMA SubmitResolutionWithStakeStep ==
  ASSUME IInv, NEW m \in Markets, NEW o \in Outcomes, SubmitResolutionWithStake(m, o)
  PROVE  LocalStep(m)
<1>1. /\ TypeOK /\ submission[m] # "pending"
      /\ submission' = [submission EXCEPT ![m] = "pending"]
      /\ Resolve(m, o, escrow + ORACLE_STAKE)
  BY DEF IInv, SubmitResolutionWithStake
<1>2. escrow + ORACLE_STAKE \in Nat /\ escrow \in Nat /\ Staked(m) = 0
  BY <1>1 DEF TypeOK, Staked
<1>3. (escrow + ORACLE_STAKE) - escrow = ORACLE_STAKE - Staked(m)
  BY <1>2
<1>4. QED
  BY <1>1, <1>2, <1>3, ResolveStep

\* Only the dispute and the oracle's submission of m change.
LEMMA DisputeAlone ==
  ASSUME IInv, NEW m \in Markets, NEW di \in Nat, NEW su \in {"none", "pending", "settled"},
         dispute' = [dispute EXCEPT ![m] = di], submission' = [submission EXCEPT ![m] = su],
         UNCHANGED <<config, market, prediction, listed, commitment, now, paid, settled, dust,
                     anomaly>>,
         di > 0 => market[m].is_resolved,
         escrow' \in Nat, treasury' \in Nat, insurance' \in Nat,
         escrow' - escrow = (treasury' - treasury) + (insurance' - insurance)
            + (di + (IF su = "pending" THEN ORACLE_STAKE ELSE 0)) - (dispute[m] + Staked(m))
  PROVE  LocalStep(m)
<1> DEFINE mk == market[m]
<1>1. TypeOK /\ Sound(m) /\ RowOK(m) /\ mk \in Market
  BY RowTypes DEF IInv, RowOK
<1>2. /\ market' = [market EXCEPT ![m] = mk] /\ market'[m] = mk
      /\ dispute'[m] = di /\ submission'[m] = su
  BY <1>1 DEF TypeOK
<1>3. Timely(mk, di, settled[m], now)
  BY <1>1 DEF Sound, Timely
<1>4. Accounted(mk, prediction[m], paid[m], settled[m], dust[m], anomaly[m])
  BY <1>1 DEF Sound
<1>5. Balances(m)
  <2>1. Staked(m)' = IF su = "pending" THEN ORACLE_STAKE ELSE 0
    BY <1>2 DEF Staked
  <2>2. HeldFor(m)' = mk.bond + di + Staked(m)' /\ PoolOf(m)' = PoolOf(m)
    BY <1>2 DEF HeldFor, PoolOf
  <2>3. /\ HeldFor(m) = mk.bond + dispute[m] + Staked(m)
        /\ PoolOf(m) \in Int /\ Staked(m) \in Int /\ dispute[m] \in Int
        /\ mk.bond \in Int /\ Staked(m)' \in Int
    BY <1>1, <2>1, BookInt, MarketFields DEF HeldFor, RowOK
  <2>4. /\ treasury' - treasury \in Int /\ insurance' - insurance \in Int
        /\ PoolOf(m)' - PoolOf(m) = 0
        /\ HeldFor(m)' - HeldFor(m) = (di + Staked(m)') - (dispute[m] + Staked(m))
    BY <1>1, <2>2, <2>3 DEF TypeOK
  <2>5. QED
    BY <2>1, <2>3, <2>4 DEF Balances
<1>6. QED
  BY <1>1, <1>2, <1>3, <1>4, <1>5, MarketStep

LEMMA RaiseDisputeStep ==
  ASSUME IInv, NEW m \in Markets, NEW b \in DisputeBonds, RaiseDispute(m, b)
  PROVE  LocalStep(m)
<1>0. b > 0 /\ b \in Nat
  <2>1. b > 0
    BY DEF RaiseDispute
  <2>2. b \in Int
    OBVIOUS
  <2>3. QED
    BY <2>1, <2>2
<1>1. /\ TypeOK /\ market[m].is_resolved /\ dispute[m] = 0
      /\ dispute' = [dispute EXCEPT ![m] = b] /\ escrow' = escrow + b
      /\ treasury' = treasury /\ insurance' = insurance /\ submission' = submission
      /\ UNCHANGED <<config, market, prediction, listed, commitment, now, paid, settled, dust,
                     anomaly>>
  BY DEF IInv, RaiseDispute, history
<1>2. /\ submission' = [submission EXCEPT ![m] = submission[m]]
      /\ submission[m] \in {"none", "pending", "settled"}
      /\ escrow \in Nat /\ treasury \in Nat /\ insurance \in Nat
  BY <1>1 DEF TypeOK
<1>3. Staked(m) = (IF submission[m] = "pending" THEN ORACLE_STAKE ELSE 0) /\ Staked(m) \in Nat
  BY DEF Staked
<1>4. /\ escrow' \in Nat /\ treasury' \in Nat /\ insurance' \in Nat
      /\ escrow' - escrow = (treasury' - treasury) + (insurance' - insurance)
            + (b + Staked(m)) - (dispute[m] + Staked(m))
  BY <1>0, <1>1, <1>2, <1>3
<1>5. QED
  BY <1>0, <1>1, <1>2, <1>3, <1>4, DisputeAlone

LEMMA SettledStake ==
  ASSUME TypeOK, NEW m \in Markets
  PROVE  /\ Settled(m) \in {"none", "settled"} /\ Staked(m) \in Nat
         /\ InsuranceShare(Staked(m)) \in 0..Staked(m)
<1>1. submission[m] \in {"none", "pending", "settled"}
  BY DEF TypeOK
<1>2. Settled(m) \in {"none", "settled"} /\ Staked(m) \in Nat
  BY <1>1 DEF Settled, Staked
<1>3. QED
  BY <1>2, BpsBounds DEF InsuranceShare

LEMMA OracleRewardNat ==
  ASSUME TypeOK, NEW m \in Markets, NEW available \in Nat
  PROVE  OracleReward(m, available) \in 0..available
<1>1. Bps(Staked(m), ORACLE_REWARD_BPS, BPS) \in 0..Staked(m) /\ Staked(m) \in Nat
  BY SettledStake, BpsBounds
<1>2. QED
  BY <1>1 DEF OracleReward, MinOf

LEMMA RejectDisputeStep ==
  ASSUME IInv, NEW m \in Markets, RejectDispute(m)
  PROVE  LocalStep(m)
<1> DEFINE share == InsuranceShare(dispute[m])
           credited == treasury + dispute[m] - share
           reward == OracleReward(m, credited)
           s == Staked(m)
<1>1. /\ TypeOK /\ s + reward <= escrow /\ escrow' = escrow - s - reward
      /\ insurance' = insurance + share /\ treasury' = credited - reward
      /\ submission' = [submission EXCEPT ![m] = Settled(m)]
      /\ dispute' = [dispute EXCEPT ![m] = 0]
      /\ UNCHANGED <<config, market, prediction, listed, commitment, now, paid, settled, dust,
                     anomaly>>
  BY DEF IInv, RejectDispute, history
<1>2. /\ escrow \in Nat /\ treasury \in Nat /\ insurance \in Nat /\ dispute[m] \in Nat
      /\ s \in Nat /\ Settled(m) \in {"none", "settled"}
  BY <1>1, SettledStake DEF TypeOK
<1>3. share \in 0..dispute[m]
  BY <1>2, BpsBounds DEF InsuranceShare
<1> HIDE DEF share, s
<1>4. credited \in Nat
  BY <1>2, <1>3
<1>5. reward \in 0..credited
  BY <1>1, <1>4, OracleRewardNat
<1> HIDE DEF reward
<1>6. /\ escrow' \in Nat /\ treasury' \in Nat /\ insurance' \in Nat
      /\ escrow' - escrow = (treasury' - treasury) + (insurance' - insurance)
            + (0 + 0) - (dispute[m] + s)
  BY <1>1, <1>2, <1>3, <1>4, <1>5
<1>7. (IF Settled(m) = "pending" THEN ORACLE_STAKE ELSE 0) = 0 /\ ~(0 > 0) /\ 0 \in Nat
  BY <1>2
<1>8. QED
  BY <1>1, <1>2, <1>6, <1>7, DisputeAlone DEF s

LEMMA ClaimOracleStakeStep ==
  ASSUME IInv, NEW m \in Markets, ClaimOracleStake(m)
  PROVE  LocalStep(m)
<1> DEFINE reward == OracleReward(m, treasury)
           s == Staked(m)
<1>1. /\ TypeOK /\ s + reward <= escrow /\ escrow' = escrow - s - reward
      /\ insurance' = insurance /\ treasury' = treasury - reward
      /\ submission' = [submission EXCEPT ![m] = "settled"] /\ dispute' = dispute
      /\ dispute[m] = 0
      /\ UNCHANGED <<config, market, prediction, listed, commitment, now, paid, settled, dust,
                     anomaly>>
  BY DEF IInv, ClaimOracleStake, history
<1>2. /\ escrow \in Nat /\ treasury \in Nat /\ insurance \in Nat
      /\ s \in Nat /\ dispute' = [dispute EXCEPT ![m] = 0]
  BY <1>1, SettledStake DEF TypeOK
<1>3. reward \in 0..treasury
  BY <1>1, <1>2, OracleRewardNat
<1> HIDE DEF reward, s
<1>4. /\ escrow' \in Nat /\ treasury' \in Nat /\ insurance' \in Nat
      /\ escrow' - escrow = (treasury' - treasury) + (insurance' - insurance)
            + (0 + 0) - (dispute[m] + s)
  BY <1>1, <1>2, <1>3
<1>5. ~(0 > 0) /\ 0 \in Nat
  OBVIOUS
<1>6. QED
  BY <1>1, <1>2, <1>4, <1>5, DisputeAlone DEF s

LEMMA UpholdDisputeStep ==
  ASSUME IInv, NEW m \in Markets, UpholdDispute(m)
  PROVE  LocalStep(m)
<1> DEFINE s == Staked(m)
           share == InsuranceShare(s)
           mk == Reopened(market[m])
           an == anomaly[m] \cup (IF paid[m] > 0 THEN {"reopened"} ELSE {})
<1>1. /\ TypeOK /\ Sound(m) /\ RowOK(m) /\ dispute[m] > 0 /\ dispute[m] <= escrow
      /\ escrow' = escrow - dispute[m]
      /\ insurance' = insurance + share /\ treasury' = treasury + s - share
      /\ market' = [market EXCEPT ![m] = mk]
      /\ submission' = [submission EXCEPT ![m] = Settled(m)]
      /\ dispute' = [dispute EXCEPT ![m] = 0]
      /\ anomaly' = [anomaly EXCEPT ![m] = an]
      /\ UNCHANGED <<config, prediction, listed, commitment, now, paid, settled, dust>>
  BY RowTypes DEF IInv, UpholdDispute
<1>2. /\ s \in Nat /\ share \in 0..s /\ Settled(m) \in {"none", "settled"}
      /\ escrow \in Nat /\ treasury \in Nat /\ insurance \in Nat /\ dispute[m] \in Nat
  BY <1>1, SettledStake DEF TypeOK
<1>3. /\ mk \in Market /\ mk.exists = market[m].exists /\ mk.end_time = market[m].end_time
      /\ mk.resolution_time = market[m].resolution_time
      /\ ~mk.is_resolved /\ mk.is_cancelled = market[m].is_cancelled
      /\ mk.total_pool = market[m].total_pool
      /\ mk.participant_count = market[m].participant_count
      /\ mk.bond = market[m].bond
  BY <1>1 DEF RowOK, Market, Reopened
<1>4. /\ an \in SUBSET Anomalies /\ anomaly[m] \subseteq an
      /\ an = {} => anomaly[m] = {} /\ ~(paid[m] > 0)
      /\ "overwritten" \notin an => "overwritten" \notin anomaly[m]
  BY <1>1 DEF RowOK, Anomalies
<1>5. market[m].is_resolved /\ market[m].exists
  BY <1>1 DEF Sound, Timely, NoMarket
<1> HIDE DEF mk, an, share
<1>6. /\ market'[m] = mk /\ dispute'[m] = 0 /\ submission'[m] = Settled(m) /\ anomaly'[m] = an
  BY <1>1 DEF TypeOK
<1>7. OnlyAt(m)
  <2>1. /\ prediction = [prediction EXCEPT ![m] = prediction[m]]
        /\ listed = [listed EXCEPT ![m] = listed[m]]
        /\ commitment = [commitment EXCEPT ![m] = commitment[m]]
        /\ paid = [paid EXCEPT ![m] = paid[m]]
        /\ settled = [settled EXCEPT ![m] = settled[m]]
        /\ dust = [dust EXCEPT ![m] = dust[m]]
    BY <1>1 DEF TypeOK
  <2>2. QED
    BY <1>1, <1>6, <2>1 DEF OnlyAt
<1>8. RowOK(m)'
  BY <1>1, <1>2, <1>3, <1>4, <1>6 DEF RowOK
<1>9. FundsOK'
  <2>1. escrow' \in Nat /\ treasury' \in Nat /\ insurance' \in Nat
    BY <1>1, <1>2
  <2>2. QED
    BY <1>1, <2>1 DEF FundsOK, TypeOK
<1>10. Timely(mk, 0, settled[m], now)
  BY <1>1, <1>3, <1>5 DEF Sound, Timely
<1>11. Listing(mk.participant_count, prediction[m], listed[m], settled[m], an)
  BY <1>1, <1>3, <1>4 DEF Sound, Listing
<1>12. Accounted(mk, prediction[m], paid[m], settled[m], dust[m], an)
  <2>1. CASE paid[m] > 0
    BY <1>4, <2>1 DEF Accounted
  <2>2. CASE ~(paid[m] > 0)
    <3>1. Accounted(mk, prediction[m], paid[m], settled[m], dust[m], anomaly[m])
      BY <1>1, <1>3, <1>5, <2>2, ReopenedAccounted DEF Sound, RowOK
    <3>2. QED
      BY <1>4, <3>1 DEF Accounted
  <2>3. QED
    BY <2>1, <2>2
<1>13. Sound(m)'
  BY <1>1, <1>3, <1>6, <1>10, <1>11, <1>12 DEF Sound
<1>14. Frozen(m)
  BY <1>1, <1>3, <1>6 DEF Frozen
<1>15. Balances(m)
  <2>1. Staked(m)' = 0
    BY <1>2, <1>6 DEF Staked
  <2>2. HeldFor(m)' = market[m].bond /\ PoolOf(m)' = PoolOf(m)
    <3>1. market[m].bond \in Int
      BY <1>1, MarketFields DEF RowOK
    <3>2. QED
      BY <1>1, <1>3, <1>6, <2>1, <3>1 DEF HeldFor, PoolOf
  <2>3. /\ HeldFor(m) = market[m].bond + dispute[m] + s
        /\ PoolOf(m) \in Int /\ market[m].bond \in Int
    BY <1>1, BookInt, MarketFields DEF HeldFor, RowOK
  <2>4. /\ PoolOf(m)' - PoolOf(m) = 0 /\ HeldFor(m)' - HeldFor(m) = -(dispute[m] + s)
    BY <1>2, <2>2, <2>3
  <2>5. escrow' - escrow = (treasury' - treasury) + (insurance' - insurance) - (dispute[m] + s)
    <3> HIDE DEF s
    <3>1. QED
      BY <1>1, <1>2
  <2>6. QED
    <3>1. treasury' - treasury \in Int /\ insurance' - insurance \in Int
      BY <1>1, <1>2
    <3> HIDE DEF s
    <3>2. QED
      BY <1>2, <2>4, <2>5, <3>1 DEF Balances
<1>16. QED
  BY <1>1, <1>4, <1>6, <1>7, <1>8, <1>9, <1>13, <1>14, <1>15 DEF LocalStep

-----------------------------------------------------------------------------
(* Sums of one market after a change of one record. *)

LEMMA StakeInInt ==
  ASSUME NEW p \in Prediction
  PROVE  StakeIn(p) \in Int /\ p.stake_amount \in Int
BY DEF StakeIn, Prediction

LEMMA LiveInt ==
  ASSUME NEW pr \in [Users -> Prediction]
  PROVE  LiveStakes(pr) \in Int /\ AllStakes(pr) \in Int
<1>1. /\ [u \in Users |-> StakeIn(pr[u])] \in [Users -> Int]
      /\ [u \in Users |-> pr[u].stake_amount] \in [Users -> Int]
  BY StakeInInt
<1>2. QED
  BY <1>1, SumInt DEF LiveStakes, AllStakes

LEMMA LiveUpdate ==
  ASSUME NEW pr \in [Users -> Prediction], NEW q \in [Users -> Prediction], NEW u \in Users,
         \A v \in Users : v # u => StakeIn(q[v]) = StakeIn(pr[v])
  PROVE  LiveStakes(q) = LiveStakes(pr) - StakeIn(pr[u]) + StakeIn(q[u])
<1> DEFINE f1 == [v \in Users |-> StakeIn(pr[v])]
           f2 == [v \in Users |-> StakeIn(q[v])]
<1>1. f1 \in [Users -> Int] /\ f2 \in [Users -> Int]
  BY StakeInInt
<1>2. /\ \A v \in Users : v # u => f2[v] = f1[v]
      /\ f1[u] = StakeIn(pr[u]) /\ f2[u] = StakeIn(q[u])
  OBVIOUS
<1>3. LiveStakes(pr) = SumFunction(f1) /\ LiveStakes(q) = SumFunction(f2)
  BY DEF LiveStakes
<1> HIDE DEF f1, f2
<1>4. QED
  BY <1>1, <1>2, <1>3, SumUpdate

LEMMA ListUpdate ==
  ASSUME NEW li \in [Users -> Int], NEW u \in Users, NEW x \in Int
  PROVE  /\ [li EXCEPT ![u] = x] \in [Users -> Int]
         /\ SumFunction([li EXCEPT ![u] = x]) = SumFunction(li) - li[u] + x
<1> DEFINE l2 == [li EXCEPT ![u] = x]
<1>1. l2 \in [Users -> Int] /\ l2[u] = x /\ \A v \in Users : v # u => l2[v] = li[v]
  OBVIOUS
<1> HIDE DEF l2
<1>2. SumFunction(l2) = SumFunction(li) - li[u] + l2[u]
  BY <1>1, SumUpdate
<1>3. QED
  BY <1>1, <1>2 DEF l2

\* A stake in the market is positive, and none is negative.
LEMMA StakeInNat ==
  ASSUME NEW pr \in [Users -> Prediction], NEW total_pool, Staking(total_pool, pr),
         NEW u \in Users
  PROVE  /\ StakeIn(pr[u]) \in Nat /\ pr[u].stake_amount \in Nat
         /\ pr[u].store # "none" => pr[u].stake_amount > 0
         /\ pr[u].store = "persistent" => StakeIn(pr[u]) = pr[u].stake_amount
<1>1. pr[u].stake_amount \in Int
  BY StoreValues
<1>2. IF pr[u].store = "none" THEN pr[u] = NoPrediction ELSE pr[u].stake_amount > 0
  BY DEF Staking
<1>3. pr[u].stake_amount \in Nat /\ (pr[u].store # "none" => pr[u].stake_amount > 0)
  BY <1>1, <1>2 DEF NoPrediction
<1>4. QED
  BY <1>3 DEF StakeIn

-----------------------------------------------------------------------------
(* prediction.rs: joining a market. *)

\* A market that accepts stakes is undecided, and nobody was paid.
LEMMA AcceptingMarket ==
  ASSUME IInv, NEW m \in Markets, AcceptsStakes(m)
  PROVE  /\ ~market[m].is_resolved /\ ~market[m].is_cancelled /\ settled[m] = {}
         /\ market[m].exists /\ market[m].end_time \in Nat /\ now \in Nat
         /\ now < market[m].end_time
<1>1. TypeOK /\ Sound(m) /\ RowOK(m)
  BY RowTypes DEF IInv
<1>2. market[m].end_time \in Nat /\ now \in Nat
  BY <1>1, MarketFields DEF RowOK, TypeOK
<1>3. now < market[m].end_time /\ ~market[m].is_cancelled /\ market[m].exists
  BY DEF AcceptsStakes
<1>4. ~(market[m].end_time <= now)
  BY <1>2, <1>3
<1>5. QED
  BY <1>1, <1>2, <1>3, <1>4 DEF Sound, Timely

LEMMA JoinedFields ==
  ASSUME NEW mk \in Market, NEW stake \in Int
  PROVE  /\ Joined(mk, stake) \in Market
         /\ Joined(mk, stake).total_pool = mk.total_pool + stake
         /\ Joined(mk, stake).participant_count = mk.participant_count + 1
         /\ Joined(mk, stake).exists = mk.exists /\ Joined(mk, stake).bond = mk.bond
         /\ Joined(mk, stake).end_time = mk.end_time
         /\ Joined(mk, stake).resolution_time = mk.resolution_time
         /\ Joined(mk, stake).is_resolved = mk.is_resolved
         /\ Joined(mk, stake).is_cancelled = mk.is_cancelled
<1>1. mk.total_pool + stake \in Int /\ mk.participant_count + 1 \in Int
  BY MarketFields
<1>2. QED
  BY <1>1 DEF Joined, Market

\* What joining does to the records of m.
JoinsAs(m, u, outcome, stake, an) ==
  /\ market'[m] = Joined(market[m], stake)
  /\ prediction'[m] = [prediction[m] EXCEPT ![u] = NewPrediction(outcome, stake)]
  /\ listed'[m] = [listed[m] EXCEPT ![u] = @ + 1]
  /\ dispute'[m] = dispute[m] /\ submission'[m] = submission[m] /\ paid'[m] = paid[m]
  /\ settled'[m] = settled[m] /\ dust'[m] = dust[m] /\ now' = now
  /\ anomaly'[m] = an /\ anomaly[m] \subseteq an /\ an \subseteq Anomalies
  /\ HasPosition(m, u) => "overwritten" \in an

LEMMA JoinSound ==
  ASSUME IInv, NEW m \in Markets, NEW u \in Users, NEW outcome \in Outcomes \cup {NoOutcome},
         NEW stake \in Nat, stake > 0, NEW an, AcceptsStakes(m), JoinsAs(m, u, outcome, stake, an),
         commitment'[m] \in [Users -> Commitment]
  PROVE  /\ RowOK(m)' /\ Sound(m)' /\ Frozen(m)
         /\ HeldFor(m)' = HeldFor(m) /\ PoolOf(m)' = PoolOf(m) + stake
<1> DEFINE mk == market[m]
           pr == prediction[m]
           li == listed[m]
           mk2 == Joined(mk, stake)
           p == NewPrediction(outcome, stake)
           pr2 == [pr EXCEPT ![u] = p]
           li2 == [li EXCEPT ![u] = li[u] + 1]
<1>1. /\ TypeOK /\ Sound(m) /\ RowOK(m) /\ mk \in Market /\ pr \in [Users -> Prediction]
      /\ li \in [Users -> Int] /\ paid[m] \in Int /\ dust[m] \in Int
  BY RowTypes DEF IInv, RowOK
<1>2. /\ ~mk.is_resolved /\ ~mk.is_cancelled /\ settled[m] = {} /\ mk.exists
  BY AcceptingMarket
<1>3. p \in Prediction /\ p.store = "persistent" /\ p.stake_amount = stake /\ StakeIn(p) = stake
  BY DEF NewPrediction, Prediction, StakeIn
<1> HIDE DEF p
<1>4. pr2 \in [Users -> Prediction] /\ pr2[u] = p /\ \A v \in Users : v # u => pr2[v] = pr[v]
  BY <1>1, <1>3
<1>5. /\ li2 \in [Users -> Int] /\ li2[u] = li[u] + 1 /\ \A v \in Users : v # u => li2[v] = li[v]
      /\ SumFunction(li2) = SumFunction(li) - li[u] + (li[u] + 1)
      /\ li[u] \in Int /\ SumFunction(li) \in Int
  BY <1>1, ListUpdate, SumInt
<1>6. /\ market'[m] = mk2 /\ prediction'[m] = pr2 /\ listed'[m] = li2
      /\ dispute'[m] = dispute[m] /\ submission'[m] = submission[m] /\ paid'[m] = paid[m]
      /\ settled'[m] = settled[m] /\ dust'[m] = dust[m] /\ now' = now
      /\ anomaly'[m] = an /\ anomaly[m] \subseteq an /\ an \subseteq Anomalies
      /\ pr[u].store = "persistent" => "overwritten" \in an
  BY DEF JoinsAs, p, HasPosition
<1>7. /\ mk2 \in Market /\ mk2.total_pool = mk.total_pool + stake
      /\ mk2.participant_count = mk.participant_count + 1
      /\ mk2.exists = mk.exists /\ mk2.bond = mk.bond /\ mk2.end_time = mk.end_time
      /\ mk2.resolution_time = mk.resolution_time /\ mk2.is_resolved = mk.is_resolved
      /\ mk2.is_cancelled = mk.is_cancelled
      /\ mk.total_pool \in Int /\ mk.participant_count \in Int
  <2>1. mk \in Market /\ stake \in Int
    BY <1>1
  <2> HIDE DEF mk
  <2>2. QED
    BY <2>1, JoinedFields, MarketFields
<1> HIDE DEF mk2, pr2, li2
<1>8. LiveStakes(pr2) = LiveStakes(pr) - StakeIn(pr[u]) + stake /\ LiveStakes(pr) \in Int
  BY <1>1, <1>3, <1>4, LiveUpdate, LiveInt
<1>9. StakeIn(pr[u]) \in Nat /\ Staking(mk.total_pool, pr)
  BY <1>1, StakeInNat DEF Sound
<1>10. RowOK(m)'
  BY <1>1, <1>4, <1>5, <1>6, <1>7 DEF RowOK
<1>11. Timely(mk2, dispute[m], settled[m], now)
  BY <1>1, <1>2, <1>7 DEF Sound, Timely
<1>12. Listing(mk2.participant_count, pr2, li2, settled[m], an)
  <2>1. Listing(mk.participant_count, pr, li, settled[m], anomaly[m])
    BY <1>1 DEF Sound
  <2>2. mk2.participant_count = SumFunction(li2)
    BY <1>5, <1>7, <2>1 DEF Listing
  <2>3. \A v \in Users : li2[v] >= IF pr2[v].store = "persistent" THEN 1 ELSE 0
    <3> SUFFICES ASSUME NEW v \in Users
                 PROVE  li2[v] >= IF pr2[v].store = "persistent" THEN 1 ELSE 0
      OBVIOUS
    <3>1. li[v] >= (IF pr[v].store = "persistent" THEN 1 ELSE 0) /\ li[v] \in Int
      BY <1>1, <2>1 DEF Listing
    <3>2. CASE v = u
      BY <1>3, <1>4, <1>5, <3>1, <3>2
    <3>3. CASE v # u
      BY <1>4, <1>5, <3>1, <3>3
    <3>4. QED
      BY <3>2, <3>3
  <2>4. ASSUME "overwritten" \notin an, NEW v \in Users
        PROVE  li2[v] = IF pr2[v].store = "persistent" \/ v \in settled[m] THEN 1 ELSE 0
    <3>1. li[v] = IF pr[v].store = "persistent" \/ v \in settled[m] THEN 1 ELSE 0
      BY <1>6, <2>1, <2>4 DEF Listing
    <3>2. CASE v = u
      <4>1. li[u] = 0
        BY <1>2, <1>6, <2>4, <3>1, <3>2
      <4>2. QED
        BY <1>3, <1>4, <1>5, <3>2, <4>1
    <3>3. CASE v # u
      BY <1>4, <1>5, <3>1, <3>3
    <3>4. QED
      BY <3>2, <3>3
  <2>5. QED
    BY <1>2, <2>2, <2>3, <2>4 DEF Listing
<1>13. Staking(mk2.total_pool, pr2)
  <2>1. \A v \in Users : IF pr2[v].store = "none" THEN pr2[v] = NoPrediction
                         ELSE pr2[v].stake_amount > 0
    BY <1>3, <1>4, <1>9 DEF Staking
  <2>2. LiveStakes(pr2) <= mk2.total_pool
    BY <1>7, <1>8, <1>9 DEF Staking
  <2>3. QED
    BY <2>1, <2>2 DEF Staking
<1>14. Accounted(mk2, pr2, paid[m], settled[m], dust[m], an)
  <2> SUFFICES ASSUME an = {}
               PROVE  /\ dust[m] >= 0 /\ paid[m] >= 0 /\ (paid[m] = 0 => settled[m] = {})
                      /\ paid[m] + LiveStakes(pr2) = mk2.total_pool
                      /\ paid[m] = 0 /\ \A v \in Users : pr2[v].store # "temporary"
    BY <1>2, <1>7 DEF Accounted
  <2>1. anomaly[m] = {} /\ pr[u].store # "persistent"
    BY <1>6
  <2>2. /\ dust[m] >= 0 /\ paid[m] = 0 /\ settled[m] = {}
        /\ paid[m] + LiveStakes(pr) = mk.total_pool
        /\ \A v \in Users : pr[v].store # "temporary"
    BY <1>1, <1>2, <2>1 DEF Sound, Accounted
  <2>3. StakeIn(pr[u]) = 0
    BY <2>1 DEF StakeIn
  <2>4. paid[m] + LiveStakes(pr2) = mk2.total_pool
    BY <1>7, <1>8, <2>2, <2>3
  <2>5. \A v \in Users : pr2[v].store # "temporary"
    BY <1>3, <1>4, <2>2
  <2>6. QED
    BY <2>2, <2>4, <2>5
<1>15. Sound(m)'
  BY <1>6, <1>11, <1>12, <1>13, <1>14 DEF Sound
<1>16. Frozen(m)
  BY <1>2 DEF Frozen
<1>17. HeldFor(m)' = HeldFor(m) /\ PoolOf(m)' = PoolOf(m) + stake
  <2>1. HeldFor(m)' = HeldFor(m)
    BY <1>6, <1>7 DEF HeldFor, Staked
  <2>2. PoolOf(m)' = mk2.total_pool - paid[m] + dust[m]
    BY <1>6 DEF PoolOf
  <2>3. PoolOf(m) = mk.total_pool - paid[m] + dust[m]
    BY DEF PoolOf
  <2>4. /\ mk.total_pool \in Int /\ paid[m] \in Int /\ dust[m] \in Int
        /\ mk2.total_pool = mk.total_pool + stake
    BY <1>1, <1>7
  <2> HIDE DEF mk
  <2>5. QED
    BY <2>1, <2>2, <2>3, <2>4
<1>18. QED
  BY <1>10, <1>15, <1>16, <1>17

LEMMA SubmitPredictionStep ==
  ASSUME IInv, NEW m \in Markets, NEW u \in Users, NEW o \in Outcomes, NEW a \in Amounts,
         SubmitPrediction(m, u, o, a)
  PROVE  LocalStep(m)
<1>1. /\ TypeOK /\ RowOK(m) /\ AcceptsStakes(m) /\ StakeInBounds(a) /\ ~HasPosition(m, u)
      /\ prediction' = [prediction EXCEPT ![m][u] = NewPrediction(o, a)]
      /\ listed' = [listed EXCEPT ![m][u] = @ + 1]
      /\ market' = [market EXCEPT ![m] = Joined(@, a)]
      /\ escrow' = escrow + a
      /\ UNCHANGED <<config, commitment, dispute, submission, treasury, insurance,
                     now, paid, settled, dust, anomaly>>
  BY RowTypes DEF IInv, SubmitPrediction, history
<1>2. a \in Nat /\ a > 0
  <2>1. a \in Int /\ MIN_STAKE <= a
    BY <1>1 DEF StakeInBounds
  <2>2. QED
    BY <2>1
<1>3. JoinsAs(m, u, o, a, anomaly[m])
  BY <1>1 DEF TypeOK, JoinsAs
<1>4. commitment'[m] \in [Users -> Commitment]
  BY <1>1 DEF TypeOK
<1>5. /\ RowOK(m)' /\ Sound(m)' /\ Frozen(m)
      /\ HeldFor(m)' = HeldFor(m) /\ PoolOf(m)' = PoolOf(m) + a
  BY <1>1, <1>2, <1>3, <1>4, JoinSound
<1>6. OnlyAt(m)
  <2>1. /\ market' = [market EXCEPT ![m] = market'[m]]
        /\ prediction' = [prediction EXCEPT ![m] = prediction'[m]]
        /\ listed' = [listed EXCEPT ![m] = listed'[m]]
    BY <1>1 DEF TypeOK
  <2>2. /\ commitment = [commitment EXCEPT ![m] = commitment[m]]
        /\ dispute = [dispute EXCEPT ![m] = dispute[m]]
        /\ submission = [submission EXCEPT ![m] = submission[m]]
        /\ paid = [paid EXCEPT ![m] = paid[m]]
        /\ settled = [settled EXCEPT ![m] = settled[m]]
        /\ dust = [dust EXCEPT ![m] = dust[m]]
        /\ anomaly = [anomaly EXCEPT ![m] = anomaly[m]]
    BY <1>1 DEF TypeOK
  <2>3. QED
    BY <1>1, <2>1, <2>2 DEF OnlyAt
<1>7. FundsOK' /\ Balances(m)
  <2>1. escrow' \in Nat /\ escrow \in Nat /\ treasury \in Nat /\ insurance \in Nat
    BY <1>1, <1>2 DEF TypeOK
  <2>2. HeldFor(m) \in Int /\ PoolOf(m) \in Int
    BY <1>1, BookInt
  <2>3. QED
    BY <1>1, <1>2, <1>5, <2>1, <2>2 DEF FundsOK, TypeOK, Balances
<1>8. QED
  BY <1>1, <1>5, <1>6, <1>7 DEF LocalStep

LEMMA RevealPredictionStep ==
  ASSUME IInv, NEW m \in Markets, NEW u \in Users, RevealPrediction(m, u)
  PROVE  LocalStep(m)
<1> DEFINE c == commitment[m][u]
           a == c.stake_amount
           an == anomaly[m] \cup (IF HasPosition(m, u) THEN {"overwritten"} ELSE {})
<1>1. /\ TypeOK /\ RowOK(m) /\ AcceptsStakes(m) /\ StakeInBounds(a)
      /\ commitment' = [commitment EXCEPT ![m][u].status = "revealed"]
      /\ prediction' = [prediction EXCEPT ![m][u] = NewPrediction(c.chosen_outcome, a)]
      /\ listed' = [listed EXCEPT ![m][u] = @ + 1]
      /\ market' = [market EXCEPT ![m] = Joined(@, a)]
      /\ escrow' = escrow + a
      /\ anomaly' = [anomaly EXCEPT ![m] = an]
      /\ UNCHANGED <<config, dispute, submission, treasury, insurance, now, paid, settled, dust>>
  BY RowTypes DEF IInv, RevealPrediction
<1>2. c \in Commitment /\ commitment[m] \in [Users -> Commitment]
  BY <1>1 DEF RowOK
<1>3. /\ c.chosen_outcome \in Outcomes \cup {NoOutcome} /\ a \in Int
      /\ [c EXCEPT !.status = "revealed"] \in Commitment
  BY <1>2 DEF Commitment
<1>4. a \in Nat /\ a > 0
  <2>1. MIN_STAKE <= a
    BY <1>1 DEF StakeInBounds
  <2>2. QED
    BY <1>3, <2>1
<1>5. /\ an \subseteq Anomalies /\ anomaly[m] \subseteq an
      /\ HasPosition(m, u) => "overwritten" \in an
  BY <1>1 DEF RowOK, Anomalies
<1>6. JoinsAs(m, u, c.chosen_outcome, a, an)
  <2> HIDE DEF an, c
  <2>1. QED
    BY <1>1, <1>5 DEF TypeOK, JoinsAs
<1>7. /\ commitment'[m] \in [Users -> Commitment]
      /\ commitment' = [commitment EXCEPT ![m] = commitment'[m]]
  <2> DEFINE d == [c EXCEPT !.status = "revealed"]
             row == [commitment[m] EXCEPT ![u] = d]
  <2>1. commitment' = [commitment EXCEPT ![m] = row]
    BY <1>1 DEF TypeOK
  <2>2. d \in Commitment
    BY <1>3
  <2> HIDE DEF d, c
  <2>3. row \in [Users -> Commitment]
    BY <1>2, <2>2
  <2> HIDE DEF row
  <2>4. commitment'[m] = row
    BY <1>1, <2>1 DEF TypeOK
  <2>5. QED
    BY <2>1, <2>3, <2>4
<1> HIDE DEF an, c
<1>8. /\ RowOK(m)' /\ Sound(m)' /\ Frozen(m)
      /\ HeldFor(m)' = HeldFor(m) /\ PoolOf(m)' = PoolOf(m) + a
  BY <1>1, <1>3, <1>4, <1>6, <1>7, JoinSound
<1>9. OnlyAt(m)
  <2>1. /\ market' = [market EXCEPT ![m] = market'[m]]
        /\ prediction' = [prediction EXCEPT ![m] = prediction'[m]]
        /\ listed' = [listed EXCEPT ![m] = listed'[m]]
        /\ anomaly' = [anomaly EXCEPT ![m] = anomaly'[m]]
    BY <1>1 DEF TypeOK
  <2>2. /\ dispute = [dispute EXCEPT ![m] = dispute[m]]
        /\ submission = [submission EXCEPT ![m] = submission[m]]
        /\ paid = [paid EXCEPT ![m] = paid[m]]
        /\ settled = [settled EXCEPT ![m] = settled[m]]
        /\ dust = [dust EXCEPT ![m] = dust[m]]
    BY <1>1 DEF TypeOK
  <2>3. QED
    BY <1>1, <1>7, <2>1, <2>2 DEF OnlyAt
<1>10. FundsOK' /\ Balances(m)
  <2>1. escrow' \in Nat /\ escrow \in Nat /\ treasury \in Nat /\ insurance \in Nat
    BY <1>1, <1>4 DEF TypeOK
  <2>2. HeldFor(m) \in Int /\ PoolOf(m) \in Int
    BY <1>1, BookInt
  <2>3. QED
    BY <1>1, <1>4, <1>8, <2>1, <2>2 DEF FundsOK, TypeOK, Balances
<1>11. anomaly'[m] = an
  BY <1>1 DEF TypeOK
<1>12. QED
  BY <1>1, <1>5, <1>8, <1>9, <1>10, <1>11 DEF LocalStep

LEMMA CommitPredictionStep ==
  ASSUME IInv, NEW m \in Markets, NEW u \in Users, NEW o \in Outcomes, NEW a \in Amounts,
         CommitPrediction(m, u, o, a)
  PROVE  LocalStep(m)
<1> DEFINE c == [status |-> "committed", committed_at |-> now, chosen_outcome |-> o,
                 stake_amount |-> a]
<1>1. /\ TypeOK /\ RowOK(m) /\ Sound(m)
      /\ commitment' = [commitment EXCEPT ![m][u] = c]
      /\ UNCHANGED <<config, market, prediction, listed, dispute, submission, escrow, treasury,
                     insurance, now, paid, settled, dust, anomaly>>
  BY RowTypes DEF IInv, CommitPrediction, history, funds
<1>2. c \in Commitment
  <2>1. a \in Int /\ now \in Nat
    BY <1>1 DEF TypeOK
  <2>2. QED
    BY <2>1 DEF Commitment
<1> HIDE DEF c
<1>3. /\ commitment'[m] = [commitment[m] EXCEPT ![u] = c]
      /\ commitment' = [commitment EXCEPT ![m] = commitment'[m]]
  BY <1>1 DEF TypeOK
<1>4. commitment'[m] \in [Users -> Commitment]
  BY <1>1, <1>2, <1>3 DEF RowOK
<1>5. OnlyAt(m)
  <2>1. /\ market = [market EXCEPT ![m] = market[m]]
        /\ prediction = [prediction EXCEPT ![m] = prediction[m]]
        /\ listed = [listed EXCEPT ![m] = listed[m]]
        /\ anomaly = [anomaly EXCEPT ![m] = anomaly[m]]
        /\ dispute = [dispute EXCEPT ![m] = dispute[m]]
        /\ submission = [submission EXCEPT ![m] = submission[m]]
        /\ paid = [paid EXCEPT ![m] = paid[m]]
        /\ settled = [settled EXCEPT ![m] = settled[m]]
        /\ dust = [dust EXCEPT ![m] = dust[m]]
    BY <1>1 DEF TypeOK
  <2>2. QED
    BY <1>1, <1>3, <2>1 DEF OnlyAt
<1>6. RowOK(m)' /\ Sound(m)' /\ Frozen(m)
  BY <1>1, <1>4 DEF RowOK, Sound, Frozen
<1>7. FundsOK'
  BY <1>1 DEF FundsOK, TypeOK
<1>8. Balances(m)
  <2>1. HeldFor(m)' = HeldFor(m) /\ PoolOf(m)' = PoolOf(m)
    BY <1>1 DEF HeldFor, PoolOf, Staked
  <2>2. /\ HeldFor(m) \in Int /\ PoolOf(m) \in Int
        /\ escrow \in Int /\ treasury \in Int /\ insurance \in Int
    BY <1>1, BookInt DEF TypeOK
  <2>3. QED
    BY <1>1, <2>1, <2>2 DEF Balances
<1>9. QED
  BY <1>1, <1>5, <1>6, <1>7, <1>8 DEF LocalStep

\* A slip joins several markets; each of them as one submission does.
LEMMA BatchRows ==
  ASSUME IInv, NEW u \in Users, NEW r \in Requests, SubmitPredictionsBatch(u, r),
         NEW m \in DOMAIN r
  PROVE  /\ m \in Markets /\ r[m].stake \in Nat /\ RowOK(m)' /\ Sound(m)' /\ Frozen(m)
         /\ HeldFor(m)' = HeldFor(m) /\ PoolOf(m)' = PoolOf(m) + r[m].stake
         /\ anomaly'[m] = anomaly[m]
<1>1. PICK S \in SUBSET Markets : r \in [S -> [outcome : Outcomes, stake : Amounts]]
  BY DEF Requests
<1>2. m \in S /\ m \in Markets
  BY <1>1
<1>3. r[m] \in [outcome : Outcomes, stake : Amounts]
  BY <1>1, <1>2
<1>4. r[m].outcome \in Outcomes /\ r[m].stake \in Int
  BY <1>3
<1>5. /\ TypeOK /\ RowOK(m) /\ AcceptsStakes(m) /\ StakeInBounds(r[m].stake) /\ ~HasPosition(m, u)
      /\ prediction'[m] = [prediction[m] EXCEPT ![u] = NewPrediction(r[m].outcome, r[m].stake)]
      /\ listed'[m] = [listed[m] EXCEPT ![u] = @ + 1]
      /\ market'[m] = Joined(market[m], r[m].stake)
      /\ UNCHANGED <<config, commitment, dispute, submission, treasury, insurance,
                     now, paid, settled, dust, anomaly>>
  BY <1>2, RowTypes DEF IInv, SubmitPredictionsBatch, history
<1>6. r[m].stake \in Nat /\ r[m].stake > 0
  <2>1. MIN_STAKE <= r[m].stake
    BY <1>5 DEF StakeInBounds
  <2>2. QED
    BY <1>4, <2>1
<1>7. JoinsAs(m, u, r[m].outcome, r[m].stake, anomaly[m])
  BY <1>5 DEF RowOK, JoinsAs
<1>8. commitment'[m] \in [Users -> Commitment]
  BY <1>5 DEF RowOK
<1>9. QED
  BY <1>2, <1>4, <1>5, <1>6, <1>7, <1>8, JoinSound

LEMMA RequestTypes ==
  ASSUME NEW r \in Requests
  PROVE  DOMAIN r \subseteq Markets /\ \A m \in DOMAIN r : r[m].stake \in Int
<1>1. PICK S \in SUBSET Markets : r \in [S -> [outcome : Outcomes, stake : Amounts]]
  BY DEF Requests
<1>2. QED
  BY <1>1

\* The markets a slip does not name are as they were.
LEMMA BatchRest ==
  ASSUME IInv, NEW u \in Users, NEW r \in Requests, SubmitPredictionsBatch(u, r),
         NEW m \in Markets, m \notin DOMAIN r
  PROVE  /\ RowOK(m)' /\ Sound(m)' /\ Frozen(m) /\ anomaly'[m] = anomaly[m]
         /\ HeldFor(m)' = HeldFor(m) /\ PoolOf(m)' = PoolOf(m)
<1>1. /\ prediction'[m] = prediction[m] /\ listed'[m] = listed[m] /\ market'[m] = market[m]
      /\ UNCHANGED <<commitment, dispute, submission, now, paid, settled, dust, anomaly>>
  BY DEF SubmitPredictionsBatch, history
<1>2. RowOK(m) /\ Sound(m)
  BY RowTypes DEF IInv
<1>3. QED
  BY <1>1, <1>2 DEF RowOK, Sound, Frozen, HeldFor, PoolOf, Staked

LEMMA SubmitPredictionsBatchInv ==
  ASSUME IInv, NEW u \in Users, NEW r \in Requests, SubmitPredictionsBatch(u, r)
  PROVE  IInv' /\ \A m \in Markets : Frozen(m)
<1> DEFINE stakes == [m \in DOMAIN r |-> r[m].stake]
           add == [m \in Markets |-> IF m \in DOMAIN r THEN r[m].stake ELSE 0]
           held1 == [m \in Markets |-> HeldFor(m)]
           held2 == [m \in Markets |-> HeldFor(m)']
           pool1 == [m \in Markets |-> PoolOf(m)]
           pool2 == [m \in Markets |-> PoolOf(m)']
<1>1. /\ TypeOK /\ escrow' = escrow + SumFunction(stakes)
      /\ DOMAIN market' = Markets /\ DOMAIN prediction' = Markets /\ DOMAIN listed' = Markets
      /\ market' = [m \in Markets |-> market'[m]]
      /\ prediction' = [m \in Markets |-> prediction'[m]]
      /\ listed' = [m \in Markets |-> listed'[m]]
      /\ UNCHANGED <<config, commitment, dispute, submission, treasury, insurance, now,
                     paid, settled, dust, anomaly>>
  BY DEF IInv, SubmitPredictionsBatch, history
<1>2. DOMAIN r \subseteq Markets /\ \A m \in DOMAIN r : r[m].stake \in Nat
  BY RequestTypes, BatchRows
<1>3. \A m \in Markets : RowOK(m)' /\ Sound(m)' /\ Frozen(m)
  BY BatchRows, BatchRest
<1>4. \A m \in Markets : HeldFor(m)' = HeldFor(m) /\ PoolOf(m)' = PoolOf(m) + add[m]
  <2> SUFFICES ASSUME NEW m \in Markets
               PROVE  HeldFor(m)' = HeldFor(m) /\ PoolOf(m)' = PoolOf(m) + add[m]
    OBVIOUS
  <2>1. CASE m \in DOMAIN r
    BY <2>1, BatchRows
  <2>2. CASE m \notin DOMAIN r
    <3>1. PoolOf(m) \in Int
      BY <1>1, RowTypes, BookInt
    <3>2. QED
      BY <2>2, <3>1, BatchRest
  <2>3. QED
    BY <2>1, <2>2
<1>5. stakes \in [DOMAIN r -> Int] /\ add \in [Markets -> Int] /\ stakes \in [DOMAIN r -> Nat]
      /\ \A m \in Markets : add[m] = IF m \in DOMAIN r THEN stakes[m] ELSE 0
  BY <1>2
<1>6. SumFunction(add) = SumFunction(stakes) /\ SumFunction(stakes) \in Nat
  <2> HIDE DEF add, stakes
  <2>1. IsFiniteSet(DOMAIN r)
    BY <1>2, FS_Subset
  <2>2. QED
    BY <1>2, <1>5, <2>1, SumExtend, SumNat
<1>7. FundsOK'
  <2>1. escrow' \in Nat
    <3> HIDE DEF stakes
    <3>1. QED
      BY <1>1, <1>6 DEF TypeOK
  <2>2. QED
    BY <1>1, <2>1 DEF TypeOK, FundsOK
<1>8. TypeOK'
  <2>1. market' \in [Markets -> Market] /\ prediction' \in [Markets -> [Users -> Prediction]]
        /\ listed' \in [Markets -> [Users -> Int]]
    <3>1. \A m \in Markets : /\ market'[m] \in Market /\ prediction'[m] \in [Users -> Prediction]
                             /\ listed'[m] \in [Users -> Int]
      BY <1>3 DEF RowOK
    <3>2. QED
      BY <1>1, <3>1
  <2>2. QED
    BY <1>1, <1>7, <2>1 DEF TypeOK, FundsOK
<1>9. EscrowMatchesBooks'
  <2> SUFFICES ASSUME \A n \in Markets : "overcharged" \notin anomaly'[n]
               PROVE  Books'
    BY DEF EscrowMatchesBooks, Books, Held, HeldFor, PoolOf
  <2>1. Books
    BY <1>1, BooksAre DEF IInv
  <2>2. \A m \in Markets : HeldFor(m) \in Int /\ PoolOf(m) \in Int
    BY <1>1, RowTypes, BookInt
  <2>3. held1 = held2
    BY <1>4
  <2>4. pool1 \in [Markets -> Int] /\ pool2 \in [Markets -> Int]
        /\ \A m \in Markets : pool2[m] = pool1[m] + add[m]
    <3> HIDE DEF add
    <3>1. \A m \in Markets : add[m] \in Int
      BY <1>5
    <3>2. QED
      BY <1>4, <2>2, <3>1
  <2> HIDE DEF add, stakes, pool1, pool2
  <2>5. IsLinear(Markets, pool2, 1, pool1, 1, add)
    BY <1>5, <2>4 DEF IsLinear
  <2>6. SumFunction(pool2) = 1 * SumFunction(pool1) + 1 * SumFunction(add)
    BY <1>5, <2>4, <2>5, SumLinear
  <2>7. SumFunction(pool1) \in Int /\ SumFunction(held1) \in Int
    <3>1. held1 \in [Markets -> Int]
      BY <2>2
    <3> HIDE DEF held1
    <3>2. QED
      BY <2>4, <3>1, SumInt
  <2>8. escrow = treasury + insurance + SumFunction(held1) + SumFunction(pool1)
    BY <2>1 DEF Books, pool1
  <2>9. escrow' = treasury' + insurance' + SumFunction(held2) + SumFunction(pool2)
    <3> HIDE DEF held1, held2
    <3>1. escrow \in Int /\ treasury \in Int /\ insurance \in Int
      BY <1>1 DEF TypeOK
    <3>2. QED
      BY <1>1, <1>6, <2>3, <2>6, <2>7, <2>8, <3>1
  <2>10. QED
    BY <2>9 DEF Books, pool2
<1>10. QED
  BY <1>3, <1>8, <1>9 DEF IInv

-----------------------------------------------------------------------------
(* escrow.rs and config.rs: administration, and the passing of time. *)

\* What leaves escrow leaves the treasury or the insurance pool.
FundsMove == escrow' - escrow = (treasury' - treasury) + (insurance' - insurance)

LEMMA FundsBooks ==
  ASSUME TypeOK, TypeOK', Books, FundsMove,
         UNCHANGED <<market, prediction, listed, commitment, dispute, submission,
                     paid, settled, dust, anomaly>>
  PROVE  Books'
<1> DEFINE h == SumFunction([m \in Markets |-> HeldFor(m)])
           p == SumFunction([m \in Markets |-> PoolOf(m)])
<1>1. escrow = treasury + insurance + h + p
  BY DEF Books
<1>2. h \in Int /\ p \in Int
  <2>1. /\ [m \in Markets |-> HeldFor(m)] \in [Markets -> Int]
        /\ [m \in Markets |-> PoolOf(m)] \in [Markets -> Int]
    BY RowTypes, BookInt
  <2>2. QED
    BY <2>1, SumInt
<1>3. h' = h /\ p' = p
  BY DEF HeldFor, PoolOf, Staked
<1>4. /\ escrow \in Int /\ treasury \in Int /\ insurance \in Int
      /\ escrow' \in Int /\ treasury' \in Int /\ insurance' \in Int
  BY DEF TypeOK
<1>5. escrow' = treasury' + insurance' + h + p
  <2> DEFINE e == escrow'
             t == treasury'
             i == insurance'
  <2>1. /\ e \in Int /\ t \in Int /\ i \in Int
        /\ e - escrow = (t - treasury) + (i - insurance)
    BY <1>4 DEF FundsMove
  <2> HIDE DEF h, p, e, t, i
  <2>2. e = t + i + h + p
    BY <1>1, <1>2, <1>4, <2>1
  <2>3. QED
    BY <2>2 DEF e, t, i
<1>6. QED
  BY <1>3, <1>5 DEF Books

\* No market changes.
LEMMA FundsInv ==
  ASSUME IInv, FundsOK', now <= now',
         UNCHANGED <<market, prediction, listed, commitment, dispute, submission,
                     paid, settled, dust, anomaly>>,
         FundsMove
  PROVE  IInv' /\ \A m \in Markets : Frozen(m)
<1>1. TypeOK /\ TypeOK'
  BY DEF IInv, TypeOK, FundsOK
<1>2. ASSUME NEW m \in Markets PROVE Sound(m)' /\ Frozen(m)
  <2>1. Sound(m) /\ market[m] \in Market /\ now \in Int /\ now' \in Int
    BY <1>1 DEF IInv, TypeOK
  <2>2. market[m].end_time \in Int
    BY <2>1, MarketFields
  <2>3. market[m].end_time <= now => market[m].end_time <= now'
    BY <2>1, <2>2
  <2>4. Timely(market[m], dispute[m], settled[m], now')
    BY <2>1, <2>3 DEF Sound, Timely
  <2>5. QED
    BY <2>1, <2>4 DEF Sound, Frozen
<1>3. EscrowMatchesBooks'
  <2> SUFFICES ASSUME \A n \in Markets : "overcharged" \notin anomaly'[n]
               PROVE  Books'
    BY DEF EscrowMatchesBooks, Books, Held, HeldFor, PoolOf
  <2>1. Books
    BY BooksAre DEF IInv
  <2>2. QED
    BY <1>1, <2>1, FundsBooks
<1>4. QED
  BY <1>1, <1>2, <1>3 DEF IInv

LEMMA AdministrationInv ==
  ASSUME IInv, Administration
  PROVE  IInv' /\ \A m \in Markets : Frozen(m)
<1>1. /\ TypeOK /\ config \in Config /\ escrow \in Nat /\ treasury \in Nat /\ insurance \in Nat
      /\ now \in 0..MaxTime
  BY DEF IInv, TypeOK
<1>2. ASSUME NEW a \in Amounts, WithdrawTreasury(a)
      PROVE  IInv' /\ \A m \in Markets : Frozen(m)
  <2>1. /\ a > 0 /\ a \in Int /\ a <= treasury /\ a <= escrow
        /\ treasury' = treasury - a /\ escrow' = escrow - a
        /\ UNCHANGED <<config, market, prediction, listed, commitment, dispute,
                       submission, insurance, now, paid, settled, dust, anomaly>>
    BY <1>2 DEF WithdrawTreasury, history
  <2>2. /\ treasury' \in Nat /\ escrow' \in Nat /\ now <= now'
        /\ escrow' - escrow = (treasury' - treasury) + (insurance' - insurance)
    BY <1>1, <2>1
  <2>3. QED
    BY <1>1, <2>1, <2>2, FundsInv DEF FundsOK, FundsMove
<1>3. ASSUME NEW a \in Amounts, DrawInsurancePool(a)
      PROVE  IInv' /\ \A m \in Markets : Frozen(m)
  <2>1. /\ a > 0 /\ a \in Int /\ a <= insurance /\ a <= escrow
        /\ insurance' = insurance - a /\ escrow' = escrow - a
        /\ UNCHANGED <<config, market, prediction, listed, commitment, dispute,
                       submission, treasury, now, paid, settled, dust, anomaly>>
    BY <1>3 DEF DrawInsurancePool, history
  <2>2. /\ insurance' \in Nat /\ escrow' \in Nat /\ now <= now'
        /\ escrow' - escrow = (treasury' - treasury) + (insurance' - insurance)
    BY <1>1, <2>1
  <2>3. QED
    BY <1>1, <2>1, <2>2, FundsInv DEF FundsOK, FundsMove
<1>4. ASSUME config' \in Config,
             UNCHANGED <<market, prediction, listed, commitment, dispute, submission,
                         escrow, treasury, insurance, now, paid, settled, dust, anomaly>>
      PROVE  IInv' /\ \A m \in Markets : Frozen(m)
  <2>1. now <= now' /\ escrow' - escrow = (treasury' - treasury) + (insurance' - insurance)
    BY <1>1, <1>4
  <2>2. QED
    BY <1>1, <1>4, <2>1, FundsInv DEF FundsOK, FundsMove
<1>5. ASSUME NEW bps \in ProtocolFees, UpdateProtocolFee(bps) PROVE config' \in Config
  <2>1. bps \in 0..BPS
    BY <1>5 DEF UpdateProtocolFee
  <2>2. QED
    BY <1>1, <1>5, <2>1 DEF UpdateProtocolFee, Config
<1>6. ASSUME NEW bps \in ExitFees, SetEarlyExitFeeBps(bps) PROVE config' \in Config
  <2>1. bps \in 0..BPS
    BY <1>6 DEF SetEarlyExitFeeBps
  <2>2. QED
    BY <1>1, <1>6, <2>1 DEF SetEarlyExitFeeBps, Config
<1>7. ASSUME NEW flag \in BOOLEAN, SetPaused(flag) PROVE config' \in Config
  BY <1>1, <1>7 DEF SetPaused, Config
<1>8. ASSUME Tick PROVE IInv' /\ \A m \in Markets : Frozen(m)
  <2>1. /\ now' \in 0..MaxTime /\ now <= now'
        /\ UNCHANGED <<config, market, prediction, listed, commitment, dispute, submission,
                       escrow, treasury, insurance, paid, settled, dust, anomaly>>
    BY <1>1, <1>8 DEF Tick, funds, history
  <2>2. escrow' - escrow = (treasury' - treasury) + (insurance' - insurance)
    BY <1>1, <2>1
  <2>3. QED
    BY <1>1, <2>1, <2>2, FundsInv DEF FundsOK, FundsMove
<1>9. CASE \E bps \in ProtocolFees : UpdateProtocolFee(bps)
  BY <1>4, <1>5, <1>9 DEF UpdateProtocolFee, funds, history
<1>10. CASE \E bps \in ExitFees : SetEarlyExitFeeBps(bps)
  BY <1>4, <1>6, <1>10 DEF SetEarlyExitFeeBps, funds, history
<1>11. CASE \E flag \in BOOLEAN : SetPaused(flag)
  BY <1>4, <1>7, <1>11 DEF SetPaused, funds, history
<1>12. QED
  BY <1>2, <1>3, <1>8, <1>9, <1>10, <1>11 DEF Administration

-----------------------------------------------------------------------------
(* prediction.rs: steps on the positions of one market. *)

\* The pool of m becomes mk.total_pool - pd + du, and escrow and treasury know.
PoolMoves(m, mk, pd, du) ==
  escrow' - escrow = (treasury' - treasury) + ((mk.total_pool - pd + du) - PoolOf(m))

\* A market that is decided or has paid keeps its pool and its list.
Keeps(m, mk, li) ==
  market[m].is_resolved \/ market[m].is_cancelled \/ settled[m] # {} =>
    mk.total_pool = market[m].total_pool /\ li = listed[m]

\* Field by field: what a step on positions leaves in m.
PositionsAre(m, mk, pr, li, pd, se, du, an) ==
  /\ market' = [market EXCEPT ![m] = mk] /\ prediction' = [prediction EXCEPT ![m] = pr]
  /\ listed' = [listed EXCEPT ![m] = li] /\ paid' = [paid EXCEPT ![m] = pd]
  /\ settled' = [settled EXCEPT ![m] = se] /\ dust' = [dust EXCEPT ![m] = du]
  /\ anomaly' = [anomaly EXCEPT ![m] = an]
  /\ UNCHANGED <<config, commitment, dispute, submission, insurance, now>>

SoundAs(m, mk, pr, li, pd, se, du, an) ==
  /\ Timely(mk, dispute[m], se, now)
  /\ Listing(mk.participant_count, pr, li, se, an)
  /\ Staking(mk.total_pool, pr)
  /\ Accounted(mk, pr, pd, se, du, an)

LEMMA PositionStep ==
  ASSUME IInv, NEW m \in Markets, NEW mk \in Market, NEW pr \in [Users -> Prediction],
         NEW li \in [Users -> Int], NEW pd \in Int, NEW se \in SUBSET Users, NEW du \in Int,
         NEW an \in SUBSET Anomalies, PositionsAre(m, mk, pr, li, pd, se, du, an),
         SoundAs(m, mk, pr, li, pd, se, du, an), mk.bond = market[m].bond,
         anomaly[m] \subseteq an, Keeps(m, mk, li), escrow' \in Nat, treasury' \in Nat,
         "overcharged" \in an \/ PoolMoves(m, mk, pd, du)
  PROVE  LocalStep(m)
<1>1. TypeOK /\ RowOK(m)
  BY RowTypes DEF IInv
<1>2. /\ market'[m] = mk /\ prediction'[m] = pr /\ listed'[m] = li /\ paid'[m] = pd
      /\ settled'[m] = se /\ dust'[m] = du /\ anomaly'[m] = an
      /\ UNCHANGED <<config, commitment, dispute, submission, insurance, now>>
  BY <1>1 DEF TypeOK, PositionsAre
<1>3. OnlyAt(m)
  <2>1. /\ commitment = [commitment EXCEPT ![m] = commitment[m]]
        /\ dispute = [dispute EXCEPT ![m] = dispute[m]]
        /\ submission = [submission EXCEPT ![m] = submission[m]]
    BY <1>1 DEF TypeOK
  <2>2. QED
    BY <1>2, <2>1 DEF OnlyAt, PositionsAre
<1>4. RowOK(m)'
  BY <1>1, <1>2 DEF RowOK
<1>5. FundsOK'
  BY <1>1, <1>2 DEF FundsOK, TypeOK
<1>6. Sound(m)'
  BY <1>2 DEF Sound, SoundAs
<1>7. Frozen(m)
  BY <1>2 DEF Frozen, Keeps
<1>8. "overcharged" \in an \/ Balances(m)
  <2> SUFFICES ASSUME PoolMoves(m, mk, pd, du) PROVE Balances(m)
    OBVIOUS
  <2> DEFINE pool == mk.total_pool - pd + du
             e == escrow'
             t == treasury'
             old == PoolOf(m)
             held == HeldFor(m)
  <2>1. HeldFor(m)' = held /\ PoolOf(m)' = pool
    BY <1>2 DEF HeldFor, PoolOf, Staked
  <2>2. pool \in Int
    <3>1. mk.total_pool \in Int
      BY MarketFields
    <3>2. QED
      BY <3>1
  <2>3. /\ held \in Int /\ old \in Int /\ e \in Int /\ t \in Int
        /\ insurance \in Int /\ escrow \in Int /\ treasury \in Int
        /\ e - escrow = (t - treasury) + (pool - old)
    BY <1>1, BookInt DEF PoolMoves, TypeOK
  <2> HIDE DEF pool, e, t, old, held
  <2>4. e - escrow = (t - treasury) + (insurance - insurance) + (held - held) + (pool - old)
    BY <2>2, <2>3
  <2>5. QED
    BY <1>2, <2>1, <2>4 DEF Balances, e, t, old, held
<1>9. QED
  BY <1>2, <1>3, <1>4, <1>5, <1>6, <1>7, <1>8 DEF LocalStep

LEMMA TombstoneFields ==
  ASSUME NEW p \in Prediction
  PROVE  /\ Tombstone(p) \in Prediction /\ Tombstone(p).store = "temporary"
         /\ Tombstone(p).stake_amount = p.stake_amount
         /\ Tombstone(p).chosen_outcome = p.chosen_outcome /\ StakeIn(Tombstone(p)) = 0
BY DEF Tombstone, Prediction, StakeIn

LEMMA NoneFields ==
  /\ NoPrediction \in Prediction /\ NoPrediction.store = "none"
  /\ NoPrediction.stake_amount = 0 /\ StakeIn(NoPrediction) = 0
BY DEF NoPrediction, Prediction, StakeIn

LEMMA ExpireTombstoneStep ==
  ASSUME IInv, NEW m \in Markets, NEW u \in Users, ExpireTombstone(m, u)
  PROVE  LocalStep(m)
<1> DEFINE mk == market[m]
           pr == prediction[m]
           pr2 == [pr EXCEPT ![u] = NoPrediction]
           an == anomaly[m] \cup (IF mk.is_cancelled THEN {} ELSE {"expired"})
<1>1. /\ TypeOK /\ Sound(m) /\ RowOK(m) /\ pr[u].store = "temporary"
      /\ prediction' = [prediction EXCEPT ![m] = pr2]
      /\ anomaly' = [anomaly EXCEPT ![m] = an]
      /\ UNCHANGED <<config, market, listed, commitment, dispute, submission, escrow, treasury,
                     insurance, now, paid, settled, dust>>
  BY RowTypes DEF IInv, ExpireTombstone, funds, TypeOK
<1>2. /\ mk \in Market /\ pr \in [Users -> Prediction] /\ listed[m] \in [Users -> Int]
      /\ paid[m] \in Int /\ settled[m] \in SUBSET Users /\ dust[m] \in Int
  BY <1>1 DEF RowOK
<1>3. /\ pr2 \in [Users -> Prediction] /\ pr2[u] = NoPrediction
      /\ \A v \in Users : v # u => pr2[v] = pr[v]
  BY <1>2, NoneFields
<1>4. /\ an \in SUBSET Anomalies /\ anomaly[m] \subseteq an
      /\ an = {} => anomaly[m] = {} /\ mk.is_cancelled
      /\ "overwritten" \notin an => "overwritten" \notin anomaly[m]
  BY <1>1 DEF RowOK, Anomalies
<1> HIDE DEF pr2, an
<1>5. LiveStakes(pr2) = LiveStakes(pr)
  <2>1. StakeIn(pr[u]) = 0 /\ StakeIn(pr2[u]) = 0
    BY <1>1, <1>3, NoneFields DEF StakeIn
  <2>2. LiveStakes(pr2) = LiveStakes(pr) - StakeIn(pr[u]) + StakeIn(pr2[u])
        /\ LiveStakes(pr) \in Int
    BY <1>2, <1>3, LiveUpdate, LiveInt
  <2>3. QED
    BY <2>1, <2>2
<1>6. \A v \in Users : pr2[v].store = "persistent" <=> pr[v].store = "persistent"
  BY <1>1, <1>3, NoneFields
<1>7. SoundAs(m, mk, pr2, listed[m], paid[m], settled[m], dust[m], an)
  <2>1. Timely(mk, dispute[m], settled[m], now)
    BY <1>1 DEF Sound
  <2>2. Listing(mk.participant_count, pr2, listed[m], settled[m], an)
    BY <1>1, <1>2, <1>4, <1>6 DEF Sound, Listing
  <2>3. Staking(mk.total_pool, pr2)
    BY <1>1, <1>3, <1>5, NoneFields DEF Sound, Staking
  <2>4. Accounted(mk, pr2, paid[m], settled[m], dust[m], an)
    BY <1>1, <1>4, <1>5 DEF Sound, Accounted, Timely
  <2>5. QED
    BY <2>1, <2>2, <2>3, <2>4 DEF SoundAs
<1>8. PositionsAre(m, mk, pr2, listed[m], paid[m], settled[m], dust[m], an)
  BY <1>1 DEF PositionsAre, TypeOK
<1>9. PoolMoves(m, mk, paid[m], dust[m]) /\ Keeps(m, mk, listed[m])
  <2>1. PoolOf(m) \in Int /\ escrow \in Int /\ treasury \in Int
    BY <1>1, BookInt DEF TypeOK
  <2>2. escrow - escrow = (treasury - treasury) + (PoolOf(m) - PoolOf(m))
    BY <2>1
  <2>3. QED
    BY <1>1, <2>2 DEF PoolMoves, Keeps, PoolOf
<1>10. escrow' \in Nat /\ treasury' \in Nat
  BY <1>1 DEF TypeOK
<1>11. QED
  BY <1>2, <1>3, <1>4, <1>7, <1>8, <1>9, <1>10, PositionStep

LEMMA ClaimCancelRefundStep ==
  ASSUME IInv, NEW m \in Markets, NEW u \in Users, ClaimCancelRefund(m, u)
  PROVE  LocalStep(m)
<1> DEFINE mk == market[m]
           pr == prediction[m]
           s == pr[u].stake_amount
           pr2 == [pr EXCEPT ![u] = Tombstone(pr[u])]
           pd == paid[m] + s
           se == settled[m] \cup {u}
<1>1. /\ TypeOK /\ Sound(m) /\ RowOK(m) /\ mk.is_cancelled /\ pr[u].store = "persistent"
      /\ s > 0 /\ s <= escrow /\ escrow' = escrow - s
      /\ prediction' = [prediction EXCEPT ![m] = pr2]
      /\ paid' = [paid EXCEPT ![m] = pd] /\ settled' = [settled EXCEPT ![m] = se]
      /\ UNCHANGED <<config, market, listed, commitment, dispute, submission, treasury,
                     insurance, now, dust, anomaly>>
  BY RowTypes DEF IInv, ClaimCancelRefund, TypeOK, HasPosition
<1>2. /\ mk \in Market /\ pr \in [Users -> Prediction] /\ listed[m] \in [Users -> Int]
      /\ paid[m] \in Int /\ settled[m] \in SUBSET Users /\ dust[m] \in Int
      /\ anomaly[m] \in SUBSET Anomalies
  BY <1>1 DEF RowOK
<1>3. s \in Int /\ s > 0 /\ pr[u] \in Prediction /\ mk.total_pool \in Int
  BY <1>1, <1>2, StoreValues, MarketFields
<1>4. /\ Tombstone(pr[u]) \in Prediction /\ Tombstone(pr[u]).store = "temporary"
      /\ Tombstone(pr[u]).stake_amount = s /\ StakeIn(Tombstone(pr[u])) = 0
  BY <1>3, TombstoneFields
<1>5. /\ pr2 \in [Users -> Prediction] /\ pr2[u] = Tombstone(pr[u])
      /\ \A v \in Users : v # u => pr2[v] = pr[v]
  BY <1>2, <1>4
<1>6. pd \in Int /\ se \in SUBSET Users
  BY <1>2, <1>3
<1> HIDE DEF pr2, s
<1>7. LiveStakes(pr2) = LiveStakes(pr) - s /\ LiveStakes(pr) \in Int
  <2>1. StakeIn(pr[u]) = s /\ StakeIn(pr2[u]) = 0
    BY <1>1, <1>4, <1>5 DEF StakeIn, s
  <2>2. LiveStakes(pr2) = LiveStakes(pr) - StakeIn(pr[u]) + StakeIn(pr2[u])
        /\ LiveStakes(pr) \in Int
    BY <1>2, <1>5, LiveUpdate, LiveInt
  <2>3. QED
    BY <1>3, <2>1, <2>2
<1>8. ~mk.is_resolved /\ mk.exists
  BY <1>1 DEF Sound, Timely, NoMarket
<1>9. \A v \in Users : pr2[v].store = "persistent" <=> pr[v].store = "persistent" /\ v # u
  BY <1>1, <1>4, <1>5
<1>10. SoundAs(m, mk, pr2, listed[m], pd, se, dust[m], anomaly[m])
  <2>1. Timely(mk, dispute[m], se, now)
    BY <1>1, <1>8 DEF Sound, Timely
  <2>2. Listing(mk.participant_count, pr2, listed[m], se, anomaly[m])
    <3>1. Listing(mk.participant_count, pr, listed[m], settled[m], anomaly[m])
      BY <1>1 DEF Sound
    <3>2. mk.participant_count = SumFunction(listed[m])
      BY <3>1 DEF Listing
    <3>3. \A v \in Users : listed[m][v] >= IF pr2[v].store = "persistent" THEN 1 ELSE 0
      <4> SUFFICES ASSUME NEW v \in Users
                   PROVE  listed[m][v] >= IF pr2[v].store = "persistent" THEN 1 ELSE 0
        OBVIOUS
      <4>1. listed[m][v] >= (IF pr[v].store = "persistent" THEN 1 ELSE 0) /\ listed[m][v] \in Int
        BY <1>2, <3>1 DEF Listing
      <4>2. pr2[v].store = "persistent" => pr[v].store = "persistent"
        BY <1>9
      <4>3. QED
        BY <4>1, <4>2
    <3>4. \A v \in se : pr2[v].store # "persistent"
      BY <1>2, <1>9, <3>1 DEF Listing
    <3>5. ASSUME "overwritten" \notin anomaly[m], NEW v \in Users
          PROVE  listed[m][v] = IF pr2[v].store = "persistent" \/ v \in se THEN 1 ELSE 0
      <4>1. listed[m][v] = IF pr[v].store = "persistent" \/ v \in settled[m] THEN 1 ELSE 0
        BY <3>1, <3>5 DEF Listing
      <4>2. (pr2[v].store = "persistent" \/ v \in se)
              <=> (pr[v].store = "persistent" \/ v \in settled[m])
        BY <1>1, <1>9
      <4>3. QED
        BY <4>1, <4>2
    <3>6. QED
      BY <3>2, <3>3, <3>4, <3>5 DEF Listing
  <2>3. Staking(mk.total_pool, pr2)
    <3>1. Staking(mk.total_pool, pr)
      BY <1>1 DEF Sound
    <3>2. LiveStakes(pr2) <= mk.total_pool
      BY <1>3, <1>7, <3>1 DEF Staking
    <3>3. \A v \in Users : IF pr2[v].store = "none" THEN pr2[v] = NoPrediction
                           ELSE pr2[v].stake_amount > 0
      BY <1>3, <1>4, <1>5, <3>1 DEF Staking
    <3>4. QED
      BY <3>2, <3>3 DEF Staking
  <2>4. Accounted(mk, pr2, pd, se, dust[m], anomaly[m])
    <3> SUFFICES ASSUME anomaly[m] = {}
                 PROVE  /\ dust[m] >= 0 /\ pd >= 0 /\ (pd = 0 => se = {})
                        /\ pd + LiveStakes(pr2) = mk.total_pool
      BY <1>1, <1>8 DEF Accounted
    <3>1. dust[m] >= 0 /\ paid[m] >= 0 /\ paid[m] + LiveStakes(pr) = mk.total_pool
      BY <1>1, <1>8 DEF Sound, Accounted
    <3>2. QED
      BY <1>2, <1>3, <1>7, <3>1
  <2>5. QED
    BY <2>1, <2>2, <2>3, <2>4 DEF SoundAs
<1>11. PositionsAre(m, mk, pr2, listed[m], pd, se, dust[m], anomaly[m])
  BY <1>1 DEF PositionsAre, TypeOK
<1>12. PoolMoves(m, mk, pd, dust[m]) /\ Keeps(m, mk, listed[m])
  <2>1. escrow \in Int /\ treasury \in Int
    BY <1>1 DEF TypeOK
  <2> DEFINE tp == mk.total_pool
             p == paid[m]
             d == dust[m]
  <2>2. tp \in Int /\ p \in Int /\ d \in Int
    BY <1>2, <1>3
  <2> HIDE DEF tp, p, d
  <2>3. (escrow - s) - escrow = (treasury - treasury) + ((tp - (p + s) + d) - (tp - p + d))
    BY <1>3, <2>1, <2>2
  <2>4. QED
    BY <1>1, <2>3 DEF PoolMoves, Keeps, PoolOf, tp, p, d
<1>13. escrow' \in Nat /\ treasury' \in Nat
  BY <1>1, <1>3 DEF TypeOK
<1>14. QED
  BY <1>2, <1>5, <1>6, <1>10, <1>11, <1>12, <1>13, PositionStep

LEMMA TransferPredictionStep ==
  ASSUME IInv, NEW m \in Markets, NEW from \in Users, NEW to \in Users, NEW shares \in Amounts,
         TransferPrediction(m, from, to, shares)
  PROVE  LocalStep(m)
<1> DEFINE mk == market[m]
           pr == prediction[m]
           li == listed[m]
           s == pr[from].stake_amount
           left == s - shares
           base == IF pr[to].store = "persistent" THEN pr[to].stake_amount ELSE 0
           lost == IF s = shares THEN 1 ELSE 0
           gain == IF pr[to].store = "persistent" THEN 0 ELSE 1
           pf == IF left = 0 THEN NoPrediction ELSE [pr[from] EXCEPT !.stake_amount = left]
           pt == NewPrediction(pr[from].chosen_outcome, base + shares)
           mid == [pr EXCEPT ![from] = pf]
           pr2 == [mid EXCEPT ![to] = pt]
           lmid == [li EXCEPT ![from] = li[from] - lost]
           li2 == [lmid EXCEPT ![to] = li[to] + gain]
           mk2 == [mk EXCEPT !.participant_count = @ + gain - lost]
<1>1. /\ TypeOK /\ Sound(m) /\ RowOK(m) /\ Tradable(m) /\ AcceptsStakes(m)
      /\ from # to /\ shares > 0 /\ pr[from].store = "persistent" /\ shares <= s
      /\ UNCHANGED <<config, commitment, dispute, submission, escrow, treasury, insurance, now,
                     paid, settled, dust, anomaly>>
  BY RowTypes DEF IInv, TransferPrediction, Tradable, HasPosition, funds, history
<1>2. /\ mk \in Market /\ pr \in [Users -> Prediction] /\ li \in [Users -> Int]
      /\ paid[m] \in Int /\ settled[m] \in SUBSET Users /\ dust[m] \in Int
      /\ anomaly[m] \in SUBSET Anomalies
  BY <1>1 DEF RowOK
<1>3. /\ market' = [market EXCEPT ![m] = mk2] /\ prediction' = [prediction EXCEPT ![m] = pr2]
      /\ listed' = [listed EXCEPT ![m] = li2]
  <2>1. prediction' = [prediction EXCEPT ![m] = pr2]
    BY <1>1, <1>2 DEF TransferPrediction, Moved, HasPosition
  <2>2. listed' = [listed EXCEPT ![m] = li2]
    BY <1>1, <1>2 DEF TransferPrediction, HasPosition, TypeOK
  <2>3. market' = [market EXCEPT ![m] = mk2]
    BY <1>1 DEF TransferPrediction, HasPosition, TypeOK
  <2>4. QED
    BY <2>1, <2>2, <2>3
<1>4. ~mk.is_resolved /\ ~mk.is_cancelled /\ settled[m] = {} /\ mk.exists
  BY <1>1, AcceptingMarket
<1>5. Staking(mk.total_pool, pr)
  BY <1>1 DEF Sound
<1>6. /\ s \in Nat /\ pr[to].stake_amount \in Nat /\ shares \in Nat /\ shares > 0
      /\ pr[from] \in Prediction /\ pr[from].chosen_outcome \in Outcomes \cup {NoOutcome}
  <2>1. s \in Nat /\ pr[to].stake_amount \in Nat
    BY <1>2, <1>5, StakeInNat
  <2>2. shares \in Int /\ shares > 0
    BY <1>1
  <2>3. QED
    BY <1>2, <2>1, <2>2, StoreValues
<1>7. /\ left \in Nat /\ base \in Nat /\ base + shares \in Nat /\ base + shares > 0
      /\ lost \in {0, 1} /\ gain \in {0, 1} /\ (left = 0 <=> lost = 1)
  <2> HIDE DEF s
  <2>1. left \in Nat /\ lost \in {0, 1} /\ (left = 0 <=> lost = 1)
    BY <1>1, <1>6
  <2>2. base \in Nat /\ gain \in {0, 1}
    BY <1>6
  <2> HIDE DEF base
  <2>3. QED
    BY <1>6, <2>1, <2>2
<1>8. /\ pf \in Prediction /\ StakeIn(pf) = left
      /\ pf.store = IF left = 0 THEN "none" ELSE "persistent"
      /\ pf.store = "none" => pf = NoPrediction
      /\ pf.store # "none" => pf.stake_amount > 0
  <2>1. CASE left = 0
    BY <2>1, NoneFields
  <2>2. CASE left # 0
    <3> DEFINE q == [pr[from] EXCEPT !.stake_amount = left]
    <3>1. left > 0 /\ left \in Int
      BY <1>7, <2>2
    <3> HIDE DEF left
    <3>2. q \in Prediction /\ q.store = "persistent" /\ q.stake_amount = left
      BY <1>1, <1>6, <3>1 DEF Prediction
    <3>3. pf = q
      BY <2>2
    <3> HIDE DEF q, pf
    <3>4. QED
      BY <2>2, <3>1, <3>2, <3>3 DEF StakeIn
  <2>3. QED
    BY <2>1, <2>2
<1>9. /\ pt \in Prediction /\ StakeIn(pt) = base + shares /\ pt.store = "persistent"
      /\ pt.stake_amount > 0
  <2> HIDE DEF base
  <2>1. QED
    BY <1>6, <1>7 DEF NewPrediction, Prediction, StakeIn
<1>10. /\ StakeIn(pr[from]) = s /\ StakeIn(pr[to]) = base
  BY <1>1 DEF StakeIn
<1>11. /\ mk2 \in Market /\ mk2.participant_count = mk.participant_count + gain - lost
       /\ mk2.total_pool = mk.total_pool /\ mk2.bond = mk.bond /\ mk2.exists = mk.exists
       /\ mk2.end_time = mk.end_time /\ mk2.resolution_time = mk.resolution_time
       /\ mk2.is_resolved = mk.is_resolved /\ mk2.is_cancelled = mk.is_cancelled
       /\ mk2.resolved_outcome = mk.resolved_outcome /\ mk.participant_count \in Int
  <2>1. mk.participant_count \in Int
    BY <1>2, MarketFields
  <2>2. mk.participant_count + gain - lost \in Int
    <3> HIDE DEF gain, lost
    <3>1. QED
      BY <1>7, <2>1
  <2> HIDE DEF gain, lost
  <2>3. QED
    BY <1>2, <2>1, <2>2 DEF Market
<1> HIDE DEF pf, pt, base, left, lost, gain, s, mk2
<1>12. /\ mid \in [Users -> Prediction] /\ mid[from] = pf
       /\ \A v \in Users : v # from => mid[v] = pr[v]
  BY <1>2, <1>8
<1> HIDE DEF mid
<1>13. /\ pr2 \in [Users -> Prediction] /\ pr2[to] = pt /\ pr2[from] = pf
       /\ \A v \in Users : v # to => pr2[v] = mid[v]
       /\ \A v \in Users : v # from /\ v # to => pr2[v] = pr[v]
  BY <1>1, <1>9, <1>12
<1> HIDE DEF pr2
<1>14. LiveStakes(pr2) = LiveStakes(pr)
  <2>1. LiveStakes(mid) = LiveStakes(pr) - StakeIn(pr[from]) + StakeIn(mid[from])
    BY <1>2, <1>12, LiveUpdate
  <2>2. LiveStakes(pr2) = LiveStakes(mid) - StakeIn(mid[to]) + StakeIn(pr2[to])
    BY <1>12, <1>13, LiveUpdate
  <2>3. mid[to] = pr[to] /\ LiveStakes(pr) \in Int
    BY <1>1, <1>2, <1>12, LiveInt
  <2>a. StakeIn(mid[from]) = left /\ StakeIn(mid[to]) = base /\ StakeIn(pr2[to]) = base + shares
    BY <1>8, <1>9, <1>10, <1>12, <1>13, <2>3
  <2>b. LiveStakes(mid) = LiveStakes(pr) - s + left
    BY <1>10, <2>1, <2>a
  <2>4. LiveStakes(pr2) = LiveStakes(pr) - s + left - base + (base + shares)
    BY <1>6, <1>7, <2>2, <2>3, <2>a, <2>b
  <2>5. left = s - shares
    BY DEF left
  <2>6. QED
    BY <1>6, <1>7, <2>3, <2>4, <2>5
<1>15. /\ lmid \in [Users -> Int] /\ lmid[from] = li[from] - lost /\ lmid[to] = li[to]
       /\ \A v \in Users : v # from => lmid[v] = li[v]
       /\ SumFunction(lmid) = SumFunction(li) - li[from] + (li[from] - lost)
       /\ SumFunction(li) \in Int /\ li[from] \in Int /\ li[to] \in Int
  <2>1. li[from] \in Int /\ li[to] \in Int /\ li[from] - lost \in Int
    BY <1>2, <1>7
  <2> DEFINE x == li[from] - lost
  <2> HIDE DEF x
  <2>2. x \in Int
    BY <2>1 DEF x
  <2>3. /\ [li EXCEPT ![from] = x] \in [Users -> Int]
        /\ SumFunction([li EXCEPT ![from] = x]) = SumFunction(li) - li[from] + x
        /\ [li EXCEPT ![from] = x][from] = x
        /\ \A v \in Users : v # from => [li EXCEPT ![from] = x][v] = li[v]
    BY <1>2, <2>2, ListUpdate
  <2>4. QED
    BY <1>1, <1>2, <2>1, <2>3, SumInt DEF x
<1> HIDE DEF lmid
<1>16. /\ li2 \in [Users -> Int] /\ li2[from] = li[from] - lost /\ li2[to] = li[to] + gain
       /\ \A v \in Users : v # from /\ v # to => li2[v] = li[v]
       /\ SumFunction(li2) = SumFunction(li) + gain - lost
  <2>1. li[to] + gain \in Int
    BY <1>7, <1>15
  <2> DEFINE x == li[to] + gain
  <2> HIDE DEF x
  <2>2. x \in Int
    BY <2>1 DEF x
  <2>3. li2 = [lmid EXCEPT ![to] = x] /\ lmid \in [Users -> Int]
    BY <1>15 DEF x
  <2> HIDE DEF li2
  <2>4. /\ li2 \in [Users -> Int] /\ li2[to] = x
        /\ \A v \in Users : v # to => li2[v] = lmid[v]
    BY <2>2, <2>3
  <2>5. SumFunction(li2) = SumFunction(lmid) - li[to] + x
    <3>1. lmid \in [Users -> Int]
      BY <2>3
    <3>2. SumFunction(li2) = SumFunction(lmid) - lmid[to] + li2[to]
      BY <2>4, <3>1, SumUpdate
    <3>3. QED
      BY <1>15, <2>4, <3>2
  <2>6. SumFunction(li2) = SumFunction(li) + gain - lost
    BY <1>7, <1>15, <2>5 DEF x
  <2>7. QED
    BY <1>1, <1>15, <2>4, <2>6 DEF x
<1> HIDE DEF li2
<1>17. Listing(mk2.participant_count, pr2, li2, settled[m], anomaly[m])
  <2>1. Listing(mk.participant_count, pr, li, settled[m], anomaly[m])
    BY <1>1 DEF Sound
  <2>2. mk2.participant_count = SumFunction(li2)
    BY <1>11, <1>16, <2>1 DEF Listing
  <2>3. /\ lost = (IF pf.store = "persistent" THEN 0 ELSE 1)
        /\ gain = IF pr[to].store = "persistent" THEN 0 ELSE 1
    BY <1>7, <1>8 DEF gain
  <2>4. ASSUME NEW v \in Users PROVE li2[v] >= IF pr2[v].store = "persistent" THEN 1 ELSE 0
    <3>1. li[v] >= (IF pr[v].store = "persistent" THEN 1 ELSE 0) /\ li[v] \in Int
      BY <1>2, <2>1 DEF Listing
    <3>2. CASE v = from
      BY <1>1, <1>13, <1>16, <2>3, <3>1, <3>2
    <3>3. CASE v = to
      BY <1>9, <1>13, <1>16, <2>3, <3>1, <3>3
    <3>4. CASE v # from /\ v # to
      BY <1>13, <1>16, <3>1, <3>4
    <3>5. QED
      BY <3>2, <3>3, <3>4
  <2>5. ASSUME "overwritten" \notin anomaly[m], NEW v \in Users
        PROVE  li2[v] = IF pr2[v].store = "persistent" \/ v \in settled[m] THEN 1 ELSE 0
    <3>1. li[v] = IF pr[v].store = "persistent" THEN 1 ELSE 0
      BY <1>4, <2>1, <2>5 DEF Listing
    <3>2. li2[v] = IF pr2[v].store = "persistent" THEN 1 ELSE 0
      <4>2. CASE v = from
        BY <1>1, <1>13, <1>16, <2>3, <3>1, <4>2
      <4>3. CASE v = to
        BY <1>9, <1>13, <1>16, <2>3, <3>1, <4>3
      <4>4. CASE v # from /\ v # to
        BY <1>13, <1>16, <3>1, <4>4
      <4>5. QED
        BY <4>2, <4>3, <4>4
    <3>3. QED
      BY <1>4, <3>2
  <2>6. QED
    BY <1>4, <2>2, <2>4, <2>5 DEF Listing
<1>18. SoundAs(m, mk2, pr2, li2, paid[m], settled[m], dust[m], anomaly[m])
  <2>1. Timely(mk2, dispute[m], settled[m], now)
    BY <1>1, <1>4, <1>11 DEF Sound, Timely
  <2>2. Staking(mk2.total_pool, pr2)
    <3>1. \A v \in Users : IF pr2[v].store = "none" THEN pr2[v] = NoPrediction
                           ELSE pr2[v].stake_amount > 0
      BY <1>5, <1>8, <1>9, <1>13 DEF Staking
    <3>2. QED
      BY <1>5, <1>11, <1>14, <3>1 DEF Staking
  <2>3. Accounted(mk2, pr2, paid[m], settled[m], dust[m], anomaly[m])
    <3>1. Accounted(mk, pr, paid[m], settled[m], dust[m], anomaly[m])
      BY <1>1 DEF Sound
    <3>2. (\A v \in Users : pr[v].store # "temporary") => \A v \in Users : pr2[v].store # "temporary"
      BY <1>8, <1>9, <1>13
    <3>3. QED
      BY <1>4, <1>11, <1>14, <3>1, <3>2 DEF Accounted
  <2>4. QED
    BY <1>17, <2>1, <2>2, <2>3 DEF SoundAs
<1>19. PositionsAre(m, mk2, pr2, li2, paid[m], settled[m], dust[m], anomaly[m])
  BY <1>1, <1>3 DEF PositionsAre, TypeOK
<1>20. PoolMoves(m, mk2, paid[m], dust[m]) /\ Keeps(m, mk2, li2)
  <2>1. PoolOf(m) \in Int /\ escrow \in Int /\ treasury \in Int
    BY <1>1, BookInt DEF TypeOK
  <2>2. escrow - escrow = (treasury - treasury) + (PoolOf(m) - PoolOf(m))
    BY <2>1
  <2>3. QED
    BY <1>1, <1>4, <1>11, <2>2 DEF PoolMoves, Keeps, PoolOf
<1>21. escrow' \in Nat /\ treasury' \in Nat
  BY <1>1 DEF TypeOK
<1>22. QED
  BY <1>2, <1>11, <1>13, <1>16, <1>18, <1>19, <1>20, <1>21, PositionStep

-----------------------------------------------------------------------------
(* withdraw_position: the early-exit fee is shared among the others. *)

\* The stake of v after u left, and what v got.
StakeAfter(pr, li, u, fee, others, v) ==
  IF v # u /\ pr[v].store = "persistent" /\ fee > 0 /\ others > 0
  THEN Credited(pr[v].stake_amount, li[v], fee, others)
  ELSE pr[v].stake_amount
Extra(pr, li, u, fee, others) ==
  [v \in Users |-> StakeAfter(pr, li, u, fee, others, v) - pr[v].stake_amount]

LEMMA ExtraNat ==
  ASSUME NEW pr \in [Users -> Prediction], NEW li \in [Users -> Int], NEW total_pool,
         Staking(total_pool, pr),
         \A v \in Users : li[v] >= IF pr[v].store = "persistent" THEN 1 ELSE 0,
         NEW u \in Users, NEW fee \in Nat, NEW others \in Int, NEW v \in Users
  PROVE  /\ StakeAfter(pr, li, u, fee, others, v) \in Nat
         /\ StakeAfter(pr, li, u, fee, others, v) >= pr[v].stake_amount
         /\ Extra(pr, li, u, fee, others)[v] \in Nat
         /\ StakeAfter(pr, li, u, fee, others, v)
              = pr[v].stake_amount + Extra(pr, li, u, fee, others)[v]
         /\ v = u \/ pr[v].store # "persistent" => Extra(pr, li, u, fee, others)[v] = 0
<1> DEFINE s == pr[v].stake_amount
           t == StakeAfter(pr, li, u, fee, others, v)
           x == Extra(pr, li, u, fee, others)[v]
<1>1. s \in Nat
  BY StakeInNat
<1>2. x = t - s
  BY DEF Extra
<1>3. t \in Nat /\ t >= s /\ (v = u \/ pr[v].store # "persistent" => t = s)
  <2>1. CASE v # u /\ pr[v].store = "persistent" /\ fee > 0 /\ others > 0
    <3>1. li[v] \in Nat /\ others \in Nat \ {0}
      BY <2>1
    <3>2. t = Credited(s, li[v], fee, others)
      BY <2>1 DEF StakeAfter
    <3> HIDE DEF s
    <3>3. t \in Nat /\ t >= s
      BY <1>1, <3>1, <3>2, CreditedGrows
    <3>4. QED
      BY <2>1, <3>3
  <2>2. CASE ~(v # u /\ pr[v].store = "persistent" /\ fee > 0 /\ others > 0)
    <3>1. t = s
      BY <2>2 DEF StakeAfter
    <3>2. QED
      BY <1>1, <3>1
  <2>3. QED
    BY <2>1, <2>2
<1> HIDE DEF s, t, x
<1>4. /\ x \in Nat /\ t = s + x
      /\ v = u \/ pr[v].store # "persistent" => x = 0
  BY <1>1, <1>2, <1>3
<1>5. QED
  BY <1>3, <1>4 DEF s, t, x

\* A single entry gets its share of the fee, rounded down.
LEMMA ShareBound ==
  ASSUME NEW s \in Nat, NEW fee \in Nat, NEW others \in Nat \ {0}, NEW x \in Nat,
         Credited(s, 1, fee, others) = s + x
  PROVE  others * x <= fee * s
<1> DEFINE q == TruncDiv(fee * s, others)
<1>1. fee * s \in Nat
  OBVIOUS
<1>2. others * q <= fee * s /\ q \in Nat
  BY <1>1, TruncDivNat
<1>3. ASSUME NEW n \in Nat, n = 1 PROVE Credited(s, n, fee, others) = s + q
  BY <1>3, CreditedGrows
<1>4. s + x = s + q
  BY <1>3
<1> HIDE DEF q
<1>5. QED
  BY <1>2, <1>4

\* With one list entry for every holder the others never get more than the fee.
LEMMA ExtraBound ==
  ASSUME NEW pr \in [Users -> Prediction], NEW li \in [Users -> Int], NEW total_pool,
         Staking(total_pool, pr),
         \A v \in Users : li[v] = IF pr[v].store = "persistent" THEN 1 ELSE 0,
         NEW u \in Users, NEW fee \in Nat, NEW others \in Int,
         others = LiveStakes(pr) - StakeIn(pr[u])
  PROVE  SumFunction(Extra(pr, li, u, fee, others)) <= fee
<1> DEFINE X == Extra(pr, li, u, fee, others)
           L == [v \in Users |-> StakeIn(pr[v])]
           R == [v \in Users |-> IF v = u THEN 0 ELSE StakeIn(pr[v])]
<1>0. \A v \in Users : li[v] >= IF pr[v].store = "persistent" THEN 1 ELSE 0
  OBVIOUS
<1>1. ASSUME NEW v \in Users
      PROVE  /\ X[v] \in Nat /\ StakeAfter(pr, li, u, fee, others, v) = pr[v].stake_amount + X[v]
             /\ v = u \/ pr[v].store # "persistent" => X[v] = 0
  BY <1>0, ExtraNat
<1>2. X \in [Users -> Int]
  <2>1. X = [v \in Users |-> X[v]]
    BY DEF Extra
  <2> HIDE DEF X
  <2>2. QED
    BY <1>1, <2>1
<1>3. ASSUME NEW v \in Users PROVE StakeIn(pr[v]) \in Nat /\ pr[v].stake_amount \in Nat
  BY StakeInNat
<1>4. /\ L \in [Users -> Int] /\ R \in [Users -> Int] /\ R[u] = 0 /\ L[u] = StakeIn(pr[u])
      /\ \A v \in Users : v # u => R[v] = L[v]
      /\ \A v \in Users : R[v] = IF v = u THEN 0 ELSE StakeIn(pr[v])
  BY <1>3
<1>5. LiveStakes(pr) = SumFunction(L)
  BY DEF LiveStakes
<1> HIDE DEF X, L, R
<1>6. SumFunction(R) = others
  <2>1. SumFunction(R) = SumFunction(L) - L[u] + R[u]
    BY <1>4, SumUpdate
  <2>2. SumFunction(L) \in Int /\ L[u] \in Int
    BY <1>4, SumInt
  <2>3. QED
    BY <1>4, <1>5, <2>1, <2>2
<1>7. SumFunction(X) \in Int
  BY <1>2, SumInt
<1>8. CASE fee > 0 /\ others > 0
  <2> DEFINE oX == [v \in Users |-> others * X[v]]
             fR == [v \in Users |-> fee * R[v]]
  <2>1. \A v \in Users : X[v] \in Int /\ R[v] \in Int
    BY <1>2, <1>4
  <2>2. \A v \in Users : others * X[v] \in Int /\ fee * R[v] \in Int
    BY <2>1
  <2>3. oX \in [Users -> Int] /\ fR \in [Users -> Int]
    BY <2>2
  <2>4. \A v \in Users : others * X[v] <= fee * R[v]
    <3> SUFFICES ASSUME NEW v \in Users PROVE others * X[v] <= fee * R[v]
      OBVIOUS
    <3> DEFINE s == pr[v].stake_amount
    <3>1. CASE v # u /\ pr[v].store = "persistent"
      <4>1. li[v] = 1 /\ StakeIn(pr[v]) = s
        BY <3>1 DEF StakeIn
      <4>2. StakeAfter(pr, li, u, fee, others, v) = Credited(s, 1, fee, others)
        BY <1>8, <3>1, <4>1 DEF StakeAfter
      <4>3. s \in Nat /\ X[v] \in Nat /\ others \in Nat \ {0}
        BY <1>1, <1>3, <1>8
      <4>4. StakeAfter(pr, li, u, fee, others, v) = s + X[v]
        BY <1>1
      <4>5. R[v] = s
        BY <1>4, <3>1, <4>1
      <4> DEFINE x == X[v]
      <4>6. Credited(s, 1, fee, others) = s + x /\ x \in Nat
        BY <4>2, <4>3, <4>4
      <4> HIDE DEF s, x
      <4>7. others * x <= fee * s
        BY <4>3, <4>6, ShareBound
      <4>8. QED
        BY <4>5, <4>7 DEF x
    <3>2. CASE ~(v # u /\ pr[v].store = "persistent")
      <4>1. X[v] = 0 /\ R[v] = 0
        BY <1>1, <1>4, <3>2 DEF StakeIn
      <4>2. QED
        BY <4>1
    <3>3. QED
      BY <3>1, <3>2
  <2>5. /\ \A v \in Users : oX[v] <= fR[v]
        /\ IsLinear(Users, oX, others, X, 0, X) /\ IsLinear(Users, fR, fee, R, 0, R)
    <3>1. \A v \in Users : oX[v] <= fR[v]
      BY <2>4
    <3>2. IsLinear(Users, oX, others, X, 0, X)
      BY <2>1, <2>2 DEF IsLinear
    <3>3. IsLinear(Users, fR, fee, R, 0, R)
      BY <2>1, <2>2 DEF IsLinear
    <3>4. QED
      BY <3>1, <3>2, <3>3
  <2> HIDE DEF oX, fR
  <2>6. SumFunction(oX) <= SumFunction(fR)
    BY <2>3, <2>5, SumMonotone
  <2>7. SumFunction(oX) = others * SumFunction(X) + 0 * SumFunction(X)
    BY <1>2, <2>3, <2>5, SumLinear
  <2>8. SumFunction(fR) = fee * SumFunction(R) + 0 * SumFunction(R)
    BY <1>4, <2>3, <2>5, SumLinear
  <2> DEFINE x == SumFunction(X)
  <2>9. others * x <= fee * others
    BY <1>6, <1>7, <2>6, <2>7, <2>8
  <2> HIDE DEF x
  <2>10. x \in Int /\ others > 0
    BY <1>7, <1>8 DEF x
  <2>11. x <= fee
    <3> SUFFICES ASSUME x >= fee + 1 PROVE FALSE
      BY <2>10
    <3>1. others * x >= others * (fee + 1)
      BY <2>10
    <3>2. others * (fee + 1) = fee * others + others
      OBVIOUS
    <3>3. QED
      BY <2>9, <2>10, <3>1, <3>2
  <2>12. QED
    BY <2>11 DEF x, X
<1>9. CASE ~(fee > 0 /\ others > 0)
  <2>1. ASSUME NEW v \in Users PROVE X[v] = 0
    <3>1. StakeAfter(pr, li, u, fee, others, v) = pr[v].stake_amount
      BY <1>9 DEF StakeAfter
    <3>2. QED
      BY <1>1, <1>3, <3>1
  <2>2. SumFunction(X) = 0
    BY <1>2, <2>1, SumZero
  <2>3. QED
    BY <2>2 DEF X
<1>10. QED
  BY <1>8, <1>9

LEMMA WithdrawPositionStep ==
  ASSUME IInv, NEW m \in Markets, NEW u \in Users, NEW amount \in Amounts,
         WithdrawPosition(m, u, amount)
  PROVE  LocalStep(m)
<1> DEFINE mk == market[m]
           pr == prediction[m]
           li == listed[m]
           mine == pr[u].stake_amount
           fee == Bps(amount, config.early_exit_fee_bps, BPS)
           remaining == mine - amount
           others == mk.total_pool - amount - remaining
           X == Extra(pr, li, u, fee, others)
           After(v) == StakeAfter(pr, li, u, fee, others, v)
           credited == SumFunction(X)
           pu == IF remaining = 0 THEN NoPrediction ELSE [pr[u] EXCEPT !.stake_amount = remaining]
           pr2 == [v \in Users |-> IF v # u THEN [pr[v] EXCEPT !.stake_amount = After(v)] ELSE pu]
           lost == IF remaining = 0 THEN 1 ELSE 0
           li2 == [li EXCEPT ![u] = li[u] - lost]
           tp == mk.total_pool - amount + credited
           mk2 == [mk EXCEPT !.total_pool = tp, !.participant_count = @ - lost]
           du == dust[m] + fee - credited
<1>1. /\ TypeOK /\ Sound(m) /\ RowOK(m) /\ Tradable(m) /\ AcceptsStakes(m)
      /\ amount > 0 /\ pr[u].store = "persistent" /\ amount <= mine /\ amount - fee <= escrow
      /\ escrow' = escrow - (amount - fee)
      /\ UNCHANGED <<config, commitment, dispute, submission, treasury, insurance, now,
                     paid, settled, anomaly>>
  BY RowTypes DEF IInv, WithdrawPosition, Tradable, HasPosition
<1>2. /\ mk \in Market /\ pr \in [Users -> Prediction] /\ li \in [Users -> Int]
      /\ paid[m] \in Int /\ settled[m] \in SUBSET Users /\ dust[m] \in Int
      /\ anomaly[m] \in SUBSET Anomalies
  BY <1>1 DEF RowOK
<1>3. prediction' = [prediction EXCEPT ![m] = pr2]
  BY DEF WithdrawPosition, HasPosition, StakeAfter
<1>4. dust' = [dust EXCEPT ![m] = du]
  BY <1>1 DEF WithdrawPosition, HasPosition, StakeAfter, Extra, TypeOK
<1>5. /\ listed' = [listed EXCEPT ![m][u] = IF remaining = 0 THEN @ - 1 ELSE @]
      /\ market' = [market EXCEPT ![m].total_pool = PoolAfterExit(@, amount, credited),
                                  ![m].participant_count = IF remaining = 0 THEN @ - 1 ELSE @]
  BY DEF WithdrawPosition, HasPosition, StakeAfter, Extra
<1>6. Staking(mk.total_pool, pr) /\ Listing(mk.participant_count, pr, li, settled[m], anomaly[m])
  BY <1>1 DEF Sound
<1>7. ~mk.is_resolved /\ ~mk.is_cancelled /\ settled[m] = {} /\ mk.exists
  BY <1>1, AcceptingMarket
<1>8. /\ mine \in Nat /\ amount \in Nat /\ amount > 0 /\ pr[u] \in Prediction
      /\ li[u] \in Int /\ mk.total_pool \in Int /\ mk.participant_count \in Int
  <2>1. amount \in Int /\ amount > 0
    BY <1>1
  <2>2. mine \in Nat /\ pr[u] \in Prediction
    BY <1>2, <1>6, StakeInNat
  <2>3. mk.total_pool \in Int /\ mk.participant_count \in Int
    BY <1>2, MarketFields
  <2>4. QED
    BY <1>2, <2>1, <2>2, <2>3
<1>9. fee \in 0..amount
  <2>1. config.early_exit_fee_bps \in 0..BPS
    BY <1>1 DEF TypeOK, Config
  <2>2. QED
    BY <1>8, <2>1, BpsBounds
<1> HIDE DEF fee, mine
<1>10. remaining \in Nat /\ lost \in {0, 1} /\ (remaining = 0 <=> lost = 1)
  BY <1>1, <1>8
<1>11. others \in Int /\ others = mk.total_pool - mine
  BY <1>8, <1>10
<1> HIDE DEF others, remaining
<1>12. \A v \in Users : li[v] >= IF pr[v].store = "persistent" THEN 1 ELSE 0
  BY <1>6 DEF Listing
<1>13. ASSUME NEW v \in Users
       PROVE  /\ After(v) \in Nat /\ After(v) >= pr[v].stake_amount /\ X[v] \in Nat
              /\ After(v) = pr[v].stake_amount + X[v] /\ pr[v].stake_amount \in Nat
              /\ v = u \/ pr[v].store # "persistent" => X[v] = 0
  <2>1. fee \in Nat
    BY <1>9
  <2>2. QED
    BY <1>2, <1>6, <1>11, <1>12, <2>1, ExtraNat, StakeInNat
<1>14. X \in [Users -> Int] /\ X \in [Users -> Nat] /\ credited \in Nat
  <2>1. X = [v \in Users |-> X[v]]
    BY DEF Extra
  <2> HIDE DEF X
  <2>2. X \in [Users -> Nat]
    BY <1>13, <2>1
  <2>3. QED
    BY <2>2, SumNat
<1> HIDE DEF X, After, credited
<1>15. tp \in Int /\ du \in Int /\ mk.participant_count - lost \in Int /\ li[u] - lost \in Int
  <2>1. tp \in Int
    BY <1>8, <1>14
  <2>2. du \in Int
    BY <1>2, <1>9, <1>14
  <2> HIDE DEF lost
  <2>3. QED
    BY <1>8, <1>10, <2>1, <2>2
<1>16. market' = [market EXCEPT ![m] = mk2] /\ listed' = [listed EXCEPT ![m] = li2]
  <2>1. /\ mk.participant_count - lost = IF remaining = 0 THEN mk.participant_count - 1
                                        ELSE mk.participant_count
        /\ li[u] - lost = IF remaining = 0 THEN li[u] - 1 ELSE li[u]
    BY <1>8
  <2> HIDE DEF lost
  <2>2. market' = [market EXCEPT ![m] = mk2]
    BY <1>1, <1>5, <2>1 DEF PoolAfterExit, TypeOK
  <2>3. listed' = [listed EXCEPT ![m] = li2]
    BY <1>1, <1>5, <2>1 DEF TypeOK
  <2>4. QED
    BY <2>2, <2>3
<1> HIDE DEF lost, tp
<1>17. /\ mk2 \in Market /\ mk2.total_pool = tp
       /\ mk2.participant_count = mk.participant_count - lost
       /\ mk2.bond = mk.bond /\ mk2.exists = mk.exists
       /\ mk2.end_time = mk.end_time /\ mk2.resolution_time = mk.resolution_time
       /\ mk2.is_resolved = mk.is_resolved /\ mk2.is_cancelled = mk.is_cancelled
       /\ mk2.resolved_outcome = mk.resolved_outcome
  BY <1>2, <1>15 DEF Market
<1>18. /\ li2 \in [Users -> Int] /\ li2[u] = li[u] - lost
       /\ \A v \in Users : v # u => li2[v] = li[v]
       /\ SumFunction(li2) = SumFunction(li) - lost
  <2> DEFINE x == li[u] - lost
  <2>1. x \in Int
    BY <1>15
  <2> HIDE DEF x
  <2>2. li2 = [li EXCEPT ![u] = x]
    BY DEF x
  <2> HIDE DEF li2
  <2>3. li2 \in [Users -> Int] /\ li2[u] = x /\ \A v \in Users : v # u => li2[v] = li[v]
    BY <1>2, <2>1, <2>2
  <2>4. SumFunction(li2) = SumFunction(li) - li[u] + li2[u]
    BY <1>2, <2>3, SumUpdate
  <2>5. SumFunction(li) \in Int
    BY <1>2, SumInt
  <2>6. SumFunction(li2) = SumFunction(li) - lost
    BY <1>8, <1>10, <2>3, <2>4, <2>5 DEF x
  <2>7. QED
    BY <2>3, <2>6 DEF x
<1>19. /\ pu \in Prediction /\ StakeIn(pu) = remaining
       /\ pu.store = IF remaining = 0 THEN "none" ELSE "persistent"
       /\ pu.store = "none" => pu = NoPrediction
       /\ pu.store # "none" => pu.stake_amount > 0
  <2>1. CASE remaining = 0
    BY <2>1, NoneFields
  <2>2. CASE remaining # 0
    <3> DEFINE q == [pr[u] EXCEPT !.stake_amount = remaining]
    <3>1. remaining > 0 /\ remaining \in Int
      BY <1>10, <2>2
    <3>2. q \in Prediction /\ q.store = "persistent" /\ q.stake_amount = remaining
      BY <1>1, <1>8, <3>1 DEF Prediction
    <3>3. pu = q
      BY <2>2
    <3> HIDE DEF q, pu
    <3>4. QED
      BY <2>2, <3>1, <3>2, <3>3 DEF StakeIn
  <2>3. QED
    BY <2>1, <2>2
<1> HIDE DEF pu, li2, mk2
<1>20. ASSUME NEW v \in Users, v # u
       PROVE  /\ pr2[v] \in Prediction /\ pr2[v].store = pr[v].store
              /\ StakeIn(pr2[v]) = StakeIn(pr[v]) + X[v]
              /\ pr2[v].store = "none" => pr2[v] = NoPrediction
              /\ pr2[v].store # "none" => pr2[v].stake_amount > 0
  <2> DEFINE p == pr[v]
             a == After(v)
             q == [p EXCEPT !.stake_amount = a]
  <2>1. pr2[v] = q
    BY <1>20
  <2>2. /\ p \in Prediction /\ a \in Int /\ p.stake_amount \in Nat /\ a = p.stake_amount + X[v]
        /\ X[v] \in Nat /\ (p.store # "persistent" => X[v] = 0)
        /\ IF p.store = "none" THEN p = NoPrediction ELSE p.stake_amount > 0
    <3>1. p \in Prediction /\ p.stake_amount \in Nat /\ (p.store # "persistent" => X[v] = 0)
      BY <1>2, <1>13
    <3>2. a \in Nat /\ a = p.stake_amount + X[v] /\ X[v] \in Nat
      BY <1>13
    <3>3. IF p.store = "none" THEN p = NoPrediction ELSE p.stake_amount > 0
      BY <1>6 DEF Staking
    <3> HIDE DEF a, p
    <3>4. QED
      BY <3>1, <3>2, <3>3
  <2> HIDE DEF a, p
  <2>3. q \in Prediction /\ q.store = p.store /\ q.stake_amount = a
    BY <2>2 DEF Prediction
  <2>4. q.store = "none" => q = NoPrediction
    <3> SUFFICES ASSUME q.store = "none" PROVE q = NoPrediction
      OBVIOUS
    <3>1. p = NoPrediction /\ X[v] = 0
      BY <2>2, <2>3
    <3>2. a = 0
      BY <2>2, <3>1, NoneFields
    <3>3. QED
      BY <3>1, <3>2 DEF NoPrediction
  <2>5. q.store # "none" => q.stake_amount > 0
    BY <2>2, <2>3
  <2>6. StakeIn(q) = StakeIn(p) + X[v]
    <3>1. CASE p.store = "persistent"
      BY <2>2, <2>3, <3>1 DEF StakeIn
    <3>2. CASE p.store # "persistent"
      BY <2>2, <2>3, <3>2 DEF StakeIn
    <3>3. QED
      BY <3>1, <3>2
  <2> HIDE DEF q
  <2>7. QED
    BY <2>1, <2>3, <2>4, <2>5, <2>6 DEF p
<1>21. pr2 \in [Users -> Prediction] /\ pr2[u] = pu
  <2>1. pr2[u] = pu
    OBVIOUS
  <2>2. pr2 = [v \in Users |-> pr2[v]]
    OBVIOUS
  <2> HIDE DEF pr2
  <2>3. \A v \in Users : pr2[v] \in Prediction
    BY <1>19, <1>20, <2>1
  <2>4. QED
    BY <2>1, <2>2, <2>3
<1> HIDE DEF pr2
<1>22. StakeIn(pr[u]) = mine /\ LiveStakes(pr) \in Int
  BY <1>1, <1>2, LiveInt DEF StakeIn, mine
<1>23. LiveStakes(pr2) = LiveStakes(pr) + credited - amount
  <2> DEFINE L == [v \in Users |-> StakeIn(pr[v])]
             M == [v \in Users |-> StakeIn(pr[v]) + X[v]]
             L2 == [v \in Users |-> StakeIn(pr2[v])]
  <2>1. \A v \in Users : StakeIn(pr[v]) \in Int /\ X[v] \in Int /\ StakeIn(pr2[v]) \in Int
    BY <1>2, <1>14, <1>21, StakeInInt
  <2>2. L \in [Users -> Int] /\ M \in [Users -> Int] /\ L2 \in [Users -> Int]
    BY <2>1
  <2>3. IsLinear(Users, M, 1, L, 1, X)
    BY <2>1 DEF IsLinear
  <2>4. M[u] = mine /\ L2[u] = remaining /\ \A v \in Users : v # u => L2[v] = M[v]
    <3>1. X[u] = 0
      BY <1>13
    <3>2. M[u] = mine
      BY <1>8, <1>22, <3>1
    <3>3. QED
      BY <1>19, <1>20, <1>21, <3>2
  <2>5. LiveStakes(pr) = SumFunction(L) /\ LiveStakes(pr2) = SumFunction(L2)
    BY DEF LiveStakes
  <2> HIDE DEF L, M, L2
  <2>6. SumFunction(M) = 1 * SumFunction(L) + 1 * SumFunction(X)
    BY <1>14, <2>2, <2>3, SumLinear
  <2>7. SumFunction(L2) = SumFunction(M) - M[u] + L2[u]
    BY <2>2, <2>4, SumUpdate
  <2>8. SumFunction(X) = credited /\ remaining = mine - amount
    BY DEF credited, remaining
  <2>9. QED
    BY <1>8, <1>10, <1>14, <1>22, <2>4, <2>5, <2>6, <2>7, <2>8
<1>24. Listing(mk2.participant_count, pr2, li2, settled[m], anomaly[m])
  <2>1. mk2.participant_count = SumFunction(li2)
    BY <1>6, <1>17, <1>18 DEF Listing
  <2>2. lost = IF pu.store = "persistent" THEN 0 ELSE 1
    BY <1>10, <1>19
  <2>3. ASSUME NEW v \in Users PROVE li2[v] >= IF pr2[v].store = "persistent" THEN 1 ELSE 0
    <3>1. li[v] >= (IF pr[v].store = "persistent" THEN 1 ELSE 0) /\ li[v] \in Int
      BY <1>2, <1>12
    <3>2. CASE v = u
      BY <1>1, <1>18, <1>21, <2>2, <3>1, <3>2
    <3>3. CASE v # u
      BY <1>18, <1>20, <3>1, <3>3
    <3>4. QED
      BY <3>2, <3>3
  <2>4. ASSUME "overwritten" \notin anomaly[m], NEW v \in Users
        PROVE  li2[v] = IF pr2[v].store = "persistent" \/ v \in settled[m] THEN 1 ELSE 0
    <3>1. li[v] = IF pr[v].store = "persistent" THEN 1 ELSE 0
      BY <1>6, <1>7, <2>4 DEF Listing
    <3>2. li2[v] = IF pr2[v].store = "persistent" THEN 1 ELSE 0
      <4>2. CASE v = u
        BY <1>1, <1>18, <1>21, <2>2, <3>1, <4>2
      <4>3. CASE v # u
        BY <1>18, <1>20, <3>1, <4>3
      <4>4. QED
        BY <4>2, <4>3
    <3>3. QED
      BY <1>7, <3>2
  <2>5. QED
    BY <1>7, <2>1, <2>3, <2>4 DEF Listing
<1>25. Staking(mk2.total_pool, pr2)
  <2>1. \A v \in Users : IF pr2[v].store = "none" THEN pr2[v] = NoPrediction
                         ELSE pr2[v].stake_amount > 0
    BY <1>19, <1>20, <1>21
  <2>2. LiveStakes(pr2) <= tp
    <3>1. LiveStakes(pr) <= mk.total_pool
      BY <1>6 DEF Staking
    <3>2. QED
      BY <1>8, <1>14, <1>22, <1>23, <3>1 DEF tp
  <2>3. QED
    BY <1>17, <2>1, <2>2 DEF Staking
<1>26. Accounted(mk2, pr2, paid[m], settled[m], du, anomaly[m])
  <2> SUFFICES ASSUME anomaly[m] = {}
               PROVE  /\ du >= 0 /\ paid[m] >= 0 /\ (paid[m] = 0 => settled[m] = {})
                      /\ paid[m] + LiveStakes(pr2) = mk2.total_pool
                      /\ paid[m] = 0 /\ \A v \in Users : pr2[v].store # "temporary"
    BY <1>7, <1>17 DEF Accounted
  <2>1. /\ dust[m] >= 0 /\ paid[m] = 0 /\ paid[m] + LiveStakes(pr) = mk.total_pool
        /\ \A v \in Users : pr[v].store # "temporary"
    BY <1>1, <1>7 DEF Sound, Accounted
  <2>2. \A v \in Users : pr2[v].store # "temporary"
    BY <1>19, <1>20, <1>21, <2>1
  <2>3. paid[m] + LiveStakes(pr2) = mk2.total_pool
    <3>1. LiveStakes(pr) = mk.total_pool
      BY <1>8, <1>22, <2>1
    <3>2. LiveStakes(pr2) = tp
      BY <1>8, <1>14, <1>23, <3>1 DEF tp
    <3>3. QED
      BY <1>15, <1>17, <2>1, <3>2
  <2>4. credited <= fee
    <3>1. \A v \in Users : li[v] = IF pr[v].store = "persistent" THEN 1 ELSE 0
      BY <1>6, <1>7 DEF Listing
    <3>2. others = LiveStakes(pr) - StakeIn(pr[u])
      BY <1>8, <1>11, <1>22, <2>1
    <3>3. fee \in Nat
      BY <1>9
    <3>4. QED
      BY <1>2, <1>6, <1>11, <3>1, <3>2, <3>3, ExtraBound DEF credited, X
  <2>5. du >= 0
    BY <1>2, <1>9, <1>14, <2>1, <2>4
  <2>6. QED
    BY <1>7, <2>1, <2>2, <2>3, <2>5
<1>27. SoundAs(m, mk2, pr2, li2, paid[m], settled[m], du, anomaly[m])
  <2>1. Timely(mk2, dispute[m], settled[m], now)
    BY <1>1, <1>7, <1>17 DEF Sound, Timely
  <2>2. QED
    BY <1>24, <1>25, <1>26, <2>1 DEF SoundAs
<1>28. PositionsAre(m, mk2, pr2, li2, paid[m], settled[m], du, anomaly[m])
  BY <1>1, <1>3, <1>4, <1>16 DEF PositionsAre, TypeOK
<1>29. PoolMoves(m, mk2, paid[m], du) /\ Keeps(m, mk2, li2)
  <2> DEFINE t0 == mk.total_pool
             p == paid[m]
             d == dust[m]
  <2>1. escrow \in Int /\ treasury \in Int /\ t0 \in Int /\ p \in Int /\ d \in Int
    BY <1>1, <1>2, <1>8 DEF TypeOK
  <2>2. du = d + fee - credited /\ tp = t0 - amount + credited
    BY DEF tp
  <2> HIDE DEF t0, p, d, du
  <2>3. (escrow - (amount - fee)) - escrow
          = (treasury - treasury) + ((tp - p + du) - (t0 - p + d))
    BY <1>8, <1>9, <1>14, <2>1, <2>2
  <2>4. QED
    BY <1>1, <1>7, <1>17, <2>3 DEF PoolMoves, Keeps, PoolOf, t0, p, d
<1>30. escrow' \in Nat /\ treasury' \in Nat
  <2>1. escrow \in Nat /\ treasury \in Nat
    BY <1>1 DEF TypeOK
  <2>2. QED
    BY <1>1, <1>8, <1>9, <2>1
<1>31. mk2.bond = market[m].bond /\ anomaly[m] \subseteq anomaly[m]
  BY <1>17
<1> HIDE DEF du
<1>32. QED
  BY <1>2, <1>15, <1>17, <1>18, <1>21, <1>27, <1>28, <1>29, <1>30, <1>31, PositionStep

-----------------------------------------------------------------------------
(* prediction.rs: payouts. *)

LEMMA TruncDivLower ==
  ASSUME NEW a \in Int, NEW b \in Nat \ {0}, NEW s \in Nat, a >= -(s * b)
  PROVE  TruncDiv(a, b) \in Int /\ TruncDiv(a, b) >= -s /\ (a >= 0 => TruncDiv(a, b) >= 0)
<1>1. CASE a >= 0
  BY <1>1, TruncDivNat
<1>2. CASE a < 0
  <2> DEFINE q == (-a) \div b
  <2>1. -a \in Nat
    BY <1>2
  <2>2. q \in Nat /\ b * q <= -a
    BY <2>1, DivNat
  <2>3. TruncDiv(a, b) = -q
    BY <1>2 DEF TruncDiv
  <2> HIDE DEF q
  <2>4. b * q <= b * s
    BY <2>2
  <2>5. q <= s
    BY <2>2, <2>4
  <2>6. QED
    BY <1>2, <2>2, <2>3, <2>5
<1>3. QED
  BY <1>1, <1>2

\* A winner is never owed less than nothing, and at least the stake when the
\* winning stakes are part of the pool.
LEMMA GrossNat ==
  ASSUME NEW stake \in Nat, NEW wp \in Nat \ {0}, NEW tp \in Nat
  PROVE  Gross(stake, wp, tp) \in Nat /\ (wp <= tp => Gross(stake, wp, tp) >= stake)
<1> DEFINE a == stake * (tp - wp)
           q == TruncDiv(a, wp)
<1>1. a \in Int /\ a = stake * tp - stake * wp /\ stake * tp \in Nat /\ stake * wp \in Nat
  OBVIOUS
<1>2. a >= -(stake * wp)
  <2> HIDE DEF a
  <2>1. QED
    BY <1>1
<1>3. wp <= tp => a >= 0
  OBVIOUS
<1> HIDE DEF a
<1>4. q \in Int /\ q >= -stake /\ (a >= 0 => q >= 0)
  BY <1>1, <1>2, TruncDivLower
<1>5. Gross(stake, wp, tp) = stake + q
  BY DEF Gross, WinnerShare, a
<1> HIDE DEF q
<1>6. QED
  BY <1>3, <1>4, <1>5

\* Fees come out of the gross amount; a creator's and a protocol's fee that
\* together exceed it are the overcharge.
LEMMA FeeSplit ==
  ASSUME TypeOK, NEW m \in Markets, NEW gross \in Nat
  PROVE  /\ ProtocolFee(gross) \in Nat /\ Outflow(m, gross) \in Nat
         /\ ~(NetPayout(m, gross) < 0) => Outflow(m, gross) + ProtocolFee(gross) = gross
<1>1. config.protocol_fee_bps \in 0..BPS
  BY DEF TypeOK, Config
<1>2. market[m].creator_fee_bps \in 0..BPS
  <2>1. market[m] \in Market
    BY DEF TypeOK
  <2>2. market[m].creator_fee_bps \in 0..MAX_CREATOR_FEE_BPS
    BY <2>1, MarketFields
  <2>3. QED
    BY <2>2
<1> DEFINE p == ProtocolFee(gross)
           c == CreatorFee(m, gross)
           n == NetPayout(m, gross)
<1>3. p \in 0..gross /\ c \in 0..gross
  BY <1>1, <1>2, BpsBounds DEF ProtocolFee, CreatorFee
<1>4. n = gross - p - c
  BY DEF NetPayout
<1>5. Outflow(m, gross) = (IF n > 0 THEN n ELSE 0) + c
  BY DEF Outflow
<1> HIDE DEF p, c, n
<1>6. n \in Int
  BY <1>3, <1>4
<1>7. (IF n > 0 THEN n ELSE 0) \in Nat
  BY <1>6
<1>8. Outflow(m, gross) \in Nat
  BY <1>3, <1>5, <1>7
<1>9. ~(n < 0) => Outflow(m, gross) + p = gross
  BY <1>3, <1>4, <1>5, <1>6
<1>10. QED
  BY <1>3, <1>8, <1>9 DEF p, n

LEMMA WinningInt ==
  ASSUME NEW pr \in [Users -> Prediction], NEW total_pool, Staking(total_pool, pr), NEW o
  PROVE  /\ WinningStakes(o, pr) \in Nat /\ AllStakes(pr) \in Nat
         /\ WinningStakes(o, pr) <= AllStakes(pr)
<1> DEFINE w == [u \in Users |-> IF pr[u].chosen_outcome = o THEN pr[u].stake_amount ELSE 0]
           a == [u \in Users |-> pr[u].stake_amount]
<1>1. \A u \in Users : pr[u].stake_amount \in Nat
  BY StakeInNat
<1>2. /\ w \in [Users -> Nat] /\ a \in [Users -> Nat] /\ w \in [Users -> Int]
      /\ a \in [Users -> Int] /\ \A u \in Users : w[u] <= a[u]
  BY <1>1
<1>3. WinningStakes(o, pr) = SumFunction(w) /\ AllStakes(pr) = SumFunction(a)
  BY DEF WinningStakes, AllStakes
<1> HIDE DEF w, a
<1>4. QED
  BY <1>2, <1>3, SumNat, SumMonotone

\* Stakes of a market are not negative, so neither is its pool.
LEMMA PoolNat ==
  ASSUME NEW pr \in [Users -> Prediction], NEW tp \in Int, Staking(tp, pr)
  PROVE  tp \in Nat /\ LiveStakes(pr) \in Nat
<1> DEFINE L == [u \in Users |-> StakeIn(pr[u])]
<1>1. L \in [Users -> Nat]
  BY StakeInNat
<1>2. LiveStakes(pr) = SumFunction(L)
  BY DEF LiveStakes
<1> HIDE DEF L
<1>3. LiveStakes(pr) \in Nat
  BY <1>1, <1>2, SumNat
<1>4. LiveStakes(pr) <= tp
  BY DEF Staking
<1>5. QED
  BY <1>3, <1>4

SameBets(q, pr) ==
  \A u \in Users : /\ q[u].stake_amount = pr[u].stake_amount
                   /\ q[u].chosen_outcome = pr[u].chosen_outcome

\* What the records say does not change when they are marked as paid.
LEMMA MarkedSame ==
  ASSUME NEW pr \in [Users -> Prediction], NEW q \in [Users -> Prediction], SameBets(q, pr),
         NEW o, NEW tp, NEW se
  PROVE  /\ AllStakes(q) = AllStakes(pr) /\ WinningStakes(o, q) = WinningStakes(o, pr)
         /\ Due(o, tp, q, se) = Due(o, tp, pr, se)
<1>1. [u \in Users |-> q[u].stake_amount] = [u \in Users |-> pr[u].stake_amount]
  BY DEF SameBets
<1>2. [u \in Users |-> IF q[u].chosen_outcome = o THEN q[u].stake_amount ELSE 0]
        = [u \in Users |-> IF pr[u].chosen_outcome = o THEN pr[u].stake_amount ELSE 0]
  BY DEF SameBets
<1>3. AllStakes(q) = AllStakes(pr) /\ WinningStakes(o, q) = WinningStakes(o, pr)
  BY <1>1, <1>2 DEF AllStakes, WinningStakes
<1> DEFINE G(p, u) == Gross(p[u].stake_amount, WinningStakes(o, p), tp)
<1>4. \A u \in Users : G(q, u) = G(pr, u)
  BY <1>3 DEF SameBets
<1>5. Due(o, tp, q, se) = SumFunction([u \in Users |-> IF u \in se THEN G(q, u) ELSE 0])
      /\ Due(o, tp, pr, se) = SumFunction([u \in Users |-> IF u \in se THEN G(pr, u) ELSE 0])
  BY DEF Due
<1> HIDE DEF G
<1>6. [u \in Users |-> IF u \in se THEN G(q, u) ELSE 0]
        = [u \in Users |-> IF u \in se THEN G(pr, u) ELSE 0]
  BY <1>4
<1>7. QED
  BY <1>3, <1>5, <1>6

\* g holds the gross payouts of the winners W.
GrossOf(g, W, pr, winning_pool, tp) ==
  /\ g \in [W -> Int]
  /\ \A u \in W : g[u] = Gross(pr[u].stake_amount, winning_pool, tp)

\* Paying more winners adds their gross payouts.
LEMMA DueGrows ==
  ASSUME NEW pr \in [Users -> Prediction], NEW total_pool, Staking(total_pool, pr), NEW o,
         NEW tp \in Nat, NEW se \in SUBSET Users, NEW W \in SUBSET Users, W \cap se = {},
         WinningStakes(o, pr) > 0, NEW g, GrossOf(g, W, pr, WinningStakes(o, pr), tp)
  PROVE  Due(o, tp, pr, se \cup W) = Due(o, tp, pr, se) + SumFunction(g)
<1> DEFINE G(u) == Gross(pr[u].stake_amount, WinningStakes(o, pr), tp)
           f1 == [u \in Users |-> IF u \in se THEN G(u) ELSE 0]
           f2 == [u \in Users |-> IF u \in W THEN G(u) ELSE 0]
           f3 == [u \in Users |-> IF u \in se \cup W THEN G(u) ELSE 0]
<1>1. \A u \in Users : G(u) \in Int
  <2>1. WinningStakes(o, pr) \in Nat \ {0}
    BY WinningInt
  <2>2. ASSUME NEW u \in Users PROVE G(u) \in Int
    <3> DEFINE s == pr[u].stake_amount
               w == WinningStakes(o, pr)
    <3>1. s \in Nat /\ w \in Nat \ {0}
      BY <2>1, StakeInNat
    <3> HIDE DEF s, w
    <3>2. Gross(s, w, tp) \in Nat
      BY <3>1, GrossNat
    <3>3. Gross(s, w, tp) \in Int
      BY <3>2
    <3>4. QED
      BY <3>3 DEF s, w
  <2>3. QED
    BY <2>2
<1>2. /\ Due(o, tp, pr, se \cup W) = SumFunction(f3) /\ Due(o, tp, pr, se) = SumFunction(f1)
      /\ g \in [W -> Int] /\ \A u \in W : g[u] = G(u)
  BY DEF Due, GrossOf
<1> HIDE DEF G
<1>3. f1 \in [Users -> Int] /\ f2 \in [Users -> Int] /\ f3 \in [Users -> Int]
  BY <1>1
<1>4. IsLinear(Users, f3, 1, f1, 1, f2)
  BY <1>1 DEF IsLinear
<1>5. \A u \in Users : f2[u] = IF u \in W THEN g[u] ELSE 0
  BY <1>2
<1> HIDE DEF f1, f2, f3
<1>6. SumFunction(f3) = 1 * SumFunction(f1) + 1 * SumFunction(f2)
  BY <1>3, <1>4, SumLinear
<1>7. SumFunction(f2) = SumFunction(g)
  BY <1>2, <1>3, <1>5, SumExtend
<1>8. SumFunction(f1) \in Int /\ SumFunction(f2) \in Int
  BY <1>3, SumInt
<1>9. QED
  BY <1>2, <1>6, <1>7, <1>8

\* Without anomalies both payout paths divide by the same winning pool, however
\* many winners were paid before.
LEMMA WinningPools ==
  ASSUME IInv, NEW m \in Markets, anomaly[m] = {}, market[m].is_resolved
  PROVE  /\ ClaimWinningPool(m) = WinningStakes(market[m].resolved_outcome, prediction[m])
         /\ BatchWinningPool(m) = WinningStakes(market[m].resolved_outcome, prediction[m])
<1> DEFINE pr == prediction[m]
           li == listed[m]
           o == market[m].resolved_outcome
<1>1. RowOK(m) /\ Sound(m)
  BY RowTypes DEF IInv
<1>2. pr \in [Users -> Prediction] /\ Staking(market[m].total_pool, pr)
  BY <1>1 DEF RowOK, Sound
<1>3. \A u \in Users : (pr[u].store = "temporary" <=> u \in settled[m])
  BY <1>1 DEF Sound, Accounted
<1>4. \A u \in Users : li[u] = IF pr[u].store = "persistent" \/ u \in settled[m] THEN 1 ELSE 0
  BY <1>1 DEF Sound, Listing
<1>5. ASSUME NEW u \in Users
      PROVE  /\ li[u] * pr[u].stake_amount = pr[u].stake_amount
             /\ (IF li[u] > 0 THEN pr[u].stake_amount ELSE 0) = pr[u].stake_amount
  <2>1. pr[u].stake_amount \in Nat
    BY <1>2, StakeInNat
  <2>2. CASE pr[u].store = "none"
    <3>1. pr[u].stake_amount = 0
      BY <1>2, <2>2, NoneFields DEF Staking
    <3>2. li[u] = 0
      BY <1>3, <1>4, <2>2
    <3>3. QED
      BY <3>1, <3>2
  <2>3. CASE pr[u].store # "none"
    <3>1. pr[u].store \in {"none", "persistent", "temporary"}
      BY <1>2, StoreValues
    <3>2. li[u] = 1
      BY <1>3, <1>4, <2>3, <3>1
    <3> DEFINE s == pr[u].stake_amount
    <3>3. s \in Nat
      BY <2>1
    <3> HIDE DEF s
    <3>4. 1 * s = s /\ (IF 1 > 0 THEN s ELSE 0) = s
      BY <3>3
    <3>5. QED
      BY <3>2, <3>4 DEF s
  <2>4. QED
    BY <2>2, <2>3
<1>6. [u \in Users |-> IF pr[u].chosen_outcome = o THEN li[u] * pr[u].stake_amount ELSE 0]
        = [u \in Users |-> IF pr[u].chosen_outcome = o THEN pr[u].stake_amount ELSE 0]
  BY <1>5
<1>7. [u \in Users |-> IF pr[u].chosen_outcome = o /\ li[u] > 0 THEN pr[u].stake_amount ELSE 0]
        = [u \in Users |-> IF pr[u].chosen_outcome = o THEN pr[u].stake_amount ELSE 0]
  BY <1>5
<1>8. QED
  BY <1>6, <1>7 DEF ClaimWinningPool, BatchWinningPool, WinningStakes, Wins

LEMMA PoolsInt ==
  ASSUME IInv, NEW m \in Markets
  PROVE  ClaimWinningPool(m) \in Int /\ BatchWinningPool(m) \in Int
<1> DEFINE pr == prediction[m]
           li == listed[m]
           c == [u \in Users |-> IF Wins(m, u) THEN li[u] * pr[u].stake_amount ELSE 0]
           b == [u \in Users |-> IF Wins(m, u) /\ li[u] > 0 THEN pr[u].stake_amount ELSE 0]
<1>1. pr \in [Users -> Prediction] /\ li \in [Users -> Int]
  BY RowTypes DEF IInv, RowOK
<1>2. \A u \in Users : pr[u].stake_amount \in Int /\ li[u] \in Int
  BY <1>1, StoreValues
<1>3. \A u \in Users : li[u] * pr[u].stake_amount \in Int
  BY <1>2
<1>4. c \in [Users -> Int] /\ b \in [Users -> Int]
  BY <1>2, <1>3
<1>5. ClaimWinningPool(m) = SumFunction(c) /\ BatchWinningPool(m) = SumFunction(b)
  BY DEF ClaimWinningPool, BatchWinningPool
<1> HIDE DEF c, b
<1>6. QED
  BY <1>4, <1>5, SumInt

\* Both payout paths: wp is the winning pool the path computes.
LEMMA PayWinnersStep ==
  ASSUME IInv, NEW m \in Markets, NEW W \in SUBSET Users, W \subseteq Unpaid(m), NEW wp \in Int,
         market[m].is_resolved, PayWinners(m, W, wp),
         anomaly[m] = {} => wp = WinningStakes(market[m].resolved_outcome, prediction[m])
  PROVE  LocalStep(m)
<1> DEFINE mk == market[m]
           pr == prediction[m]
           o == mk.resolved_outcome
           gross == [u \in W |-> GrossPayout(m, u, wp)]
           outs == [u \in W |-> Outflow(m, gross[u])]
           fees == [u \in W |-> ProtocolFee(gross[u])]
           pr2 == [u \in Users |-> IF u \in W THEN Tombstone(pr[u]) ELSE pr[u]]
           pd == paid[m] + SumFunction(gross)
           se == settled[m] \cup W
           an == anomaly[m] \cup
                 (IF \E u \in W : NetPayout(m, gross[u]) < 0 THEN {"overcharged"} ELSE {})
<1>1. /\ TypeOK /\ Sound(m) /\ RowOK(m) /\ wp > 0 /\ SumFunction(outs) <= escrow
      /\ prediction' = [prediction EXCEPT ![m] = pr2]
      /\ escrow' = escrow - SumFunction(outs) /\ treasury' = treasury + SumFunction(fees)
      /\ UNCHANGED <<config, market, listed, commitment, dispute, submission, insurance, now,
                     dust>>
  BY RowTypes DEF IInv, PayWinners
<1>2. /\ paid' = [paid EXCEPT ![m] = pd] /\ settled' = [settled EXCEPT ![m] = se]
      /\ anomaly' = [anomaly EXCEPT ![m] = an]
  BY <1>1 DEF PayWinners, TypeOK
<1>3. /\ mk \in Market /\ pr \in [Users -> Prediction] /\ listed[m] \in [Users -> Int]
      /\ paid[m] \in Int /\ settled[m] \in SUBSET Users /\ dust[m] \in Int
      /\ anomaly[m] \in SUBSET Anomalies
  BY <1>1 DEF RowOK
<1>4. /\ Staking(mk.total_pool, pr)
      /\ Listing(mk.participant_count, pr, listed[m], settled[m], anomaly[m])
      /\ Timely(mk, dispute[m], settled[m], now)
      /\ Accounted(mk, pr, paid[m], settled[m], dust[m], anomaly[m])
  BY <1>1 DEF Sound
<1>5. mk.total_pool \in Nat /\ wp \in Nat \ {0}
  <2>1. mk.total_pool \in Int
    BY <1>3, MarketFields
  <2>2. mk.total_pool \in Nat
    BY <1>3, <1>4, <2>1, PoolNat
  <2>3. QED
    BY <1>1, <2>2
<1>6. \A u \in W : u \in Users /\ pr[u].store = "persistent" /\ pr[u].chosen_outcome = o
  BY DEF Unpaid, HasPosition, Wins
<1>7. ASSUME NEW u \in W
      PROVE  /\ gross[u] = Gross(pr[u].stake_amount, wp, mk.total_pool) /\ gross[u] \in Nat
             /\ wp <= mk.total_pool => gross[u] > 0
  <2> DEFINE s == pr[u].stake_amount
             tp == mk.total_pool
  <2>1. s \in Nat /\ s > 0 /\ tp \in Nat
    BY <1>3, <1>4, <1>5, <1>6, StakeInNat
  <2>2. gross[u] = Gross(s, wp, tp)
    BY DEF GrossPayout, Gross
  <2> HIDE DEF s, tp, gross
  <2>3. Gross(s, wp, tp) \in Nat /\ (wp <= tp => Gross(s, wp, tp) >= s)
    BY <1>5, <2>1, GrossNat
  <2>4. QED
    BY <2>1, <2>2, <2>3 DEF s, tp
<1>8. gross \in [W -> Int] /\ gross \in [W -> Nat]
  <2>1. gross = [u \in W |-> gross[u]]
    OBVIOUS
  <2> HIDE DEF gross
  <2>2. QED
    BY <1>7, <2>1
<1> HIDE DEF gross
<1>9. ASSUME NEW u \in W
      PROVE  /\ fees[u] \in Nat /\ outs[u] \in Nat
             /\ ~(NetPayout(m, gross[u]) < 0) => outs[u] + fees[u] = gross[u]
  <2> DEFINE g == gross[u]
  <2>1. g \in Nat
    BY <1>8
  <2>2. fees[u] = ProtocolFee(g) /\ outs[u] = Outflow(m, g)
    OBVIOUS
  <2> HIDE DEF g, fees, outs
  <2>3. /\ ProtocolFee(g) \in Nat /\ Outflow(m, g) \in Nat
        /\ ~(NetPayout(m, g) < 0) => Outflow(m, g) + ProtocolFee(g) = g
    BY <1>1, <2>1, FeeSplit
  <2>4. QED
    BY <2>2, <2>3 DEF g
<1>10. /\ fees \in [W -> Nat] /\ outs \in [W -> Nat] /\ fees \in [W -> Int] /\ outs \in [W -> Int]
  <2>1. fees = [u \in W |-> fees[u]] /\ outs = [u \in W |-> outs[u]]
    OBVIOUS
  <2> HIDE DEF fees, outs
  <2>2. QED
    BY <1>9, <2>1
<1> HIDE DEF fees, outs
<1>11. IsFiniteSet(W)
  BY FS_Subset
<1>12. SumFunction(fees) \in Nat /\ SumFunction(outs) \in Nat /\ SumFunction(gross) \in Nat
  BY <1>8, <1>10, <1>11, SumNat
<1>13. /\ an \in SUBSET Anomalies /\ anomaly[m] \subseteq an
       /\ "overcharged" \in an \/ \A u \in W : ~(NetPayout(m, gross[u]) < 0)
       /\ an = {} => anomaly[m] = {}
       /\ "overwritten" \notin an => "overwritten" \notin anomaly[m]
  BY <1>3 DEF Anomalies
<1> HIDE DEF an
<1>14. ASSUME NEW u \in Users
       PROVE  /\ pr2[u] \in Prediction /\ pr2[u].stake_amount = pr[u].stake_amount
              /\ pr2[u].chosen_outcome = pr[u].chosen_outcome
              /\ pr2[u].store = IF u \in W THEN "temporary" ELSE pr[u].store
              /\ u \notin W => pr2[u] = pr[u]
              /\ StakeIn(pr2[u]) = IF u \in W THEN 0 ELSE StakeIn(pr[u])
  <2>1. pr[u] \in Prediction
    BY <1>3
  <2>2. CASE u \in W
    <3>1. pr2[u] = Tombstone(pr[u])
      BY <2>2
    <3> HIDE DEF pr2
    <3>2. QED
      BY <2>1, <2>2, <3>1, TombstoneFields
  <2>3. CASE u \notin W
    BY <2>1, <2>3
  <2>4. QED
    BY <2>2, <2>3
<1>15. pr2 \in [Users -> Prediction]
  <2>1. pr2 = [u \in Users |-> pr2[u]]
    OBVIOUS
  <2> HIDE DEF pr2
  <2>2. QED
    BY <1>14, <2>1
<1> HIDE DEF pr2
<1>16. pd \in Int /\ se \in SUBSET Users
  <2>1. pd \in Int
    BY <1>3, <1>12
  <2>2. QED
    BY <1>3, <2>1
<1>17. Staking(mk.total_pool, pr2)
  <2>1. \A u \in Users : IF pr2[u].store = "none" THEN pr2[u] = NoPrediction
                         ELSE pr2[u].stake_amount > 0
    <3> SUFFICES ASSUME NEW u \in Users
                 PROVE  IF pr2[u].store = "none" THEN pr2[u] = NoPrediction
                        ELSE pr2[u].stake_amount > 0
      OBVIOUS
    <3>1. IF pr[u].store = "none" THEN pr[u] = NoPrediction ELSE pr[u].stake_amount > 0
      BY <1>4 DEF Staking
    <3>2. CASE u \in W
      <4>1. pr[u].store # "none"
        BY <1>6, <3>2
      <4>2. QED
        BY <1>14, <3>1, <3>2, <4>1
    <3>3. CASE u \notin W
      BY <1>14, <3>1, <3>3
    <3>4. QED
      BY <3>2, <3>3
  <2>2. LiveStakes(pr2) <= LiveStakes(pr)
    <3> DEFINE f1 == [u \in Users |-> StakeIn(pr2[u])]
               f2 == [u \in Users |-> StakeIn(pr[u])]
    <3>1. \A u \in Users : StakeIn(pr[u]) \in Nat
      BY <1>3, <1>4, StakeInNat
    <3>2. /\ f1 \in [Users -> Int] /\ f2 \in [Users -> Int] /\ \A u \in Users : f1[u] <= f2[u]
      BY <1>14, <3>1
    <3>3. LiveStakes(pr2) = SumFunction(f1) /\ LiveStakes(pr) = SumFunction(f2)
      BY DEF LiveStakes
    <3> HIDE DEF f1, f2
    <3>4. QED
      BY <3>2, <3>3, SumMonotone
  <2>3. /\ LiveStakes(pr2) \in Int /\ LiveStakes(pr) \in Int /\ mk.total_pool \in Int
        /\ LiveStakes(pr) <= mk.total_pool
    BY <1>3, <1>4, <1>5, <1>15, LiveInt DEF Staking
  <2>4. LiveStakes(pr2) <= mk.total_pool
    BY <2>2, <2>3
  <2>5. QED
    BY <2>1, <2>4 DEF Staking
<1>18. Listing(mk.participant_count, pr2, listed[m], se, an)
  <2>1. mk.participant_count = SumFunction(listed[m])
    BY <1>4 DEF Listing
  <2>2. \A u \in Users : pr2[u].store = "persistent" <=> pr[u].store = "persistent" /\ u \notin W
    BY <1>14
  <2>3. \A u \in Users : listed[m][u] >= IF pr2[u].store = "persistent" THEN 1 ELSE 0
    <3> SUFFICES ASSUME NEW u \in Users
                 PROVE  listed[m][u] >= IF pr2[u].store = "persistent" THEN 1 ELSE 0
      OBVIOUS
    <3>1. listed[m][u] >= (IF pr[u].store = "persistent" THEN 1 ELSE 0) /\ listed[m][u] \in Int
      BY <1>3, <1>4 DEF Listing
    <3>2. pr2[u].store = "persistent" => pr[u].store = "persistent"
      BY <2>2
    <3>3. QED
      BY <3>1, <3>2
  <2>4. \A u \in se : pr2[u].store # "persistent"
    BY <1>3, <1>4, <2>2 DEF Listing
  <2>5. ASSUME "overwritten" \notin an, NEW u \in Users
        PROVE  listed[m][u] = IF pr2[u].store = "persistent" \/ u \in se THEN 1 ELSE 0
    <3>1. listed[m][u] = IF pr[u].store = "persistent" \/ u \in settled[m] THEN 1 ELSE 0
      BY <1>4, <1>13, <2>5 DEF Listing
    <3>2. (pr2[u].store = "persistent" \/ u \in se)
            <=> (pr[u].store = "persistent" \/ u \in settled[m])
      BY <1>6, <2>2
    <3>3. QED
      BY <3>1, <3>2
  <2>6. QED
    BY <2>1, <2>3, <2>4, <2>5 DEF Listing
<1>19. Timely(mk, dispute[m], se, now)
  <2>1. mk.exists
    BY <1>4 DEF Timely, NoMarket
  <2>2. QED
    BY <1>4, <2>1 DEF Timely
<1>20. Accounted(mk, pr2, pd, se, dust[m], an)
  <2> SUFFICES ASSUME an = {}
               PROVE  /\ dust[m] >= 0 /\ pd >= 0 /\ (pd = 0 => se = {})
                      /\ AllStakes(pr2) = mk.total_pool
                      /\ \A u \in Users : pr2[u].store = "temporary" <=> u \in se
                      /\ \A u \in se : pr2[u].chosen_outcome = o
                      /\ pd = Due(o, mk.total_pool, pr2, se)
    BY DEF Accounted
  <2>1. /\ anomaly[m] = {} /\ wp = WinningStakes(o, pr)
        /\ dust[m] >= 0 /\ paid[m] >= 0 /\ (paid[m] = 0 => settled[m] = {})
        /\ AllStakes(pr) = mk.total_pool
        /\ \A u \in Users : pr[u].store = "temporary" <=> u \in settled[m]
        /\ \A u \in settled[m] : pr[u].chosen_outcome = o
        /\ paid[m] = Due(o, mk.total_pool, pr, settled[m])
    BY <1>4, <1>13 DEF Accounted
  <2>2. wp <= mk.total_pool
    BY <1>3, <1>4, <2>1, WinningInt
  <2>3. pd >= 0 /\ (pd = 0 => se = {})
    <3>1. pd >= 0 /\ (pd = 0 => paid[m] = 0 /\ SumFunction(gross) = 0)
      BY <1>3, <1>12, <2>1
    <3>2. SumFunction(gross) = 0 => W = {}
      <4> SUFFICES ASSUME SumFunction(gross) = 0, NEW u \in W PROVE FALSE
        OBVIOUS
      <4>1. gross[u] > 0 /\ gross[u] \in Nat
        BY <1>7, <2>2
      <4>2. gross[u] <= SumFunction(gross)
        BY <1>8, <1>11, SumBoundsElement
      <4>3. QED
        BY <4>1, <4>2
    <3>3. QED
      BY <2>1, <3>1, <3>2
  <2>4. SameBets(pr2, pr)
    BY <1>14 DEF SameBets
  <2> DEFINE tp == mk.total_pool
  <2>5. /\ AllStakes(pr2) = AllStakes(pr)
        /\ Due(o, tp, pr2, se) = Due(o, tp, pr, se)
    <3>1. pr \in [Users -> Prediction]
      BY <1>3
    <3> HIDE DEF pr, o, tp, se
    <3>2. QED
      BY <1>15, <2>4, <3>1, MarkedSame
  <2>6. pd = Due(o, mk.total_pool, pr, se)
    <3>1. W \cap settled[m] = {}
      BY <1>4, <1>6 DEF Listing
    <3>2. GrossOf(gross, W, pr, WinningStakes(o, pr), tp)
      BY <1>7, <1>8, <2>1 DEF GrossOf
    <3>3. WinningStakes(o, pr) > 0
      BY <1>1, <2>1
    <3>4. /\ pr \in [Users -> Prediction] /\ Staking(tp, pr) /\ tp \in Nat
          /\ settled[m] \in SUBSET Users
      BY <1>3, <1>4, <1>5
    <3>5. Due(o, tp, pr, settled[m] \cup W) = Due(o, tp, pr, settled[m]) + SumFunction(gross)
      <4> HIDE DEF pr, o, tp
      <4>1. QED
        BY <3>1, <3>2, <3>3, <3>4, DueGrows
    <3>6. QED
      BY <2>1, <3>5
  <2>7. \A u \in Users : pr2[u].store = "temporary" <=> u \in se
    BY <1>14, <2>1
  <2>8. \A u \in se : pr2[u].chosen_outcome = o
    BY <1>3, <1>6, <1>14, <2>1
  <2>9. QED
    BY <2>1, <2>3, <2>5, <2>6, <2>7, <2>8
<1>21. SoundAs(m, mk, pr2, listed[m], pd, se, dust[m], an)
  BY <1>17, <1>18, <1>19, <1>20 DEF SoundAs
<1>22. PositionsAre(m, mk, pr2, listed[m], pd, se, dust[m], an)
  BY <1>1, <1>2 DEF PositionsAre, TypeOK
<1>23. "overcharged" \in an \/ PoolMoves(m, mk, pd, dust[m])
  <2> SUFFICES ASSUME \A u \in W : ~(NetPayout(m, gross[u]) < 0)
               PROVE  PoolMoves(m, mk, pd, dust[m])
    BY <1>13
  <2> DEFINE x == SumFunction(outs)
             y == SumFunction(fees)
             z == SumFunction(gross)
             t0 == mk.total_pool
             p == paid[m]
             d == dust[m]
  <2>1. \A u \in W : outs[u] + fees[u] = gross[u]
    BY <1>9
  <2>2. \A u \in W : outs[u] \in Int /\ fees[u] \in Int /\ gross[u] \in Int
    BY <1>8, <1>10
  <2>3. IsLinear(W, gross, 1, outs, 1, fees)
    BY <2>1, <2>2 DEF IsLinear
  <2>4. z = 1 * x + 1 * y
    BY <1>8, <1>10, <1>11, <2>3, SumLinear
  <2>5. escrow \in Int /\ treasury \in Int /\ t0 \in Int /\ p \in Int /\ d \in Int
        /\ x \in Int /\ y \in Int /\ z \in Int
    BY <1>1, <1>3, <1>5, <1>12 DEF TypeOK
  <2>6. pd = p + z
    OBVIOUS
  <2> HIDE DEF x, y, z, t0, p, d, pd
  <2>7. (escrow - x) - escrow = ((treasury + y) - treasury) + ((t0 - pd + d) - (t0 - p + d))
    BY <2>4, <2>5, <2>6
  <2>8. escrow' = escrow - x /\ treasury' = treasury + y
    BY <1>1 DEF x, y
  <2>9. QED
    BY <2>7, <2>8 DEF PoolMoves, PoolOf, t0, p, d
<1>24. escrow' \in Nat /\ treasury' \in Nat
  BY <1>1, <1>12 DEF TypeOK
<1>25. Keeps(m, mk, listed[m])
  BY DEF Keeps
<1> HIDE DEF pd, se
<1>26. QED
  BY <1>3, <1>13, <1>15, <1>16, <1>21, <1>22, <1>23, <1>24, <1>25, PositionStep

LEMMA ClaimPayoutStep ==
  ASSUME IInv, NEW m \in Markets, NEW u \in Users, ClaimPayout(m, u)
  PROVE  LocalStep(m)
<1>1. /\ market[m].is_resolved /\ {u} \subseteq Unpaid(m) /\ {u} \in SUBSET Users
      /\ PayWinners(m, {u}, ClaimWinningPool(m))
  BY DEF ClaimPayout
<1>2. QED
  BY <1>1, PoolsInt, WinningPools, PayWinnersStep

LEMMA BatchDistributePayoutsStep ==
  ASSUME IInv, NEW m \in Markets, NEW W \in SUBSET Users, BatchDistributePayouts(m, W)
  PROVE  LocalStep(m)
<1>1. /\ market[m].is_resolved /\ W \subseteq Unpaid(m)
      /\ PayWinners(m, W, BatchWinningPool(m))
  BY DEF BatchDistributePayouts
<1>2. QED
  BY <1>1, PoolsInt, WinningPools, PayWinnersStep

-----------------------------------------------------------------------------
(* The winners of a resolved market share its pool. *)

\* The shares of all the winners are the pool, up to one unit for each.
LEMMA DueBounds ==
  ASSUME NEW pr \in [Users -> Prediction], NEW total_pool, Staking(total_pool, pr), NEW o,
         NEW tp \in Nat, NEW wp \in Nat \ {0}, wp = WinningStakes(o, pr), wp <= tp,
         NEW V \in SUBSET Users, \A u \in Users : u \in V <=> pr[u].chosen_outcome = o
  PROVE  /\ Due(o, tp, pr, V) \in Int /\ Due(o, tp, pr, V) <= tp
         /\ Due(o, tp, pr, V) >= tp - Cardinality(V)
<1> DEFINE rest == tp - wp
           w == [u \in Users |-> IF pr[u].chosen_outcome = o THEN pr[u].stake_amount ELSE 0]
           q == [u \in Users |-> IF u \in V THEN WinnerShare(pr[u].stake_amount, wp, tp) ELSE 0]
           one == [u \in Users |-> IF u \in V THEN 1 ELSE 0]
           due == [u \in Users |-> IF u \in V THEN Gross(pr[u].stake_amount, wp, tp) ELSE 0]
           A == [u \in Users |-> wp * q[u]]
           B == [u \in Users |-> rest * w[u]]
           C == [u \in Users |-> wp * q[u] + wp * one[u]]
<1>1. rest \in Nat /\ rest = tp - wp
  OBVIOUS
<1>2. WinningStakes(o, pr) = SumFunction(w) /\ Due(o, tp, pr, V) = SumFunction(due)
  BY DEF WinningStakes, Due
<1>3. ASSUME NEW u \in Users
      PROVE  /\ w[u] \in Nat /\ q[u] \in Nat /\ one[u] \in Nat /\ due[u] = w[u] + q[u]
             /\ wp * q[u] <= rest * w[u] /\ rest * w[u] <= wp * q[u] + wp * one[u]
  <2> DEFINE s == pr[u].stake_amount
             x == TruncDiv(s * rest, wp)
  <2>1. s \in Nat
    BY StakeInNat
  <2>2. CASE u \in V
    <3>1. w[u] = s /\ q[u] = x /\ one[u] = 1 /\ due[u] = s + x
      BY <2>2 DEF Gross, WinnerShare
    <3> HIDE DEF s, rest, w, q, one, due
    <3>2. s * rest \in Nat
      BY <1>1, <2>1
    <3>3. x \in Nat /\ wp * x <= s * rest /\ s * rest < wp * x + wp
      BY <3>2, TruncDivNat
    <3> HIDE DEF x
    <3>4. s * rest = rest * s /\ wp * 1 = wp
      BY <1>1, <2>1
    <3>5. wp * x \in Nat /\ rest * s \in Nat
      BY <3>2, <3>3, <3>4
    <3>6. wp * x <= rest * s /\ rest * s <= wp * x + wp * 1
      BY <3>3, <3>4, <3>5
    <3>7. QED
      BY <2>1, <3>1, <3>3, <3>6
  <2>3. CASE u \notin V
    <3>1. w[u] = 0 /\ q[u] = 0 /\ one[u] = 0 /\ due[u] = 0
      BY <2>3
    <3> HIDE DEF w, q, one, due
    <3>2. QED
      BY <1>1, <3>1
  <2>4. QED
    BY <2>2, <2>3
<1>4. /\ w = [u \in Users |-> w[u]] /\ q = [u \in Users |-> q[u]]
      /\ one = [u \in Users |-> one[u]] /\ due = [u \in Users |-> due[u]]
  OBVIOUS
<1>5. \A u \in Users : one[u] = IF u \in V THEN 1 ELSE 0
  OBVIOUS
<1> HIDE DEF w, q, one, due, rest
<1>6. /\ w \in [Users -> Int] /\ q \in [Users -> Int] /\ one \in [Users -> Int]
      /\ due \in [Users -> Int]
  <2>1. \A u \in Users : w[u] \in Int /\ q[u] \in Int /\ one[u] \in Int /\ due[u] \in Int
    BY <1>3
  <2>2. QED
    BY <1>4, <2>1
<1>7. \A u \in Users : w[u] \in Int /\ q[u] \in Int /\ one[u] \in Int
  BY <1>3
<1>8. \A u \in Users : wp * q[u] \in Int /\ rest * w[u] \in Int /\ wp * one[u] \in Int
  BY <1>1, <1>7
<1>9. A \in [Users -> Int] /\ B \in [Users -> Int] /\ C \in [Users -> Int]
  BY <1>8
<1>10. (\A u \in Users : A[u] <= B[u]) /\ (\A u \in Users : B[u] <= C[u])
  BY <1>3
<1>11. IsLinear(Users, due, 1, w, 1, q)
  BY <1>3, <1>7 DEF IsLinear
<1>12. IsLinear(Users, A, wp, q, 0, q)
  BY <1>7, <1>8 DEF IsLinear
<1>13. IsLinear(Users, B, rest, w, 0, w)
  BY <1>7, <1>8 DEF IsLinear
<1>14. IsLinear(Users, C, wp, q, wp, one)
  BY <1>7, <1>8 DEF IsLinear
<1> HIDE DEF A, B, C
<1> DEFINE Q == SumFunction(q)
           N == SumFunction(one)
<1>15. Q \in Int /\ N \in Int /\ SumFunction(w) = wp
  BY <1>2, <1>6, SumInt
<1>16. SumFunction(due) = 1 * SumFunction(w) + 1 * Q
  BY <1>6, <1>11, SumLinear
<1>17. SumFunction(A) = wp * Q + 0 * Q
  BY <1>6, <1>9, <1>12, SumLinear
<1>18. SumFunction(B) = rest * SumFunction(w) + 0 * SumFunction(w)
  BY <1>1, <1>6, <1>9, <1>13, SumLinear
<1>19. SumFunction(C) = wp * Q + wp * N
  BY <1>6, <1>9, <1>14, SumLinear
<1>20. SumFunction(A) <= SumFunction(B) /\ SumFunction(B) <= SumFunction(C)
  BY <1>9, <1>10, SumMonotone
<1>21. N = Cardinality(V)
  <2>1. V \subseteq Users
    OBVIOUS
  <2>2. QED
    BY <1>5, <1>6, <2>1, SumIndicator
<1> HIDE DEF Q, N
<1>22. wp * Q <= rest * wp /\ rest * wp <= wp * Q + wp * N
  BY <1>1, <1>15, <1>17, <1>18, <1>19, <1>20
<1>23. Q <= rest
  <2> SUFFICES ASSUME Q >= rest + 1 PROVE FALSE
    BY <1>1, <1>15
  <2>1. wp * Q >= wp * (rest + 1)
    BY <1>1, <1>15
  <2>2. wp * (rest + 1) = rest * wp + wp /\ rest * wp \in Int /\ wp * Q \in Int
    BY <1>1, <1>15
  <2>3. QED
    BY <1>22, <2>1, <2>2
<1>24. rest <= Q + N
  <2> SUFFICES ASSUME rest >= Q + N + 1 PROVE FALSE
    BY <1>1, <1>15
  <2>1. wp * rest >= wp * (Q + N + 1)
    BY <1>1, <1>15
  <2>2. /\ wp * (Q + N + 1) = (wp * Q + wp * N) + wp /\ wp * rest = rest * wp
        /\ wp * Q + wp * N \in Int /\ rest * wp \in Int
    BY <1>1, <1>15
  <2>3. QED
    BY <1>22, <2>1, <2>2
<1>25. Due(o, tp, pr, V) = wp + Q
  BY <1>2, <1>15, <1>16
<1>26. QED
  BY <1>1, <1>15, <1>21, <1>23, <1>24, <1>25

\* What a market owes is what it has not paid, up to one unit per winner.
LEMMA MarketConserved ==
  ASSUME IInv, NEW m \in Markets, anomaly[m] = {}
  PROVE  Conserved(m) /\ Outstanding(m) \in Int /\ Outstanding(m) <= PoolOf(m)
<1> DEFINE mk == market[m]
           pr == prediction[m]
           o == mk.resolved_outcome
           tp == mk.total_pool
           wp == WinningStakes(o, pr)
           se == settled[m]
           W == Unpaid(m)
           V == {u \in Users : Wins(m, u)}
           g == [u \in W |-> Gross(pr[u].stake_amount, wp, tp)]
           owed == [u \in Users |->
                     IF ~HasPosition(m, u) THEN 0
                     ELSE IF ~mk.is_resolved THEN pr[u].stake_amount
                     ELSE IF Wins(m, u) THEN GrossPayout(m, u, ClaimWinningPool(m)) ELSE 0]
<1>1. /\ TypeOK /\ RowOK(m) /\ Sound(m) /\ Staking(tp, pr) /\ pr \in [Users -> Prediction]
      /\ tp \in Int /\ tp \in Nat /\ paid[m] \in Int /\ dust[m] \in Int /\ se \in SUBSET Users
      /\ dust[m] >= 0
  <2>1. TypeOK /\ RowOK(m) /\ Sound(m)
    BY RowTypes DEF IInv
  <2>2. Staking(tp, pr) /\ pr \in [Users -> Prediction] /\ tp \in Int
    BY <2>1, MarketFields DEF Sound, RowOK
  <2>3. tp \in Nat
    BY <2>2, PoolNat
  <2>4. paid[m] \in Int /\ dust[m] \in Int /\ se \in SUBSET Users /\ dust[m] >= 0
    BY <2>1 DEF RowOK, Sound, Accounted
  <2>5. QED
    BY <2>1, <2>2, <2>3, <2>4
<1>2. Outstanding(m) = SumFunction(owed)
  BY DEF Outstanding
<1>3. CASE ~mk.is_resolved
  <2>1. owed = [u \in Users |-> StakeIn(pr[u])]
    BY <1>3 DEF HasPosition, StakeIn
  <2>2. Outstanding(m) = LiveStakes(pr)
    BY <1>2, <2>1 DEF LiveStakes
  <2>3. paid[m] + LiveStakes(pr) = tp /\ LiveStakes(pr) \in Int
    BY <1>1, <1>3, LiveInt DEF Sound, Accounted
  <2>4. Conserved(m)
    BY <1>3, <2>2, <2>3 DEF Conserved
  <2>5. Outstanding(m) <= PoolOf(m)
    <3>1. PoolOf(m) = tp - paid[m] + dust[m]
      BY DEF PoolOf
    <3> HIDE DEF tp
    <3>2. QED
      BY <1>1, <2>2, <2>3, <3>1
  <2>6. QED
    BY <2>2, <2>3, <2>4, <2>5
<1>4. CASE mk.is_resolved
  <2>1. /\ AllStakes(pr) = tp /\ (\A u \in Users : pr[u].store = "temporary" <=> u \in se)
        /\ (\A u \in se : pr[u].chosen_outcome = o) /\ paid[m] = Due(o, tp, pr, se)
        /\ o \in Outcomes /\ ClaimWinningPool(m) = wp
    BY <1>1, <1>4, WinningPools DEF Sound, Accounted, Timely
  <2>2. wp \in Nat /\ wp <= tp
    BY <1>1, <2>1, WinningInt
  <2>3. /\ \A u \in Users : u \in V <=> pr[u].chosen_outcome = o
        /\ \A u \in Users : u \in W <=> pr[u].store = "persistent" /\ pr[u].chosen_outcome = o
        /\ W \in SUBSET Users /\ V \in SUBSET Users
    BY DEF Unpaid, HasPosition, Wins
  <2>4. V = se \cup W /\ W \cap se = {}
    <3>1. ASSUME NEW u \in Users, pr[u].chosen_outcome = o
          PROVE  u \in se \/ pr[u].store = "persistent"
      <4>1. pr[u].store \in {"none", "persistent", "temporary"}
        BY <1>1, StoreValues
      <4>2. pr[u].store # "none"
        BY <1>1, <2>1, <3>1 DEF Staking, NoPrediction
      <4>3. QED
        BY <2>1, <4>1, <4>2
    <3>2. \A u \in se : u \in Users /\ pr[u].chosen_outcome = o /\ pr[u].store = "temporary"
      BY <1>1, <2>1
    <3> HIDE DEF V, W, se
    <3>3. QED
      BY <2>3, <3>1, <3>2
  <2>5. owed = [u \in Users |-> IF u \in W THEN Gross(pr[u].stake_amount, wp, tp) ELSE 0]
    BY <1>4, <2>1 DEF Unpaid, HasPosition, Wins, GrossPayout, Gross
  <2> HIDE DEF owed
  <2>6. CASE V = {}
    <3>1. se = {} /\ W = {}
      BY <2>4, <2>6
    <3>2. paid[m] = 0
      BY <2>1, <3>1, DueNone
    <3>3. owed \in [Users -> Int] /\ \A u \in Users : owed[u] = 0
      BY <2>5, <3>1
    <3>4. Outstanding(m) = 0
      BY <1>2, <3>3, SumZero
    <3>5. Conserved(m)
      BY <1>1, <1>4, <2>6, <3>2, <3>4 DEF Conserved
    <3>6. PoolOf(m) >= 0
      BY <1>1, <3>2 DEF PoolOf
    <3>7. QED
      BY <3>4, <3>5, <3>6
  <2>7. CASE V # {}
    <3>1. wp > 0
      <4>1. PICK u \in V : TRUE
        BY <2>7
      <4>2. u \in Users /\ pr[u].chosen_outcome = o
        BY <2>3
      <4>3. pr[u].store # "none"
        BY <1>1, <2>1, <4>2 DEF Staking, NoPrediction
      <4>4. pr[u].stake_amount > 0 /\ pr[u].stake_amount \in Nat
        BY <1>1, <4>2, <4>3, StakeInNat
      <4> DEFINE w == [v \in Users |-> IF pr[v].chosen_outcome = o THEN pr[v].stake_amount ELSE 0]
      <4>5. \A v \in Users : pr[v].stake_amount \in Nat
        BY <1>1, StakeInNat
      <4>6. w \in [Users -> Nat] /\ w[u] = pr[u].stake_amount
        BY <4>2, <4>5
      <4>7. wp = SumFunction(w)
        BY DEF WinningStakes
      <4> HIDE DEF w, wp
      <4>8. w[u] <= wp
        BY <4>2, <4>6, <4>7, SumBoundsElement
      <4>9. QED
        BY <2>2, <4>4, <4>6, <4>8
    <3>2. wp \in Nat \ {0}
      BY <2>2, <3>1
    <3>3. ASSUME NEW u \in Users PROVE Gross(pr[u].stake_amount, wp, tp) \in Int
      <4> DEFINE s == pr[u].stake_amount
      <4>1. s \in Nat /\ tp \in Nat
        BY <1>1, StakeInNat
      <4> HIDE DEF s, wp, tp
      <4>2. Gross(s, wp, tp) \in Nat
        BY <3>2, <4>1, GrossNat
      <4>3. Gross(s, wp, tp) \in Int
        BY <4>2
      <4>4. QED
        BY <4>3 DEF s
    <3>4. GrossOf(g, W, pr, wp, tp)
      <4>1. \A u \in W : Gross(pr[u].stake_amount, wp, tp) \in Int
        BY <2>3, <3>3
      <4>2. QED
        BY <4>1 DEF GrossOf
    <3>5. owed \in [Users -> Int] /\ \A u \in Users : owed[u] = IF u \in W THEN g[u] ELSE 0
      BY <2>5, <3>3
    <3> HIDE DEF g
    <3>6. SumFunction(owed) = SumFunction(g) /\ g \in [W -> Int]
      <4>1. g \in [W -> Int] /\ W \subseteq Users
        BY <2>3, <3>4 DEF GrossOf
      <4> HIDE DEF W
      <4>2. QED
        BY <3>5, <4>1, SumExtend
    <3>7. Due(o, tp, pr, se \cup W) = Due(o, tp, pr, se) + SumFunction(g)
      <4>1. wp = WinningStakes(o, pr)
        OBVIOUS
      <4>2. WinningStakes(o, pr) > 0 /\ GrossOf(g, W, pr, WinningStakes(o, pr), tp)
        BY <3>1, <3>4, <4>1
      <4>3. tp \in Nat /\ se \in SUBSET Users /\ Staking(tp, pr) /\ pr \in [Users -> Prediction]
        BY <1>1
      <4> HIDE DEF wp, tp, o, pr, W, se
      <4>4. QED
        BY <2>3, <2>4, <4>2, <4>3, DueGrows
    <3>8. /\ Due(o, tp, pr, V) \in Int /\ Due(o, tp, pr, V) <= tp
          /\ Due(o, tp, pr, V) >= tp - Cardinality(V)
      <4>1. wp = WinningStakes(o, pr)
        OBVIOUS
      <4>2. tp \in Nat /\ Staking(tp, pr) /\ pr \in [Users -> Prediction]
        BY <1>1
      <4> HIDE DEF wp, tp, o, pr, V
      <4>3. QED
        BY <2>2, <2>3, <3>2, <4>1, <4>2, DueBounds
    <3>9. paid[m] + Outstanding(m) = Due(o, tp, pr, V)
      BY <1>2, <2>1, <2>4, <3>6, <3>7
    <3>10. Outstanding(m) \in Int
      BY <1>2, <3>5, SumInt
    <3>11. Conserved(m)
      BY <1>4, <3>8, <3>9 DEF Conserved
    <3>12. Outstanding(m) <= PoolOf(m)
      <4>1. PoolOf(m) = tp - paid[m] + dust[m]
        BY DEF PoolOf
      <4> DEFINE d == Due(o, tp, pr, V)
      <4>2. d \in Int /\ d <= tp /\ paid[m] + Outstanding(m) = d
        BY <3>8, <3>9
      <4> HIDE DEF d, tp
      <4>3. QED
        BY <1>1, <3>10, <4>1, <4>2
    <3>13. QED
      BY <3>10, <3>11, <3>12
  <2>8. QED
    BY <2>6, <2>7
<1>5. QED
  BY <1>3, <1>4

-----------------------------------------------------------------------------
(* The invariant holds from the first market on. *)

LEMMA InitInv ==
  ASSUME Init
  PROVE  IInv
<1> DEFINE zero == [u \in Users |-> 0]
           none == [u \in Users |-> NoPrediction]
           zeros == [m \in Markets |-> 0]
<1>1. NoMarket \in Market /\ NoPrediction \in Prediction /\ NoCommitment \in Commitment
  BY DEF NoMarket, NoPrediction, NoCommitment, Market, Prediction, Commitment
<1>2. /\ zero \in [Users -> Int] /\ (\A u \in Users : zero[u] = 0)
      /\ none \in [Users -> Prediction] /\ (\A u \in Users : none[u] = NoPrediction)
      /\ zeros \in [Markets -> Int] /\ (\A m \in Markets : zeros[m] = 0)
  BY <1>1
<1>3. config \in Config
  BY DEF Init, Config
<1>4. TypeOK
  BY <1>1, <1>3 DEF Init, TypeOK
<1>5. SumFunction(zero) = 0 /\ SumFunction(zeros) = 0
  <2> HIDE DEF zero, zeros
  <2>1. QED
    BY <1>2, SumZero
<1>6. EscrowMatchesBooks
  <2>1. \A m \in Markets : HeldFor(m) = 0 /\ PoolOf(m) = 0
    <3> SUFFICES ASSUME NEW m \in Markets PROVE HeldFor(m) = 0 /\ PoolOf(m) = 0
      OBVIOUS
    <3>1. /\ market[m] = NoMarket /\ dispute[m] = 0 /\ submission[m] = "none"
          /\ paid[m] = 0 /\ dust[m] = 0
      BY DEF Init
    <3>2. market[m].bond = 0 /\ market[m].total_pool = 0 /\ Staked(m) = 0
      BY <3>1 DEF NoMarket, Staked
    <3>3. QED
      BY <3>1, <3>2 DEF HeldFor, PoolOf
  <2>2. [m \in Markets |-> HeldFor(m)] = zeros /\ [m \in Markets |-> PoolOf(m)] = zeros
    BY <2>1
  <2>3. escrow = 0 /\ treasury = 0 /\ insurance = 0
    BY DEF Init
  <2>4. Books
    BY <1>5, <2>2, <2>3 DEF Books
  <2>5. QED
    BY <2>4, BooksAre
<1>7. ASSUME NEW m \in Markets
      PROVE  Sound(m)
  <2>1. /\ market[m] = NoMarket /\ prediction[m] = none /\ listed[m] = zero
        /\ dispute[m] = 0 /\ paid[m] = 0 /\ settled[m] = {} /\ dust[m] = 0 /\ anomaly[m] = {}
    BY DEF Init
  <2>2. /\ NoMarket.exists = FALSE /\ NoMarket.is_resolved = FALSE
        /\ NoMarket.total_pool = 0 /\ NoMarket.participant_count = 0
    BY DEF NoMarket
  <2>3. \A u \in Users : none[u].store = "none" /\ none[u] = NoPrediction
    BY <1>2 DEF NoPrediction
  <2>4. LiveStakes(none) = 0
    <3>1. [u \in Users |-> StakeIn(none[u])] = zero
      BY <2>3 DEF StakeIn
    <3>2. QED
      BY <1>5, <3>1 DEF LiveStakes
  <2> HIDE DEF none, zero
  <2>5. Timely(NoMarket, 0, {}, now)
    BY <2>2 DEF Timely
  <2>6. Listing(0, none, zero, {}, {})
    BY <1>2, <1>5, <2>3 DEF Listing
  <2>7. Staking(0, none)
    BY <2>3, <2>4 DEF Staking
  <2>8. Accounted(NoMarket, none, 0, {}, 0, {})
    BY <2>2, <2>3, <2>4 DEF Accounted
  <2>9. QED
    BY <2>1, <2>2, <2>5, <2>6, <2>7, <2>8 DEF Sound
<1>8. QED
  BY <1>4, <1>6, <1>7 DEF IInv

LEMMA LifeCycleStep ==
  ASSUME IInv, NEW m \in Markets, LifeCycle(m)
  PROVE  LocalStep(m)
BY CreateMarketStep, CloseMarketStep, UpdateCreatorFeeStep, ExtendMarketEndTimeStep,
   CancelMarketStep, ResolveMarketStep, SubmitResolutionWithStakeStep DEF LifeCycle

LEMMA TradingStep ==
  ASSUME IInv, NEW m \in Markets, Trading(m)
  PROVE  LocalStep(m)
<1>1. CASE \E u \in Users, o \in Outcomes, a \in Amounts : SubmitPrediction(m, u, o, a)
  BY <1>1, SubmitPredictionStep
<1>2. CASE \E u \in Committers, o \in Outcomes, a \in Amounts : CommitPrediction(m, u, o, a)
  <2>1. \E u \in Users, o \in Outcomes, a \in Amounts : CommitPrediction(m, u, o, a)
    BY <1>2
  <2>2. QED
    BY <2>1, CommitPredictionStep
<1>3. CASE \E u \in Users : RevealPrediction(m, u)
  BY <1>3, RevealPredictionStep
<1>4. CASE \E u, v \in Users, a \in Amounts : TransferPrediction(m, u, v, a)
  BY <1>4, TransferPredictionStep
<1>5. CASE \E u \in Users, a \in Amounts : WithdrawPosition(m, u, a)
  BY <1>5, WithdrawPositionStep
<1>6. QED
  BY <1>1, <1>2, <1>3, <1>4, <1>5 DEF Trading

LEMMA SettlementStep ==
  ASSUME IInv, NEW m \in Markets, Settlement(m)
  PROVE  LocalStep(m)
<1>1. CASE \E u \in Users : ClaimPayout(m, u)
  BY <1>1, ClaimPayoutStep
<1>2. CASE \E W \in SUBSET Users : BatchDistributePayouts(m, W)
  BY <1>2, BatchDistributePayoutsStep
<1>3. CASE \E u \in Users : ClaimCancelRefund(m, u)
  BY <1>3, ClaimCancelRefundStep
<1>4. CASE \E u \in Users : ExpireTombstone(m, u)
  BY <1>4, ExpireTombstoneStep
<1>5. CASE \E b \in DisputeBonds : RaiseDispute(m, b)
  BY <1>5, RaiseDisputeStep
<1>6. CASE UpholdDispute(m) \/ RejectDispute(m) \/ ClaimOracleStake(m)
  BY <1>6, UpholdDisputeStep, RejectDisputeStep, ClaimOracleStakeStep
<1>7. QED
  BY <1>1, <1>2, <1>3, <1>4, <1>5, <1>6 DEF Settlement

LEMMA NextInv ==
  ASSUME IInv, [Next]_vars
  PROVE  IInv' /\ \A m \in Markets : Frozen(m)
<1>1. CASE \E m \in Markets : LifeCycle(m) \/ Trading(m) \/ Settlement(m)
  <2>1. PICK m \in Markets : LifeCycle(m) \/ Trading(m) \/ Settlement(m)
    BY <1>1
  <2>2. LocalStep(m)
    BY <2>1, LifeCycleStep, TradingStep, SettlementStep
  <2>3. QED
    BY <2>2, LocalInv
<1>2. CASE \E u \in Users, r \in Requests : SubmitPredictionsBatch(u, r)
  BY <1>2, SubmitPredictionsBatchInv
<1>3. CASE Administration
  BY <1>3, AdministrationInv
<1>4. CASE UNCHANGED vars
  <2>1. TypeOK'
    BY <1>4 DEF IInv, TypeOK, vars
  <2>2. EscrowMatchesBooks'
    BY <1>4 DEF IInv, EscrowMatchesBooks, Held, Staked, vars
  <2>3. \A m \in Markets : Sound(m)'
    BY <1>4 DEF IInv, Sound, vars
  <2>4. \A m \in Markets : Frozen(m)
    BY <1>4 DEF Frozen, vars
  <2>5. QED
    BY <2>1, <2>2, <2>3, <2>4 DEF IInv
<1>5. QED
  BY <1>1, <1>2, <1>3, <1>4 DEF Next

LEMMA Invariance == Spec => []IInv
<1>1. Init => IInv
  BY InitInv
<1>2. IInv /\ [Next]_vars => IInv'
  BY NextInv
<1>3. QED
  BY <1>1, <1>2, PTL DEF Spec

-----------------------------------------------------------------------------
(* The theorems. *)

\* No entry point of market.rs, prediction.rs, escrow.rs or dispute.rs stores a
\* value outside its type, and the contract's balance, the treasury and the
\* insurance pool never go below zero.
THEOREM TypeCorrect == Spec => []TypeOK
<1>1. IInv => TypeOK
  BY DEF IInv
<1>2. QED
  BY <1>1, Invariance, PTL

\* escrow.rs: until the two fees of a payout exceed the payout, the one token
\* balance is to the unit what the books of all the markets, the treasury and
\* the insurance pool add up to, whatever calls are interleaved.
THEOREM EscrowIsExact == Spec => []EscrowMatchesBooks
<1>1. IInv => EscrowMatchesBooks
  BY DEF IInv
<1>2. QED
  BY <1>1, Invariance, PTL

\* prediction.rs: every path that stores, moves or retires a prediction keeps
\* PredictorList complete and participant_count equal to its length.
THEOREM ListIsComplete == Spec => []PredictorsListed
<1>1. IInv => PredictorsListed
  BY DEF IInv, Sound, Listing, PredictorsListed, HasPosition
<1>2. QED
  BY <1>1, Invariance, PTL

\* claim_payout, batch_distribute_payouts and claim_cancel_refund pay a user at
\* most once for a market: the tombstone, and after it the closed market, keep
\* him from holding a payable record again.
THEOREM PaidOnce == Spec => []NoSecondPayout
<1>1. IInv => NoSecondPayout
  <2> SUFFICES ASSUME IInv, NEW m \in Markets, NEW u \in settled[m]
               PROVE  ~HasPosition(m, u)
    BY DEF NoSecondPayout
  <2>1. Sound(m)
    BY DEF IInv
  <2>2. QED
    BY <2>1 DEF Sound, Listing, HasPosition
<1>2. QED
  BY <1>1, Invariance, PTL

\* Nobody joins or leaves the pool of a market that is resolved or cancelled or
\* has paid anybody, although submit_prediction and reveal_prediction do not
\* look at is_resolved.
THEOREM PoolIsFrozen == Spec => PoolFrozen
<1>1. IInv /\ [Next]_vars =>
        [\A m \in Markets :
           market[m].is_resolved \/ market[m].is_cancelled \/ settled[m] # {}
             => /\ market'[m].total_pool = market[m].total_pool
                /\ listed'[m] = listed[m]]_vars
  BY NextInv DEF Frozen
<1>2. QED
  BY <1>1, Invariance, PTL DEF Spec, PoolFrozen

\* What an undisturbed market paid and still owes is its pool, up to one unit
\* for each winner, for every number of winners, stakes and fee rates and for
\* every order of claims, batches, refunds and exits.
THEOREM PoolsArePaidOut == Spec => []PayoutsConserved
<1>1. IInv => PayoutsConserved
  BY MarketConserved DEF PayoutsConserved, Unharmed
<1>2. QED
  BY <1>1, Invariance, PTL

\* Each market owes no more than is left of its pool, and the books add up.
LEMMA Covered ==
  ASSUME IInv
  PROVE  EscrowSolvent
<1> SUFFICES ASSUME \A m \in Markets : anomaly[m] \subseteq {}
             PROVE  escrow >= Held + SumFunction([m \in Markets |-> Outstanding(m)])
  BY DEF EscrowSolvent, CoversDespite
<1> DEFINE owed == [m \in Markets |-> Outstanding(m)]
           left == [m \in Markets |-> PoolOf(m)]
           held == [m \in Markets |-> HeldFor(m)]
<1>1. \A m \in Markets : anomaly[m] = {}
  OBVIOUS
<1>2. \A m \in Markets : Outstanding(m) \in Int /\ Outstanding(m) <= PoolOf(m)
  BY <1>1, MarketConserved
<1>3. TypeOK /\ \A m \in Markets : HeldFor(m) \in Int /\ PoolOf(m) \in Int
  BY RowTypes, BookInt DEF IInv
<1>4. /\ owed \in [Markets -> Int] /\ left \in [Markets -> Int] /\ held \in [Markets -> Int]
      /\ \A m \in Markets : owed[m] <= left[m]
  BY <1>2, <1>3
<1>5. Books
  BY <1>1, BooksAre DEF IInv
<1>6. escrow = treasury + insurance + SumFunction(held) + SumFunction(left)
  BY <1>5 DEF Books
<1>7. Held = treasury + insurance + SumFunction(held)
  BY DEF Held, HeldFor
<1>8. treasury \in Int /\ insurance \in Int
  BY <1>3 DEF TypeOK
<1> HIDE DEF owed, left, held
<1>9. SumFunction(owed) <= SumFunction(left)
  BY <1>4, SumMonotone
<1>10. SumFunction(owed) \in Int /\ SumFunction(left) \in Int /\ SumFunction(held) \in Int
  BY <1>4, SumInt
<1>11. escrow >= Held + SumFunction(owed)
  BY <1>6, <1>7, <1>8, <1>9, <1>10
<1>12. QED
  BY <1>11 DEF owed

\* Without anomalies the one balance all markets share covers the treasury, the
\* insurance pool, every bond and oracle stake and every outstanding stake or
\* payout of all markets at once, so no claim, refund or withdrawal is refused
\* for want of tokens.
THEOREM EscrowCovers == Spec => []EscrowSolvent
<1>1. IInv => EscrowSolvent
  BY Covered
<1>2. QED
  BY <1>1, Invariance, PTL
=============================================================================
