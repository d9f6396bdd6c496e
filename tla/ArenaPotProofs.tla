--------------------------- MODULE ArenaPotProofs ---------------------------
(***************************************************************************)
(* Proofs about ArenaPot for any number of players, any stakes, rake,      *)
(* clock bounds and oracle feed.                                           *)
(***************************************************************************)
EXTENDS PotParity, SumLemmas, FiniteSetTheorems, TLAPS

-----------------------------------------------------------------------------
(* Arithmetic *)

LEMMA DivBounds ==
  ASSUME NEW a \in Nat, NEW b \in Nat \ {0}
  PROVE  /\ a \div b \in Nat
         /\ b * (a \div b) <= a
         /\ a < b * (a \div b) + b
BY SMT

\* Multiplication by a natural number is monotone.
LEMMA TimesMonotone ==
  ASSUME NEW a \in Nat, NEW b \in Nat, NEW c \in Nat, a <= b
  PROVE  c * a <= c * b
BY SMT

\* A common positive factor cancels in an inequality.
LEMMA TimesCancel ==
  ASSUME NEW a \in Int, NEW b \in Int, NEW c \in Nat \ {0}, a * c <= b * c
  PROVE  a <= b
BY SMT

\* A product strictly below the next multiple is at most this one.
LEMMA TimesCancelStrict ==
  ASSUME NEW a \in Int, NEW b \in Int, NEW c \in Nat \ {0}, c * a < c * (b + 1)
  PROVE  a <= b
BY SMT

\* A rake of at most 10 % takes no more than a tenth of what the losers staked (Decide).
LEMMA RakeBound ==
  ASSUME NEW losers \in Nat, NEW bps \in 0..1000
  PROVE  losers * bps \in Nat /\ losers * bps <= 1000 * losers
BY SMT

\* The floor of a winner's share leaves the shares of the other winners covered.
\* W: all winning stakes, D: what they share, live: winning stakes still open,
\* s: the stake being claimed, x: what was shared out before.
LEMMA ShareFits ==
  ASSUME NEW W \in Nat \ {0}, NEW D \in Nat, NEW s \in Nat, NEW live \in Nat,
         NEW x \in Nat, s <= live, live <= W, x * W <= D * (W - live)
  PROVE  /\ (D * s) \div W \in Nat
         /\ x + (D * s) \div W <= D
         /\ (x + (D * s) \div W) * W <= D * (W - (live - s))
<1> DEFINE q == (D * s) \div W
<1>1. D * s \in Nat
  BY SMT
<1>2. q \in Nat /\ W * q <= D * s
  BY <1>1, DivBounds
<1> HIDE DEF q
<1>3. (x + q) * W = x * W + W * q
  BY <1>2
<1>4. D * (W - (live - s)) = D * (W - live) + D * s
  BY SMT
<1>5. (x + q) * W <= D * (W - (live - s))
  BY <1>2, <1>3, <1>4, <1>1
<1>6. D * (W - (live - s)) <= D * W
  BY SMT
<1>7. x + q <= D
  BY <1>2, <1>5, <1>6
<1> QED BY <1>2, <1>5, <1>7 DEF q

\* Each floored share loses less than one unit: the dust of k shares stays below
\* k units.  A: shared out so far, q: the share being paid.
LEMMA DustGrows ==
  ASSUME NEW W \in Nat \ {0}, NEW D \in Nat, NEW live \in Nat, NEW s \in Nat, NEW A \in Nat,
         NEW q \in Nat, NEW k \in Nat, live <= W, s <= live,
         D * (W - live) <= A * W + k * (W - 1), D * s <= q * W + (W - 1)
  PROVE  D * (W - (live - s)) <= (A + q) * W + (k + 1) * (W - 1)
<1>1. D * (W - (live - s)) = D * (W - live) + D * s
  BY SMT
<1>2. (A + q) * W = A * W + q * W
  BY SMT
<1>3. (k + 1) * (W - 1) = k * (W - 1) + (W - 1)
  BY SMT
<1> DEFINE a == D * (W - live)
           b == D * s
           c == A * W
           d == q * W
           e == k * (W - 1)
<1>4. a \in Int /\ b \in Int /\ c \in Int /\ d \in Int /\ e \in Int
  BY SMT
<1>5. a <= c + e /\ b <= d + (W - 1)
  OBVIOUS
<1> HIDE DEF a, b, c, d, e
<1>6. a + b <= (c + d) + (e + (W - 1))
  BY <1>4, <1>5
<1> QED BY <1>1, <1>2, <1>3, <1>6 DEF a, b, c, d, e

\* Dust below n units: what is shared out falls short of D by less than n.
LEMMA DustBelow ==
  ASSUME NEW W \in Nat \ {0}, NEW D \in Nat, NEW A \in Nat, NEW k \in Nat, NEW n \in Nat \ {0},
         k <= n, D * W <= A * W + k * (W - 1)
  PROVE  D - A < n
<1>1. k * (W - 1) <= n * (W - 1)
  <2>1. (W - 1) * k <= (W - 1) * n
    BY TimesMonotone
  <2> QED BY <2>1
<1>2. n * (W - 1) = n * W - n
  BY SMT
<1>3. W * (D - A) = D * W - A * W /\ W * ((n - 1) + 1) = n * W
  BY SMT
<1> DEFINE a == D * W
           b == A * W
           c == k * (W - 1)
           d == n * W
<1>4. a \in Int /\ b \in Int /\ c \in Int /\ d \in Int
  BY SMT
<1>5. a <= b + c /\ c <= d - n
  BY <1>1, <1>2
<1> HIDE DEF a, b, c, d
<1>6. a - b < d
  BY <1>4, <1>5
<1>7. W * (D - A) < W * ((n - 1) + 1)
  BY <1>3, <1>6 DEF a, b, d
<1>8. D - A <= n - 1
  BY <1>7, TimesCancelStrict
<1> QED BY <1>8

-----------------------------------------------------------------------------
(* The inductive invariant *)

(* the stakes of the positions on the winning bucket that are still open *)
WinningStake == [p \in Player |-> IF bucket[p] = winningBucket THEN stake[p] ELSE 0]
Live == SumTo(WinningStake, N)

(* what settling set aside for the house, and what winners have been paid   *)
(* beyond their own stakes                                                  *)
InitialRake == totalStake - winnersStake - distributable
SharePaid == paidOut - (InitialRake - rake) - (winnersStake - Live)

Supply == SumTo(wallet, N) + vault + treasury = N * InitialBalance + gifted

Undecided ==
  status \notin Final =>
    /\ winnersStake = 0 /\ distributable = 0 /\ rake = 0 /\ paidOut = 0
    /\ \A b \in Bucket : bucketTotals[b] = StakeIn(b)
    /\ totalStake = bucketTotals[0] + bucketTotals[1] + bucketTotals[2]
    /\ totalStake = SumTo(stake, N)
    /\ participants = Cardinality({p \in Player : stake[p] > 0})

StakesIntact ==
  status # "SETTLED" => \A p \in Player : wallet[p] + stake[p] = InitialBalance

VoidShape ==
  status = "VOID" => rake = 0 /\ vault = gifted + SumTo(stake, N)

SettledShape ==
  status = "SETTLED" =>
    /\ winnersStake > 0 /\ Live <= winnersStake
    /\ InitialRake >= 0 /\ rake \in {0, InitialRake}
    /\ SharePaid >= 0
    /\ SharePaid * winnersStake <= distributable * (winnersStake - Live)

PublishedInPast == \A b \in published : b.ts \div MsPerSec <= now

IInv ==
  /\ TypeOK /\ VaultReconciles /\ Supply /\ Undecided /\ StakesIntact
  /\ VoidShape /\ SettledShape /\ WinnersWhole /\ PublishedInPast

\* What the assumptions say of the constants, in one place.
LEMMA ConstantsTyped ==
  /\ N \in Nat /\ InitialBalance \in Nat /\ U64 \in Nat /\ MaxGift \in Nat
  /\ MsPerSec \in Nat \ {0} /\ RakeBps \in 0..1000
  /\ N * InitialBalance \in Nat /\ N * InitialBalance + MaxGift < U64
BY PlayerAssumption, SupplyAssumption, TimeAssumption, ConfigAssumption

\* The initial state satisfies the invariant.
LEMMA InitIInv == Init => IInv
<1> SUFFICES ASSUME Init PROVE IInv
  OBVIOUS
<1> USE DEF Init
<1>1. TypeOK
  BY ConstantsTyped DEF TypeOK, Player, Bucket, Status
<1>2. VaultReconciles
  BY DEF VaultReconciles
<1>3. Supply
  <2>1. SumTo(wallet, N) = N * InitialBalance
    <3>1. /\ N \in Nat /\ InitialBalance \in Int /\ wallet \in [1..N -> Int]
          /\ \A k \in 1..N : wallet[k] = InitialBalance
      BY ConstantsTyped DEF Player
    <3> QED BY ONLY <3>1, SumOfConstant
  <2> QED BY <2>1, ConstantsTyped DEF Supply
<1>4. Undecided
  <2>1. \A b \in Bucket : StakeIn(b) = 0
    <3> SUFFICES ASSUME NEW b \in Bucket PROVE StakeIn(b) = 0
      OBVIOUS
    <3> DEFINE f == [p \in Player |-> IF bucket[p] = b THEN stake[p] ELSE 0]
    <3>1. f \in [1..N -> Int] /\ \A k \in 1..N : f[k] = 0
      BY DEF Player
    <3> HIDE DEF f
    <3>2. SumTo(f, N) = 0
      BY <3>1, ConstantsTyped, SumOfZeros
    <3> QED BY <3>2 DEF f, StakeIn
  <2>2. SumTo(stake, N) = 0
    BY ConstantsTyped, SumOfZeros DEF Player
  <2>3. {p \in Player : stake[p] > 0} = {}
    BY DEF Player
  <2> QED BY <2>1, <2>2, <2>3, FS_EmptySet DEF Undecided, Bucket, Final
<1>5. StakesIntact
  BY ConstantsTyped DEF StakesIntact, Player
<1>6. VoidShape /\ SettledShape /\ WinnersWhole /\ PublishedInPast
  BY DEF VoidShape, SettledShape, WinnersWhole, Won, PublishedInPast
<1> QED BY <1>1, <1>2, <1>3, <1>4, <1>5, <1>6 DEF IInv

\* A stuttering step preserves it.
LEMMA StutterStep == ASSUME IInv, UNCHANGED vars PROVE IInv'
BY DEF IInv, TypeOK, VaultReconciles, Supply, Undecided, StakesIntact, VoidShape,
       SettledShape, WinnersWhole, PublishedInPast, vars, potVars, resultVars,
       positionVars, moneyVars, StakeIn, Live, WinningStake, InitialRake, SharePaid,
       Owed, Won, WinnerPayout, Final

\* create_pot preserves it: nothing has been staked yet.
LEMMA CreatePotStep ==
  ASSUME IInv, NEW k \in Kickoffs, CreatePot(k) PROVE IInv'
<1> USE DEF CreatePot, resultVars, positionVars, moneyVars
<1>1. TypeOK'
  BY TimeAssumption DEF IInv, TypeOK, Status
<1>2. VaultReconciles' /\ Supply' /\ StakesIntact'
  BY DEF IInv, VaultReconciles, Supply, StakesIntact
<1>3. Undecided'
  BY DEF IInv, Undecided, Final, StakeIn
<1>4. VoidShape' /\ SettledShape' /\ WinnersWhole' /\ PublishedInPast'
  BY DEF IInv, VoidShape, SettledShape, WinnersWhole, Won, PublishedInPast
<1> QED BY <1>1, <1>2, <1>3, <1>4 DEF IInv

\* create_market_spec preserves it: no clause mentions the spec but TypeOK.
LEMMA CreateMarketSpecStep ==
  ASSUME IInv, NEW s \in Specs, CreateMarketSpec(s) PROVE IInv'
<1> USE DEF CreateMarketSpec, SpecAllowed, potVars, positionVars, moneyVars
<1>1. TypeOK'
  BY DEF IInv, TypeOK
<1>2. VaultReconciles' /\ Supply' /\ StakesIntact'
  BY DEF IInv, VaultReconciles, Supply, StakesIntact
<1>3. Undecided'
  BY DEF IInv, Undecided, Final, StakeIn
<1>4. VoidShape' /\ SettledShape' /\ WinnersWhole' /\ PublishedInPast'
  BY DEF IInv, VoidShape, SettledShape, WinnersWhole, Won, PublishedInPast
<1> QED BY <1>1, <1>2, <1>3, <1>4 DEF IInv

\* lock_pot preserves it: LOCKED is as undecided as OPEN.
LEMMA LockPotStep ==
  ASSUME IInv, LockPot PROVE IInv'
<1> USE DEF LockPot, resultVars, positionVars, moneyVars
<1>1. TypeOK'
  BY DEF IInv, TypeOK, Status
<1>2. VaultReconciles' /\ Supply' /\ StakesIntact'
  BY DEF IInv, VaultReconciles, Supply, StakesIntact
<1>3. Undecided'
  BY DEF IInv, Undecided, Final, StakeIn
<1>4. VoidShape' /\ SettledShape' /\ WinnersWhole' /\ PublishedInPast'
  BY DEF IInv, VoidShape, SettledShape, WinnersWhole, Won, PublishedInPast
<1> QED BY <1>1, <1>2, <1>3, <1>4 DEF IInv

\* Publishing a batch preserves it: a batch is never ahead of the clock.
LEMMA PublishStep ==
  ASSUME IInv, NEW b \in Feed, Publish(b) PROVE IInv'
<1> USE DEF Publish, potVars, positionVars, moneyVars
<1>1. TypeOK'
  BY DEF IInv, TypeOK
<1>2. VaultReconciles' /\ Supply' /\ StakesIntact'
  BY DEF IInv, VaultReconciles, Supply, StakesIntact
<1>3. Undecided' /\ VoidShape'
  BY DEF IInv, Undecided, Final, StakeIn, VoidShape
<1>4. SettledShape' /\ WinnersWhole'
  BY DEF IInv, SettledShape, WinnersWhole, Live, WinningStake, InitialRake, SharePaid,
         Owed, Won, WinnerPayout
<1>5. b.ts \div MsPerSec <= now
  <2>1. now \in Nat /\ b.ts \in Nat /\ MsPerSec \in Nat \ {0}
    BY FeedAssumption, TimeAssumption DEF IInv, TypeOK
  <2>2. b.ts <= now * MsPerSec + (MsPerSec - 1)
    OBVIOUS
  <2>3. b.ts \div MsPerSec \in Nat /\ MsPerSec * (b.ts \div MsPerSec) <= b.ts
    BY <2>1, DivBounds
  <2>4. MsPerSec * (b.ts \div MsPerSec) < MsPerSec * (now + 1)
    BY <2>1, <2>2, <2>3
  <2> HIDE DEF Publish
  <2> QED BY <2>1, <2>3, <2>4, TimesCancelStrict
<1>6. PublishedInPast'
  BY <1>5 DEF IInv, PublishedInPast
<1> QED BY <1>1, <1>2, <1>3, <1>4, <1>6 DEF IInv

\* The clock preserves it.
LEMMA TickStep ==
  ASSUME IInv, Tick PROVE IInv'
<1> USE DEF Tick, potVars, positionVars, moneyVars
<1>1. TypeOK'
  BY DEF IInv, TypeOK
<1>2. VaultReconciles' /\ Supply' /\ StakesIntact'
  BY DEF IInv, VaultReconciles, Supply, StakesIntact
<1>3. Undecided' /\ VoidShape'
  BY DEF IInv, Undecided, Final, StakeIn, VoidShape
<1>4. SettledShape' /\ WinnersWhole'
  BY DEF IInv, SettledShape, WinnersWhole, Live, WinningStake, InitialRake, SharePaid,
         Owed, Won, WinnerPayout
<1>5. PublishedInPast'
  <2> SUFFICES ASSUME NEW b \in published PROVE b.ts \div MsPerSec <= now + 1
    BY DEF PublishedInPast
  <2>1. b \in Feed /\ now \in Nat
    BY DEF IInv, TypeOK
  <2>2. b.ts \div MsPerSec \in Nat
    BY <2>1, FeedAssumption, TimeAssumption, DivBounds
  <2> QED BY <2>1, <2>2 DEF IInv, PublishedInPast
<1> QED BY <1>1, <1>2, <1>3, <1>4, <1>5 DEF IInv

\* Amounts per player, seen as a summand of SumTo.
LEMMA NatToInt == ASSUME NEW f \in [Player -> Nat] PROVE f \in [1..N -> Int]
BY DEF Player

(* Every balance fits in a u64 because the whole supply does. *)
LEMMA BalancesFit ==
  ASSUME NEW w \in [Player -> Nat], NEW v \in Nat, NEW t \in Nat, NEW g \in 0..MaxGift,
         SumTo(w, N) + v + t = N * InitialBalance + g
  PROVE  /\ v \in 0..U64-1 /\ t \in 0..U64-1
         /\ w \in [Player -> 0..U64-1]
<1> DEFINE total == SumTo(w, N)
           supply == N * InitialBalance
<1>1. total \in Nat /\ \A p \in Player : w[p] <= total
  BY ConstantsTyped, SumGeqElement DEF Player
<1>2. supply \in Nat /\ supply + MaxGift < U64 /\ U64 \in Nat /\ MaxGift \in Nat
  BY ConstantsTyped
<1>3. total + v + t = supply + g
  OBVIOUS
<1> HIDE DEF total, supply
<1>4. v < U64 /\ t < U64 /\ total < U64
  BY <1>1, <1>2, <1>3
<1>5. ASSUME NEW p \in Player PROVE w[p] \in 0..U64-1
  BY <1>1, <1>2, <1>4
<1>6. v \in 0..U64-1 /\ t \in 0..U64-1
  BY <1>2, <1>4
<1> QED BY <1>5, <1>6

\* Sets of players are finite, and no larger than N.
LEMMA PlayersFinite ==
  ASSUME NEW S, S \subseteq Player
  PROVE  IsFiniteSet(S) /\ Cardinality(S) \in 0..N
<1>1. IsFiniteSet(Player) /\ Cardinality(Player) = N
  BY FS_Interval, ConstantsTyped DEF Player
<1>2. IsFiniteSet(S) /\ Cardinality(S) <= N
  BY <1>1, FS_Subset
<1>3. Cardinality(S) \in Nat
  BY <1>2, FS_CardinalityType
<1> QED BY <1>2, <1>3, ConstantsTyped

\* place_call preserves it: the three counters move with the position.
LEMMA PlaceCallStep ==
  ASSUME IInv, NEW p \in Player, NEW b \in Bucket, NEW a \in Amounts, PlaceCall(p, b, a)
  PROVE  IInv'
<1>1. /\ a \in Nat \ {0} /\ now \in Nat /\ kickoff \in Nat /\ participants \in 0..N
      /\ bucketTotals \in [Bucket -> Nat] /\ totalStake \in Nat /\ paidOut \in Nat
      /\ stake \in [Player -> Nat] /\ bucket \in [Player -> Bucket]
      /\ vault \in Nat /\ treasury \in 0..U64-1 /\ wallet \in [Player -> Nat]
      /\ gifted \in 0..MaxGift /\ U64 \in Nat /\ N \in Nat
  BY PlayerAssumption, ConstantsTyped DEF IInv, TypeOK
<1>2. /\ status = "OPEN" /\ status' = "OPEN" /\ status \notin Final /\ status' \notin Final
      /\ wallet[p] >= a /\ (stake[p] = 0 \/ bucket[p] = b)
      /\ stake[p] + a < U64 /\ bucketTotals[b] + a < U64 /\ totalStake + a < U64
  BY DEF Final, PlaceCall, CallsOpen, Fresh, SameBucket, StakeAfter
<1>3. /\ wallet' = [wallet EXCEPT ![p] = wallet[p] - a]
      /\ stake' = [stake EXCEPT ![p] = stake[p] + a]
      /\ bucket' = [bucket EXCEPT ![p] = b]
      /\ bucketTotals' = [bucketTotals EXCEPT ![b] = bucketTotals[b] + a]
      /\ vault' = vault + a /\ totalStake' = totalStake + a
      /\ participants' = IF stake[p] = 0 THEN participants + 1 ELSE participants
  BY DEF PlaceCall, Fresh, StakeAfter
<1>4. /\ now' = now /\ kickoff' = kickoff /\ paidOut' = paidOut /\ spec' = spec
      /\ treasury' = treasury /\ gifted' = gifted /\ published' = published
      /\ winningBucket' = winningBucket /\ winnersStake' = winnersStake
      /\ distributable' = distributable /\ rake' = rake
  BY DEF PlaceCall, resultVars
<1>5. /\ wallet' \in [Player -> Nat] /\ stake' \in [Player -> Nat]
      /\ bucket' \in [Player -> Bucket]
  BY <1>1, <1>2, <1>3
<1>6. /\ wallet \in [1..N -> Int] /\ wallet' \in [1..N -> Int]
      /\ stake \in [1..N -> Int] /\ stake' \in [1..N -> Int] /\ p \in 1..N
  BY <1>1, <1>5, NatToInt DEF Player
<1>7. Supply'
  <2>1. \A k \in 1..N : k # p => wallet'[k] = wallet[k]
    BY <1>1, <1>3 DEF Player
  <2>6. /\ N \in Nat /\ p \in 1..N /\ wallet \in [1..N -> Int] /\ wallet' \in [1..N -> Int]
    BY <1>1, <1>6
  <2>2. SumTo(wallet', N) = SumTo(wallet, N) + (wallet'[p] - wallet[p])
    BY ONLY <2>6, <2>1, SumUpdate
  <2>3. SumTo(wallet, N) \in Int
    BY ONLY <2>6, SumType
  <2>4. wallet'[p] = wallet[p] - a /\ wallet[p] \in Nat
    BY <1>1, <1>3
  <2>5. N * InitialBalance \in Nat
    BY ConstantsTyped
  <2> QED BY <1>1, <1>3, <1>4, <2>2, <2>3, <2>4, <2>5 DEF IInv, Supply
<1>8. Undecided'
  <2>1. /\ winnersStake' = 0 /\ distributable' = 0 /\ rake' = 0 /\ paidOut' = 0
    BY <1>2, <1>4 DEF IInv, Undecided
  <2>2. ASSUME NEW c \in Bucket PROVE bucketTotals'[c] = StakeIn(c)'
    <3> DEFINE f == [q \in Player |-> IF bucket[q] = c THEN stake[q] ELSE 0]
               g == [q \in Player |-> IF bucket'[q] = c THEN stake'[q] ELSE 0]
    <3>1. f \in [1..N -> Int] /\ g \in [1..N -> Int]
      BY <1>6 DEF Player
    <3>2. \A k \in 1..N : k # p => g[k] = f[k]
      BY <1>1, <1>3 DEF Player
    <3>3. g[p] - f[p] = IF c = b THEN a ELSE 0
      <4>1. g[p] = IF b = c THEN stake[p] + a ELSE 0
        BY <1>1, <1>3
      <4>2. f[p] = IF bucket[p] = c THEN stake[p] ELSE 0
        OBVIOUS
      <4>3. stake[p] \in Nat
        BY <1>1
      <4> HIDE DEF f, g
      <4> QED BY <1>1, <1>2, <4>1, <4>2, <4>3
    <3> HIDE DEF f, g
    <3>9. N \in Nat /\ p \in 1..N
      BY <1>1, <1>6
    <3>4. SumTo(g, N) = SumTo(f, N) + (g[p] - f[p])
      BY ONLY <3>9, <3>1, <3>2, SumUpdate
    <3>5. SumTo(f, N) = bucketTotals[c]
      BY <1>2 DEF IInv, Undecided, StakeIn, f
    <3>6. bucketTotals'[c] = IF c = b THEN bucketTotals[c] + a ELSE bucketTotals[c]
      BY <1>1, <1>3
    <3>7. StakeIn(c)' = SumTo(g, N)
      BY DEF StakeIn, g
    <3>8. bucketTotals[c] \in Nat
      BY <1>1
    <3> QED BY <1>1, <3>3, <3>4, <3>5, <3>6, <3>7, <3>8
  <2>3. totalStake' = bucketTotals'[0] + bucketTotals'[1] + bucketTotals'[2]
    <3>1. totalStake = bucketTotals[0] + bucketTotals[1] + bucketTotals[2]
      BY <1>2 DEF IInv, Undecided
    <3> QED BY <1>1, <1>3, <3>1 DEF Bucket
  <2>4. totalStake' = SumTo(stake', N)
    <3>1. \A k \in 1..N : k # p => stake'[k] = stake[k]
      BY <1>1, <1>3 DEF Player
    <3>5. /\ N \in Nat /\ p \in 1..N /\ stake \in [1..N -> Int] /\ stake' \in [1..N -> Int]
      BY <1>1, <1>6
    <3>2. SumTo(stake', N) = SumTo(stake, N) + (stake'[p] - stake[p])
      BY ONLY <3>5, <3>1, SumUpdate
    <3>3. stake'[p] = stake[p] + a /\ stake[p] \in Nat
      BY <1>1, <1>3
    <3>4. totalStake = SumTo(stake, N)
      BY <1>2 DEF IInv, Undecided
    <3> QED BY <1>1, <1>3, <3>2, <3>3, <3>4
  <2>5. participants' = Cardinality({q \in Player : stake'[q] > 0})
    <3> DEFINE S == {q \in Player : stake[q] > 0}
               R == {q \in Player : stake'[q] > 0}
    <3>1. R = S \cup {p}
      BY <1>1, <1>3
    <3>2. IsFiniteSet(S)
      BY PlayersFinite
    <3>3. Cardinality(S \cup {p}) = IF p \in S THEN Cardinality(S) ELSE Cardinality(S) + 1
      BY <3>2, FS_AddElement
    <3>4. participants = Cardinality(S)
      BY <1>2 DEF IInv, Undecided
    <3>5. p \in S <=> stake[p] # 0
      BY <1>1
    <3> HIDE DEF S, R
    <3>6. Cardinality(R) = participants'
      BY <1>3, <3>1, <3>3, <3>4, <3>5
    <3> QED BY <3>6 DEF R
  <2> QED BY <2>1, <2>2, <2>3, <2>4, <2>5 DEF Undecided
<1>9. TypeOK'
  <2>1. vault' \in 0..U64-1 /\ wallet' \in [Player -> 0..U64-1]
    <3>1. SumTo(wallet', N) + vault' + treasury = N * InitialBalance + gifted
      BY <1>4, <1>7 DEF Supply
    <3>2. vault' \in Nat /\ treasury \in Nat
      BY <1>1, <1>3
    <3> QED BY <1>1, <1>5, <3>1, <3>2, BalancesFit
  <2>2. participants' \in 0..N
    <3>1. participants' = Cardinality({q \in Player : stake'[q] > 0})
      BY <1>2, <1>8 DEF Undecided
    <3> QED BY <3>1, PlayersFinite
  <2>3. stake' \in [Player -> 0..U64-1]
    BY <1>1, <1>2, <1>3 DEF IInv, TypeOK
  <2>4. bucketTotals' \in [Bucket -> 0..U64-1] /\ totalStake' \in 0..U64-1
    BY <1>1, <1>2, <1>3 DEF IInv, TypeOK
  <2> QED BY <1>2, <1>4, <1>5, <2>1, <2>2, <2>3, <2>4 DEF IInv, TypeOK
<1>10. VaultReconciles'
  BY <1>1, <1>3, <1>4 DEF IInv, VaultReconciles
<1>11. StakesIntact'
  <2> SUFFICES ASSUME NEW q \in Player PROVE wallet'[q] + stake'[q] = InitialBalance
    BY DEF StakesIntact
  <2>1. wallet[q] + stake[q] = InitialBalance /\ wallet[q] \in Nat /\ stake[q] \in Nat
    BY <1>1, <1>2 DEF IInv, StakesIntact
  <2> QED BY <1>1, <1>3, <2>1
<1>12. VoidShape' /\ SettledShape' /\ WinnersWhole' /\ PublishedInPast'
  BY <1>2, <1>4 DEF IInv, VoidShape, SettledShape, WinnersWhole, Won, PublishedInPast
<1> QED BY <1>7, <1>8, <1>9, <1>10, <1>11, <1>12 DEF IInv

(* What every instruction that decides the pot leaves alone. *)
Kept == UNCHANGED <<now, kickoff, participants, bucketTotals, totalStake, paidOut, spec,
                    positionVars, moneyVars, published>>

\* Voiding a locked pot preserves it: the vault still holds every stake.
LEMMA VoidItStep ==
  ASSUME IInv, status = "LOCKED", VoidIt, Kept PROVE IInv'
<1> USE DEF VoidIt, Kept, resultVars, positionVars, moneyVars
<1>1. TypeOK'
  BY DEF IInv, TypeOK, Status
<1>2. VaultReconciles' /\ Supply' /\ StakesIntact' /\ Undecided'
  BY DEF IInv, VaultReconciles, Supply, StakesIntact, Undecided, Final
<1>3. VoidShape'
  <2>1. rake = 0 /\ paidOut = 0 /\ totalStake = SumTo(stake, N)
    BY DEF IInv, Undecided, Final
  <2>2. vault \in Nat /\ totalStake \in Nat /\ gifted \in Nat
    BY ConstantsTyped DEF IInv, TypeOK
  <2>3. vault = totalStake + gifted
    BY <2>1, <2>2 DEF IInv, VaultReconciles
  <2>4. vault = gifted + SumTo(stake, N)
    BY <2>1, <2>2, <2>3
  <2> QED BY <2>1, <2>4 DEF VoidShape
<1>4. SettledShape' /\ WinnersWhole' /\ PublishedInPast'
  BY DEF IInv, SettledShape, WinnersWhole, Won, PublishedInPast
<1> QED BY <1>1, <1>2, <1>3, <1>4 DEF IInv

\* The common tail of the settle handlers preserves it: rake, winning stakes and
\* what winners share add up to the total.
LEMMA DecideStep ==
  ASSUME IInv, status = "LOCKED", NEW w \in Bucket, Decide(w), Kept PROVE IInv'
<1>1. CASE bucketTotals[w] = 0
  BY <1>1, VoidItStep DEF Decide
<1>2. CASE bucketTotals[w] # 0
  <2>1. /\ status' = "SETTLED" /\ winningBucket' = w /\ winnersStake' = bucketTotals[w]
        /\ rake' = (Losers(w) * RakeBps) \div 10000 /\ distributable' = Losers(w) - rake'
    BY <1>2 DEF Decide, BpsDenom
  <2>2. /\ now' = now /\ kickoff' = kickoff /\ participants' = participants
        /\ bucketTotals' = bucketTotals /\ totalStake' = totalStake /\ paidOut' = paidOut
        /\ spec' = spec /\ stake' = stake /\ bucket' = bucket /\ vault' = vault
        /\ wallet' = wallet /\ treasury' = treasury /\ gifted' = gifted
        /\ published' = published
    BY DEF Kept, positionVars, moneyVars
  <2>3. /\ bucketTotals \in [Bucket -> 0..U64-1] /\ totalStake \in 0..U64-1
        /\ U64 \in Nat /\ N \in Nat /\ RakeBps \in 0..1000
        /\ stake \in [Player -> Nat] /\ bucket \in [Player -> Bucket]
        /\ wallet \in [Player -> Nat]
    BY ConstantsTyped DEF IInv, TypeOK
  <2>4. /\ winnersStake = 0 /\ distributable = 0 /\ rake = 0 /\ paidOut = 0
        /\ bucketTotals[w] = StakeIn(w)
        /\ totalStake = bucketTotals[0] + bucketTotals[1] + bucketTotals[2]
    BY DEF IInv, Undecided, Final
  <2>5. /\ bucketTotals[w] \in Nat \ {0} /\ bucketTotals[w] \in 0..U64-1
        /\ Losers(w) \in Nat /\ Losers(w) = totalStake - bucketTotals[w]
    <3>1. /\ bucketTotals[0] \in Nat /\ bucketTotals[1] \in Nat /\ bucketTotals[2] \in Nat
          /\ w \in {0, 1, 2}
      BY <2>3 DEF Bucket
    <3>2. bucketTotals[w] \in 0..U64-1
      BY <2>3
    <3>3. totalStake - bucketTotals[w] \in Nat
      BY <2>3, <2>4, <3>1
    <3> QED BY <1>2, <2>3, <3>2, <3>3 DEF Losers
  <2> DEFINE W == bucketTotals[w]
             pool == Losers(w)
             product == pool * RakeBps
             r == product \div 10000
             D == pool - r
  <2>6. winnersStake' = W /\ rake' = r /\ distributable' = D
    BY <2>1
  <2>7. /\ W \in Nat \ {0} /\ W <= U64 - 1 /\ r \in Nat /\ D \in Nat /\ D <= U64 - 1
        /\ r <= U64 - 1 /\ totalStake - W - D = r
    <3>1. /\ pool \in Nat /\ RakeBps \in 0..1000 /\ product = pool * RakeBps
          /\ pool = totalStake - W /\ totalStake \in 0..U64-1 /\ U64 \in Nat
          /\ W \in Nat \ {0} /\ W <= U64 - 1
      BY <2>3, <2>5
    <3>2. r \in 0..pool
      <4> HIDE DEF pool, product
      <4>1. pool \in Nat /\ RakeBps \in 0..1000 /\ product = pool * RakeBps
        BY <3>1
      <4>2. pool * RakeBps \in Nat /\ pool * RakeBps <= 1000 * pool
        BY ONLY <4>1, RakeBound
      <4>3. pool \in Nat /\ product \in Nat /\ product <= 1000 * pool
        BY ONLY <4>1, <4>2
      <4>4. product \div 10000 \in 0..pool
        BY ONLY <4>3
      <4> QED BY <4>4
    <3>3. D = pool - r
      OBVIOUS
    <3> HIDE DEF pool, product, W, r, D
    <3> QED BY ONLY <3>1, <3>2, <3>3
  <2> HIDE DEF W, pool, product, r, D
  <2>8. TypeOK'
    <3>1. W \in 0..U64-1 /\ r \in 0..U64-1 /\ D \in 0..U64-1
      BY <2>3, <2>7
    <3> QED BY <2>1, <2>2, <2>6, <3>1 DEF IInv, TypeOK, Status
  <2>9. VaultReconciles' /\ Supply' /\ StakesIntact' /\ Undecided' /\ VoidShape'
        /\ PublishedInPast'
    BY <2>1, <2>2 DEF IInv, VaultReconciles, Supply, StakesIntact, Undecided, Final,
                      VoidShape, PublishedInPast
  <2>10. Live' = W
    BY <2>1, <2>2, <2>4 DEF Live, WinningStake, StakeIn, W
  <2>11. SettledShape'
    <3>1. InitialRake' = r
      BY <2>2, <2>6, <2>7 DEF InitialRake
    <3>2. SharePaid' = 0 - (r - r) - (W - W)
      BY <2>2, <2>4, <2>6, <2>10, <3>1 DEF SharePaid
    <3>3. W > 0 /\ W <= W /\ r >= 0 /\ W - W = 0 /\ 0 - (r - r) - (W - W) = 0
      BY <2>7
    <3>4. 0 * W <= D * 0
      BY <2>7
    <3> QED BY <2>6, <2>10, <3>1, <3>2, <3>3, <3>4 DEF SettledShape
  <2>12. WinnersWhole'
    <3> SUFFICES ASSUME NEW p \in Player
                 PROVE  wallet[p] + (stake[p] + (D * stake[p]) \div W) >= InitialBalance
      BY <2>1, <2>2, <2>6 DEF WinnersWhole, Won, Owed, WinnerPayout
    <3>1. wallet[p] + stake[p] = InitialBalance /\ wallet[p] \in Nat /\ stake[p] \in Nat
      BY <2>3 DEF IInv, StakesIntact
    <3>2. D * stake[p] \in Nat
      BY <2>7, <3>1
    <3>3. (D * stake[p]) \div W \in Nat
      BY <2>7, <3>2, DivBounds
    <3> QED BY <3>1, <3>3
  <2> QED BY <2>8, <2>9, <2>11, <2>12 DEF IInv
<1> QED BY <1>1, <1>2

\* settle_pot preserves it.
LEMMA SettlePotStep ==
  ASSUME IInv, NEW w \in Bucket, NEW b \in Feed, NEW x, NEW y, SettlePot(w, b, x, y)
  PROVE  IInv'
<1>1. status = "LOCKED" /\ Kept
  BY DEF SettlePot, Kept
<1>2. VoidIt \/ Decide(w)
  BY DEF SettlePot
<1> QED BY <1>1, <1>2, VoidItStep, DecideStep

\* settle_market preserves it.
LEMMA SettleMarketStep ==
  ASSUME IInv, NEW w \in Bucket, NEW b \in Feed, SettleMarket(w, b)
  PROVE  IInv'
<1>1. status = "LOCKED" /\ Kept
  BY DEF SettleMarket, Kept
<1>2. VoidIt \/ Decide(w)
  BY DEF SettleMarket
<1> QED BY <1>1, <1>2, VoidItStep, DecideStep

\* void_pot preserves it.
LEMMA VoidPotStep ==
  ASSUME IInv, NEW isAdmin \in BOOLEAN, VoidPot(isAdmin) PROVE IInv'
<1>1. status = "LOCKED" /\ VoidIt /\ Kept
  BY DEF VoidPot, MayVoid, Kept
<1> QED BY <1>1, VoidItStep

(* In a settled pot: where the vault's money is, and what one winner's claim *)
(* takes out of it.                                                          *)
LEMMA SettledVault ==
  ASSUME IInv, status = "SETTLED"
  PROVE  /\ winnersStake \in Nat \ {0} /\ distributable \in Nat /\ rake \in Nat
         /\ Live \in Nat /\ Live <= winnersStake /\ SharePaid \in Nat
         /\ SharePaid <= distributable
         /\ SharePaid * winnersStake <= distributable * (winnersStake - Live)
         /\ vault = gifted + rake + Live + (distributable - SharePaid)
         /\ Outstanding = Live + (distributable - SharePaid) - (InitialRake - rake)
         /\ \A p \in Player : WinningStake[p] \in Nat /\ WinningStake[p] <= Live
<1>1. /\ winnersStake \in Nat /\ distributable \in Nat /\ rake \in Nat
      /\ paidOut \in Nat /\ totalStake \in Nat /\ gifted \in Nat /\ vault \in Nat
      /\ stake \in [Player -> Nat] /\ N \in Nat
  BY ConstantsTyped DEF IInv, TypeOK
<1>2. Live \in Nat /\ \A p \in Player : WinningStake[p] \in Nat /\ WinningStake[p] <= Live
  <2>1. WinningStake \in [1..N -> Nat]
    BY <1>1 DEF WinningStake, Player
  <2>2. Live \in Nat /\ \A p \in 1..N : WinningStake[p] <= Live
    BY <1>1, <2>1, SumGeqElement DEF Live
  <2> QED BY <2>1, <2>2 DEF Player
<1>3. /\ winnersStake > 0 /\ Live <= winnersStake /\ SharePaid >= 0
      /\ SharePaid * winnersStake <= distributable * (winnersStake - Live)
  BY DEF IInv, SettledShape
<1>4. SharePaid = paidOut - (InitialRake - rake) - (winnersStake - Live)
      /\ InitialRake = totalStake - winnersStake - distributable
  BY DEF SharePaid, InitialRake
<1>5. vault + paidOut = totalStake + gifted
  BY DEF IInv, VaultReconciles
<1>6. Outstanding = winnersStake + distributable - paidOut
  BY DEF Outstanding
<1> HIDE DEF Live, SharePaid, InitialRake, Outstanding
<1>7. SharePaid \in Nat
  BY <1>1, <1>2, <1>3, <1>4
<1>8. SharePaid <= distributable
  <2>1. 0 \in Nat /\ 0 <= Live /\ winnersStake \in Nat \ {0}
    BY <1>1, <1>2, <1>3
  <2>2. SharePaid + (distributable * 0) \div winnersStake <= distributable
        /\ (distributable * 0) \div winnersStake \in Nat
    BY <1>1, <1>2, <1>3, <1>7, <2>1, ShareFits
  <2> QED BY <1>1, <1>7, <2>2
<1>9. vault = gifted + rake + Live + (distributable - SharePaid)
  BY <1>1, <1>2, <1>4, <1>5, <1>7
<1>10. Outstanding = Live + (distributable - SharePaid) - (InitialRake - rake)
  BY <1>1, <1>2, <1>4, <1>6, <1>7
<1> QED BY <1>1, <1>2, <1>3, <1>7, <1>8, <1>9, <1>10

\* What a winner is still due is within what is left to share.
LEMMA WinnerShare ==
  ASSUME IInv, status = "SETTLED", NEW p \in Player, Won(p)
  PROVE  LET q == (distributable * stake[p]) \div winnersStake
         IN  /\ q \in Nat /\ stake[p] \in Nat /\ stake[p] <= Live
             /\ SharePaid + q <= distributable
             /\ (SharePaid + q) * winnersStake
                  <= distributable * (winnersStake - (Live - stake[p]))
<1>1. WinningStake[p] = stake[p]
  BY DEF WinningStake, Won
<1>2. stake[p] \in Nat /\ stake[p] <= Live
  BY <1>1, SettledVault
<1>3. /\ winnersStake \in Nat \ {0} /\ distributable \in Nat /\ Live \in Nat
      /\ SharePaid \in Nat /\ Live <= winnersStake
      /\ SharePaid * winnersStake <= distributable * (winnersStake - Live)
  BY SettledVault
<1> QED BY <1>2, <1>3, ShareFits

\* What anyone is owed is in the vault beside the rake, and fits u64.
LEMMA ClaimCovered ==
  ASSUME IInv, status \in Final, NEW p \in Player
  PROVE  Owed(p) \in Nat /\ Owed(p) + rake <= vault /\ ClaimPayout(p) = Owed(p)
<1>1. /\ vault \in 0..U64-1 /\ rake \in Nat /\ gifted \in Nat /\ U64 \in Nat
      /\ stake \in [Player -> Nat] /\ N \in Nat
  BY ConstantsTyped DEF IInv, TypeOK
<1>2. CASE status = "VOID"
  <2>1. rake = 0 /\ vault = gifted + SumTo(stake, N)
    BY <1>2 DEF IInv, VoidShape
  <2>2. SumTo(stake, N) \in Nat /\ stake[p] \in Nat /\ stake[p] <= SumTo(stake, N)
    BY <1>1, SumGeqElement DEF Player
  <2>3. Owed(p) = stake[p] /\ ClaimPayout(p) = stake[p]
    BY <1>2 DEF Owed, ClaimPayout
  <2> QED BY <1>1, <2>1, <2>2, <2>3
<1>3. CASE status = "SETTLED" /\ Won(p)
  <2> DEFINE s == stake[p]
             q == (distributable * stake[p]) \div winnersStake
  <2>1. q \in Nat /\ s \in Nat /\ s <= Live /\ SharePaid + q <= distributable
    BY <1>3, WinnerShare
  <2>2. /\ vault = gifted + rake + Live + (distributable - SharePaid)
        /\ Live \in Nat /\ SharePaid \in Nat /\ distributable \in Nat
    BY <1>3, SettledVault
  <2>3. Owed(p) = s + q /\ ClaimPayout(p) = (s + q) % U64
    BY <1>3 DEF Owed, ClaimPayout, WinnerPayout
  <2> HIDE DEF s, q
  <2>4. s + q \in Nat /\ s + q + rake <= vault
    BY <1>1, <2>1, <2>2
  <2>5. (s + q) % U64 = s + q
    BY <1>1, <2>4
  <2> QED BY <2>3, <2>4, <2>5
<1>4. CASE status = "SETTLED" /\ ~ Won(p)
  <2>1. Owed(p) = 0 /\ ClaimPayout(p) = 0
    BY <1>4 DEF Owed, ClaimPayout
  <2>2. /\ vault = gifted + rake + Live + (distributable - SharePaid)
        /\ Live \in Nat /\ SharePaid \in Nat /\ distributable \in Nat
        /\ SharePaid <= distributable
    BY <1>4, SettledVault
  <2>3. rake <= vault
    BY <1>1, <2>2
  <2> QED BY <1>1, <2>1, <2>3
<1> QED BY <1>2, <1>3, <1>4 DEF Final

(* what player p's claim takes out of the winning stakes and of their shares *)
StakeWon(p) == IF Won(p) THEN stake[p] ELSE 0
ShareWon(p) == IF Won(p) THEN (distributable * stake[p]) \div winnersStake ELSE 0

\* A claim on a settled pot moves the winning stakes still open and the shares
\* paid out by exactly what its player won.
LEMMA ClaimMoves ==
  ASSUME IInv, status = "SETTLED", NEW p \in Player, Claim(p)
  PROVE  /\ StakeWon(p) \in Nat /\ ShareWon(p) \in Nat /\ StakeWon(p) <= Live
         /\ Live' = Live - StakeWon(p) /\ SharePaid' = SharePaid + ShareWon(p)
         /\ InitialRake' = InitialRake
         /\ (SharePaid + ShareWon(p)) * winnersStake
              <= distributable * (winnersStake - (Live - StakeWon(p)))
<1>1. /\ paidOut' = paidOut + ClaimPayout(p) /\ stake' = [stake EXCEPT ![p] = 0]
      /\ totalStake' = totalStake /\ winningBucket' = winningBucket /\ bucket' = bucket
      /\ winnersStake' = winnersStake /\ distributable' = distributable /\ rake' = rake
  BY DEF Claim, PaidOutAfter, resultVars
<1>2. /\ winnersStake \in Nat \ {0} /\ distributable \in Nat /\ rake \in Nat
      /\ Live \in Nat /\ Live <= winnersStake /\ SharePaid \in Nat
      /\ SharePaid * winnersStake <= distributable * (winnersStake - Live)
  BY SettledVault
<1>3. paidOut \in Nat /\ totalStake \in Nat /\ N \in Nat /\ stake \in [Player -> Nat]
  BY ConstantsTyped DEF IInv, TypeOK
<1>4. /\ StakeWon(p) \in Nat /\ ShareWon(p) \in Nat /\ StakeWon(p) <= Live
      /\ (SharePaid + ShareWon(p)) * winnersStake
           <= distributable * (winnersStake - (Live - StakeWon(p)))
  <2>1. CASE Won(p)
    BY <2>1, WinnerShare DEF StakeWon, ShareWon
  <2>2. CASE ~ Won(p)
    <3>1. StakeWon(p) = 0 /\ ShareWon(p) = 0
      BY <2>2 DEF StakeWon, ShareWon
    <3>2. SharePaid + 0 = SharePaid /\ Live - 0 = Live
      BY <1>2
    <3> QED BY <1>2, <3>1, <3>2
  <2> QED BY <2>1, <2>2
<1>5. ClaimPayout(p) = StakeWon(p) + ShareWon(p)
  <2>1. ClaimPayout(p) = Owed(p)
    BY ClaimCovered DEF Final
  <2>2. Owed(p) = IF Won(p) THEN stake[p] + (distributable * stake[p]) \div winnersStake ELSE 0
    BY DEF Owed, WinnerPayout
  <2> QED BY <2>1, <2>2 DEF StakeWon, ShareWon
<1>6. Live' = Live - StakeWon(p)
  <2> DEFINE f == WinningStake
             g == WinningStake'
  <2>1. g = [k \in Player |-> IF bucket[k] = winningBucket THEN stake'[k] ELSE 0]
        /\ f = [k \in Player |-> IF bucket[k] = winningBucket THEN stake[k] ELSE 0]
    BY <1>1 DEF WinningStake
  <2> HIDE DEF f, g
  <2>2. stake' \in [Player -> Nat]
    BY <1>1, <1>3
  <2>3. f \in [1..N -> Int] /\ g \in [1..N -> Int]
    BY <1>3, <2>1, <2>2 DEF Player
  <2>4. \A k \in 1..N : k # p => g[k] = f[k]
    BY <1>1, <1>3, <2>1 DEF Player
  <2>5. SumTo(g, N) = SumTo(f, N) + (g[p] - f[p])
    BY <1>3, <2>3, <2>4, SumUpdate DEF Player
  <2>6. g[p] = 0 /\ f[p] = StakeWon(p)
    BY <1>1, <1>3, <2>1 DEF Won, StakeWon
  <2>7. SumTo(f, N) \in Int
    BY <1>3, <2>3, SumType
  <2>8. SumTo(g, N) = SumTo(f, N) - StakeWon(p)
    BY <1>4, <2>5, <2>6, <2>7
  <2> QED BY <2>8 DEF Live, f, g
<1>7. InitialRake' = InitialRake /\ InitialRake \in Int
  BY <1>1, <1>2, <1>3 DEF InitialRake
<1>8. SharePaid' = SharePaid + ShareWon(p)
  <2>1. SharePaid = paidOut - (InitialRake - rake) - (winnersStake - Live)
    BY DEF SharePaid
  <2>2. SharePaid' = (paidOut + (StakeWon(p) + ShareWon(p))) - (InitialRake - rake)
                       - (winnersStake - (Live - StakeWon(p)))
    BY <1>1, <1>5, <1>6, <1>7 DEF SharePaid
  <2> HIDE DEF SharePaid, Live, InitialRake
  <2> QED BY <1>2, <1>3, <1>4, <1>7, <2>1, <2>2
<1> QED BY <1>4, <1>6, <1>7, <1>8

\* claim preserves it, for a refund, a win and a loss.
LEMMA ClaimStep ==
  ASSUME IInv, NEW p \in Player, Claim(p) PROVE IInv'
<1> DEFINE pay == ClaimPayout(p)
           s == stake[p]
<1>1. /\ status \in Final /\ s > 0 /\ pay <= vault /\ paidOut + pay < U64
      /\ vault' = vault - pay
      /\ wallet' = [wallet EXCEPT ![p] = wallet[p] + pay]
      /\ paidOut' = paidOut + pay
      /\ stake' = [stake EXCEPT ![p] = 0]
  BY DEF Claim, PaidOutAfter
<1>2. /\ now' = now /\ status' = status /\ kickoff' = kickoff
      /\ participants' = participants /\ bucketTotals' = bucketTotals
      /\ totalStake' = totalStake /\ winningBucket' = winningBucket
      /\ winnersStake' = winnersStake /\ distributable' = distributable /\ rake' = rake
      /\ spec' = spec /\ bucket' = bucket /\ treasury' = treasury /\ gifted' = gifted
      /\ published' = published
  BY DEF Claim, resultVars
<1>3. /\ vault \in Nat /\ treasury \in Nat /\ gifted \in 0..MaxGift /\ paidOut \in Nat
      /\ totalStake \in Nat /\ U64 \in Nat /\ N \in Nat /\ N * InitialBalance \in Nat
      /\ stake \in [Player -> 0..U64-1] /\ stake \in [Player -> Nat]
      /\ wallet \in [Player -> Nat] /\ p \in 1..N
  <2>1. /\ vault \in 0..U64-1 /\ treasury \in 0..U64-1 /\ gifted \in 0..MaxGift
        /\ paidOut \in 0..U64-1 /\ totalStake \in 0..U64-1
        /\ stake \in [Player -> 0..U64-1] /\ wallet \in [Player -> 0..U64-1]
    BY DEF IInv, TypeOK
  <2>2. U64 \in Nat /\ N \in Nat /\ N * InitialBalance \in Nat
    BY ConstantsTyped
  <2>3. stake \in [Player -> Nat] /\ wallet \in [Player -> Nat]
    BY ONLY <2>1, <2>2
  <2>4. vault \in Nat /\ treasury \in Nat /\ paidOut \in Nat /\ totalStake \in Nat
    BY ONLY <2>1, <2>2
  <2>5. p \in 1..N
    BY DEF Player
  <2> QED BY ONLY <2>1, <2>2, <2>3, <2>4, <2>5
<1>4. pay \in Nat /\ pay = Owed(p) /\ s \in Nat
  BY <1>1, <1>3, ClaimCovered
<1> HIDE DEF pay, s
<1>5. wallet' \in [Player -> Nat] /\ stake' \in [Player -> Nat] /\ vault' \in Nat
  BY <1>1, <1>3, <1>4
<1>6. Supply'
  <2>1. wallet \in [1..N -> Int] /\ wallet' \in [1..N -> Int]
    BY <1>3, <1>5, NatToInt
  <2>2. \A k \in 1..N : k # p => wallet'[k] = wallet[k]
    BY <1>1, <1>3 DEF Player
  <2>3. SumTo(wallet', N) = SumTo(wallet, N) + (wallet'[p] - wallet[p])
    BY <1>3, <2>1, <2>2, SumUpdate
  <2>4. SumTo(wallet, N) \in Int
    BY <1>3, <2>1, SumType
  <2>5. wallet'[p] = wallet[p] + pay /\ wallet[p] \in Nat
    BY <1>1, <1>3
  <2> QED BY <1>1, <1>2, <1>3, <1>4, <2>3, <2>4, <2>5 DEF IInv, Supply
<1>7. TypeOK'
  <2>1. SumTo(wallet', N) + vault' + treasury = N * InitialBalance + gifted
    BY <1>2, <1>6 DEF Supply
  <2>2. vault' \in 0..U64-1 /\ wallet' \in [Player -> 0..U64-1]
    BY <1>3, <1>5, <2>1, BalancesFit
  <2>3. stake' \in [Player -> 0..U64-1]
    BY <1>1, <1>3
  <2>4. paidOut' \in 0..U64-1
    BY <1>1, <1>3, <1>4
  <2> QED BY <1>2, <2>2, <2>3, <2>4 DEF IInv, TypeOK
<1>8. VaultReconciles'
  BY <1>1, <1>2, <1>3, <1>4 DEF IInv, VaultReconciles
<1>9. Undecided'
  BY <1>1, <1>2 DEF Undecided
<1>10. StakesIntact' /\ VoidShape'
  <2>1. CASE status = "VOID"
    <3>1. pay = s
      BY <1>4, <2>1 DEF Owed, s
    <3>2. StakesIntact'
      <4> SUFFICES ASSUME NEW q \in Player PROVE wallet'[q] + stake'[q] = InitialBalance
        BY DEF StakesIntact
      <4>1. wallet[q] + stake[q] = InitialBalance /\ wallet[q] \in Nat /\ stake[q] \in Nat
        BY <1>3, <2>1 DEF IInv, StakesIntact
      <4>2. wallet'[q] = (IF q = p THEN wallet[q] + s ELSE wallet[q])
            /\ stake'[q] = (IF q = p THEN 0 ELSE stake[q])
        BY <1>1, <1>3, <3>1
      <4> QED BY <4>1, <4>2 DEF s
    <3>3. SumTo(stake', N) = SumTo(stake, N) + (stake'[p] - stake[p])
      <4>1. stake \in [1..N -> Int] /\ stake' \in [1..N -> Int]
        BY <1>3, <1>5, NatToInt
      <4>2. \A k \in 1..N : k # p => stake'[k] = stake[k]
        BY <1>1, <1>3 DEF Player
      <4> QED BY <1>3, <4>1, <4>2, SumUpdate
    <3>4. rake = 0 /\ vault = gifted + SumTo(stake, N)
      BY <2>1 DEF IInv, VoidShape
    <3>5. stake'[p] = 0 /\ SumTo(stake, N) \in Int
      <4>1. stake \in [1..N -> Int]
        BY <1>3, NatToInt
      <4> QED BY <1>1, <1>3, <4>1, SumType
    <3>6. VoidShape'
      BY <1>1, <1>2, <1>3, <1>4, <3>1, <3>3, <3>4, <3>5 DEF VoidShape, s
    <3> QED BY <3>2, <3>6
  <2>2. CASE status = "SETTLED"
    BY <1>2, <2>2 DEF StakesIntact, VoidShape
  <2> QED BY <1>1, <2>1, <2>2 DEF Final
<1>11. SettledShape' /\ WinnersWhole'
  <2>1. CASE status = "VOID"
    BY <1>2, <2>1 DEF SettledShape, WinnersWhole, Won
  <2>2. CASE status = "SETTLED"
    <3>3. winnersStake \in Nat \ {0} /\ Live \in Nat /\ Live <= winnersStake /\ SharePaid \in Nat
      BY <2>2, SettledVault
    <3>4. /\ StakeWon(p) \in Nat /\ ShareWon(p) \in Nat /\ StakeWon(p) <= Live
          /\ Live' = Live - StakeWon(p) /\ SharePaid' = SharePaid + ShareWon(p)
          /\ InitialRake' = InitialRake
          /\ (SharePaid + ShareWon(p)) * winnersStake
               <= distributable * (winnersStake - (Live - StakeWon(p)))
      BY <2>2, ClaimMoves
    <3>7. SettledShape'
      <4>1. InitialRake >= 0 /\ rake \in {0, InitialRake}
        BY <2>2 DEF IInv, SettledShape
      <4>2. /\ winnersStake > 0 /\ Live - StakeWon(p) <= winnersStake
            /\ SharePaid + ShareWon(p) >= 0
        BY <3>3, <3>4
      <4> QED BY <1>2, <3>4, <4>1, <4>2 DEF SettledShape
    <3>8. WinnersWhole'
      <4> SUFFICES ASSUME NEW k \in Player, Won(k)'
                   PROVE  wallet'[k] + Owed(k)' >= InitialBalance
        BY DEF WinnersWhole
      <4>1. Won(k)
        BY <1>2 DEF Won
      <4>2. wallet[k] + Owed(k) >= InitialBalance /\ wallet[k] \in Nat
            /\ InitialBalance \in Nat
        BY <1>3, <4>1, ConstantsTyped DEF IInv, WinnersWhole
      <4>3. CASE k = p
        <5>1. wallet'[k] = wallet[k] + Owed(k)
          BY <1>1, <1>3, <1>4, <4>3
        <5>2. Owed(k)' = 0 + (distributable * 0) \div winnersStake
          BY <1>1, <1>2, <1>3, <2>2, <4>1, <4>3 DEF Owed, Won, WinnerPayout
        <5>3. 0 + (distributable * 0) \div winnersStake = 0
          BY <2>2, SettledVault
        <5>4. Owed(k) \in Nat
          BY <1>4, <4>3
        <5> QED BY <4>2, <5>1, <5>2, <5>3, <5>4
      <4>4. CASE k # p
        <5>1. wallet'[k] = wallet[k] /\ stake'[k] = stake[k]
          BY <1>1, <1>3, <4>4
        <5>2. Owed(k)' = Owed(k)
          BY <1>2, <5>1 DEF Owed, Won, WinnerPayout
        <5> QED BY <4>2, <5>1, <5>2
      <4> QED BY <4>3, <4>4
    <3> QED BY <3>7, <3>8
  <2> QED BY <1>1, <2>1, <2>2 DEF Final
<1>12. PublishedInPast'
  BY <1>2 DEF IInv, PublishedInPast
<1> QED BY <1>6, <1>7, <1>8, <1>9, <1>10, <1>11, <1>12 DEF IInv

\* sweep_rake preserves it: the rake leaves the vault exactly once.
LEMMA SweepRakeStep ==
  ASSUME IInv, SweepRake PROVE IInv'
<1>1. /\ status = "SETTLED" /\ rake > 0 /\ rake <= vault /\ paidOut + rake < U64
      /\ vault' = vault - rake /\ treasury' = treasury + rake
      /\ paidOut' = paidOut + rake /\ rake' = 0
  BY DEF SweepRake, PaidOutAfter
<1>2. /\ now' = now /\ status' = status /\ kickoff' = kickoff
      /\ participants' = participants /\ bucketTotals' = bucketTotals
      /\ totalStake' = totalStake /\ winningBucket' = winningBucket
      /\ winnersStake' = winnersStake /\ distributable' = distributable
      /\ spec' = spec /\ stake' = stake /\ bucket' = bucket /\ wallet' = wallet
      /\ gifted' = gifted /\ published' = published
  BY DEF SweepRake, positionVars
<1>3. /\ vault \in Nat /\ treasury \in Nat /\ gifted \in 0..MaxGift /\ paidOut \in Nat
      /\ totalStake \in Nat /\ rake \in Nat /\ U64 \in Nat /\ N \in Nat
      /\ N * InitialBalance \in Nat /\ wallet \in [Player -> Nat]
      /\ wallet \in [1..N -> Int]
  BY ConstantsTyped, NatToInt DEF IInv, TypeOK
<1>4. Supply'
  <2>1. SumTo(wallet, N) \in Int
    BY <1>3, SumType
  <2> QED BY <1>1, <1>2, <1>3, <2>1 DEF IInv, Supply
<1>5. TypeOK'
  <2>1. SumTo(wallet, N) + vault' + treasury' = N * InitialBalance + gifted
    BY <1>2, <1>4 DEF Supply
  <2>2. vault' \in Nat /\ treasury' \in Nat
    BY <1>1, <1>3
  <2>3. vault' \in 0..U64-1 /\ treasury' \in 0..U64-1
    BY <1>3, <2>1, <2>2, BalancesFit
  <2>4. paidOut' \in 0..U64-1 /\ rake' \in 0..U64-1
    BY <1>1, <1>3
  <2> QED BY <1>2, <2>3, <2>4 DEF IInv, TypeOK
<1>6. VaultReconciles'
  BY <1>1, <1>2, <1>3 DEF IInv, VaultReconciles
<1>7. Undecided' /\ StakesIntact' /\ VoidShape' /\ PublishedInPast'
  BY <1>1, <1>2 DEF IInv, Undecided, StakesIntact, VoidShape, PublishedInPast, Final
<1>8. SettledShape'
  <2>1. Live' = Live /\ InitialRake' = InitialRake
    BY <1>2 DEF Live, WinningStake, InitialRake
  <2>2. InitialRake = rake
    BY <1>1 DEF IInv, SettledShape
  <2>3. SharePaid' = SharePaid
    <3>1. SharePaid = paidOut - (rake - rake) - (winnersStake - Live)
      BY <2>2 DEF SharePaid
    <3>2. SharePaid' = (paidOut + rake) - (rake - 0) - (winnersStake - Live)
      BY <1>1, <1>2, <2>1, <2>2 DEF SharePaid
    <3>3. winnersStake \in Nat /\ Live \in Nat
      BY <1>1, SettledVault
    <3> HIDE DEF SharePaid, Live
    <3> QED BY <1>3, <3>1, <3>2, <3>3
  <2>4. InitialRake >= 0 /\ rake' \in {0, InitialRake}
    BY <1>1, <1>3, <2>2
  <2> QED BY <1>1, <1>2, <2>1, <2>3, <2>4 DEF IInv, SettledShape
<1>9. WinnersWhole'
  BY <1>2 DEF IInv, WinnersWhole, Won, Owed, WinnerPayout
<1> QED BY <1>4, <1>5, <1>6, <1>7, <1>8, <1>9 DEF IInv

\* A direct transfer into the vault preserves it.
LEMMA GiftStep ==
  ASSUME IInv, NEW a \in Gifts, Gift(a) PROVE IInv'
<1>1. /\ gifted + a <= MaxGift /\ vault' = vault + a /\ gifted' = gifted + a
  BY DEF Gift
<1>2. /\ now' = now /\ status' = status /\ kickoff' = kickoff
      /\ participants' = participants /\ bucketTotals' = bucketTotals
      /\ totalStake' = totalStake /\ winningBucket' = winningBucket
      /\ winnersStake' = winnersStake /\ distributable' = distributable /\ rake' = rake
      /\ paidOut' = paidOut /\ spec' = spec /\ stake' = stake /\ bucket' = bucket
      /\ wallet' = wallet /\ treasury' = treasury /\ published' = published
  BY DEF Gift, potVars, resultVars, positionVars
<1>3. /\ a \in Nat /\ vault \in Nat /\ treasury \in Nat /\ gifted \in 0..MaxGift
      /\ paidOut \in Nat /\ totalStake \in Nat /\ MaxGift \in Nat /\ N \in Nat
      /\ N * InitialBalance \in Nat /\ wallet \in [Player -> Nat]
      /\ wallet \in [1..N -> Int] /\ stake \in [1..N -> Int]
  BY ConstantsTyped, SupplyAssumption, NatToInt DEF IInv, TypeOK
<1>4. Supply' /\ VoidShape'
  <2>1. SumTo(wallet, N) \in Int /\ SumTo(stake, N) \in Int
    BY <1>3, SumType
  <2>2. Supply'
    <3>1. SumTo(wallet, N) + vault + treasury = N * InitialBalance + gifted
      BY DEF IInv, Supply
    <3> DEFINE W == SumTo(wallet, N)
               M == N * InitialBalance
    <3>2. W + vault + treasury = M + gifted
      BY <3>1
    <3>3. W \in Int /\ M \in Nat /\ a \in Int /\ gifted \in Int
      BY <1>3, <2>1
    <3> HIDE DEF W, M
    <3>4. W + (vault + a) + treasury = M + (gifted + a)
      BY <3>2, <3>3, <1>3
    <3>5. W + vault' + treasury' = M + gifted'
      BY <3>4, <1>1, <1>2
    <3> QED BY <3>5, <1>2 DEF Supply, W, M
  <2>3. VoidShape'
    BY <1>1, <1>2, <1>3, <2>1 DEF IInv, VoidShape
  <2> QED BY <2>2, <2>3
<1>5. TypeOK'
  <2>1. SumTo(wallet, N) + vault' + treasury = N * InitialBalance + gifted'
    BY <1>2, <1>4 DEF Supply
  <2>2. vault' \in Nat /\ gifted' \in 0..MaxGift
    BY <1>1, <1>3
  <2>3. vault' \in 0..U64-1
    BY <1>3, <2>1, <2>2, BalancesFit
  <2> QED BY <1>2, <2>2, <2>3 DEF IInv, TypeOK
<1>6. VaultReconciles'
  BY <1>1, <1>2, <1>3 DEF IInv, VaultReconciles
<1>7. Undecided' /\ StakesIntact' /\ PublishedInPast'
  BY <1>2 DEF IInv, Undecided, StakesIntact, PublishedInPast, StakeIn
<1>8. SettledShape' /\ WinnersWhole'
  BY <1>2 DEF IInv, SettledShape, WinnersWhole, Live, WinningStake, InitialRake, SharePaid,
              Owed, Won, WinnerPayout
<1> QED BY <1>4, <1>5, <1>6, <1>7, <1>8 DEF IInv

\* Every step preserves the invariant.
LEMMA NextIInv == IInv /\ [Next]_vars => IInv'
<1> SUFFICES ASSUME IInv, [Next]_vars PROVE IInv'
  OBVIOUS
<1>1. CASE UNCHANGED vars
  BY <1>1, StutterStep
<1>2. CASE Next
  BY <1>2, CreatePotStep, CreateMarketSpecStep, PlaceCallStep, LockPotStep, SettlePotStep,
     SettleMarketStep, VoidPotStep, ClaimStep, SweepRakeStep, PublishStep, GiftStep,
     TickStep DEF Next
<1> QED BY <1>1, <1>2

-----------------------------------------------------------------------------
(* Theorems *)

\* The inductive invariant holds in every reachable state.
THEOREM Invariance == Spec => []IInv
BY InitIInv, NextIInv, PTL DEF Spec

\* Type correctness: every field of the pot, the positions and the token
\* accounts keeps its range, in particular no amount ever leaves u64.
THEOREM TypeCorrect == Spec => []TypeOK
<1>1. IInv => TypeOK
  BY DEF IInv
<1> QED BY <1>1, Invariance, PTL

\* The vault and paid_out account for every stake, whatever the order of calls,
\* claims, sweeps and direct transfers (Pot.paid_out, sweep_rake.rs).
THEOREM VaultAlwaysReconciles == Spec => []VaultReconciles
<1>1. IInv => VaultReconciles
  BY DEF IInv
<1> QED BY <1>1, Invariance, PTL

\* place_call's separately updated counters agree with the positions.
THEOREM CountersAlwaysAgree == Spec => []CountersAgree
<1>1. IInv => CountersAgree
  BY DEF IInv, Undecided, CountersAgree
<1> QED BY <1>1, Invariance, PTL

\* Solvency: in a decided pot every open position can be claimed in full, with
\* the rake set aside, in any order and for any rounding (claim.rs).
THEOREM Solvency == Spec => []EveryClaimPayable
<1>1. IInv => EveryClaimPayable
  BY ClaimCovered DEF EveryClaimPayable
<1> QED BY <1>1, Invariance, PTL

\* sweep_rake's VaultUnderwater and RakeExceedsFree are unreachable.
THEOREM SweepAlwaysCovered == Spec => []SweepNeverRefused
<1>1. IInv => SweepNeverRefused
  <2> SUFFICES ASSUME IInv, status = "SETTLED", rake > 0 PROVE SweepCovered
    BY DEF SweepNeverRefused
  <2>1. InitialRake = rake
    BY DEF IInv, SettledShape
  <2>2. /\ distributable \in Nat /\ rake \in Nat /\ Live \in Nat /\ SharePaid \in Nat
        /\ SharePaid <= distributable
        /\ vault = gifted + rake + Live + (distributable - SharePaid)
        /\ Outstanding = Live + (distributable - SharePaid) - (InitialRake - rake)
    BY SettledVault
  <2>3. gifted \in Nat
    BY ConstantsTyped DEF IInv, TypeOK
  <2> HIDE DEF Live, SharePaid, InitialRake, Outstanding
  <2> QED BY <2>1, <2>2, <2>3 DEF SweepCovered
<1> QED BY <1>1, Invariance, PTL

\* A void gives everyone back exactly what it came with (void_pot.rs).
THEOREM VoidAlwaysRefunds == Spec => []VoidIsRefund
<1>1. IInv => VoidIsRefund
  BY DEF IInv, StakesIntact, VoidIsRefund
<1> QED BY <1>1, Invariance, PTL

\* A winner never ends below what it came with.
THEOREM WinnersNeverLose == Spec => []WinnersWhole
<1>1. IInv => WinnersWhole
  BY DEF IInv
<1> QED BY <1>1, Invariance, PTL

-----------------------------------------------------------------------------
(* Action properties *)

\* The total only moves in place_call, which needs the clock to be before
\* kickoff.
LEMMA StakeEntersBeforeKickoff ==
  ASSUME [Next]_vars PROVE totalStake' = totalStake \/ now < kickoff
<1>1. CASE UNCHANGED vars
  BY <1>1 DEF vars, potVars
<1>2. ASSUME NEW p \in Player, NEW b \in Bucket, NEW a \in Amounts, PlaceCall(p, b, a)
      PROVE  now < kickoff
  BY <1>2 DEF PlaceCall, CallsOpen
<1>3. CASE Next
  BY <1>2, <1>3 DEF Next, CreatePot, CreateMarketSpec, LockPot, SettlePot, SettleMarket,
     VoidPot, Claim, SweepRake, Publish, Gift, Tick, potVars
<1> QED BY <1>1, <1>3

\* No stake enters once a score of the match is published (place_call, lock_pot).
THEOREM StakesAreUninformed == Spec => NoInformedStake
<1>1. IInv /\ [Next]_vars => ((\E b \in published : OwnBundle(b)) => totalStake' = totalStake)
  <2> SUFFICES ASSUME IInv, [Next]_vars, NEW b \in published, OwnBundle(b)
               PROVE  totalStake' = totalStake
    OBVIOUS
  <2> DEFINE sec == b.ts \div MsPerSec
  <2>1. sec <= now
    BY DEF IInv, PublishedInPast
  <2>2. kickoff <= sec
    BY DEF OwnBundle, InWindow
  <2>3. sec \in Int /\ now \in Int /\ kickoff \in Int
    BY FeedAssumption, ConstantsTyped DEF IInv, TypeOK
  <2> HIDE DEF sec
  <2>4. ~ (now < kickoff)
    BY <2>1, <2>2, <2>3
  <2> QED BY <2>4, StakeEntersBeforeKickoff
<1> QED BY <1>1, Invariance, PTL DEF Spec, NoInformedStake

\* A decided pot keeps its decision: no handler reopens, re-decides or re-prices
\* it (the status checks of settle_pot, settle_market, void_pot and claim).
LEMMA DecisionKept ==
  ASSUME status \in Final, [Next]_vars
  PROVE  /\ status' = status /\ winningBucket' = winningBucket
         /\ winnersStake' = winnersStake /\ distributable' = distributable
<1>1. CASE UNCHANGED vars
  BY <1>1 DEF vars, potVars
<1>2. CASE Next
  BY <1>2 DEF Final, Next, CreatePot, CreateMarketSpec, SpecAllowed, PlaceCall, CallsOpen,
     LockPot, SettlePot, SettleMarket, VoidPot, MayVoid, Claim, SweepRake, Publish, Gift,
     Tick, potVars, resultVars
<1> QED BY <1>1, <1>2

\* The decision of a pot is final.
THEOREM DecisionsAreFinal == Spec => DecisionFinal
<1>1. [Next]_vars =>
        ((status \in Final) =>
           /\ status' = status /\ winningBucket' = winningBucket
           /\ winnersStake' = winnersStake /\ distributable' = distributable)
  BY DecisionKept
<1> QED BY <1>1, PTL DEF Spec, DecisionFinal

\* Once the pot is decided no position changes sides: place_call is closed.
LEMMA SidesKept ==
  ASSUME status \in Final, [Next]_vars PROVE bucket' = bucket
<1>1. CASE UNCHANGED vars
  BY <1>1 DEF vars, positionVars
<1>2. CASE Next
  BY <1>2 DEF Final, Next, CreatePot, CreateMarketSpec, SpecAllowed, PlaceCall, CallsOpen,
     LockPot, SettlePot, SettleMarket, VoidPot, MayVoid, Claim, SweepRake, Publish, Gift,
     Tick, positionVars
<1> QED BY <1>1, <1>2

\* What a player is owed does not depend on who claims or sweeps before it.
THEOREM DebtsAreStable == Spec => OwedStable
<1>1. [Next]_vars =>
        \A p \in Player : status \in Final /\ stake'[p] = stake[p] => Owed(p)' = Owed(p)
  <2> SUFFICES ASSUME [Next]_vars, NEW p \in Player, status \in Final, stake'[p] = stake[p]
               PROVE  Owed(p)' = Owed(p)
    OBVIOUS
  <2> QED BY DecisionKept, SidesKept DEF Owed, Won, WinnerPayout
<1> QED BY <1>1, PTL DEF Spec, OwedStable

-----------------------------------------------------------------------------
(* Lines *)

\* The line of a pot cannot move once somebody has bet against it: only
\* create_market_spec writes it, on a pot without participants.
THEOREM LinesAreFixed == Spec => LineFixedBeforeStakes
<1>1. [Next]_vars => (participants > 0 => spec' = spec)
  <2> SUFFICES ASSUME [Next]_vars, participants > 0 PROVE spec' = spec
    OBVIOUS
  <2>1. ~SpecAllowed
    BY DEF SpecAllowed
  <2>2. CASE UNCHANGED vars
    BY <2>2 DEF vars
  <2>3. CASE Next
    BY <2>1, <2>3 DEF Next, CreatePot, CreateMarketSpec, PlaceCall, LockPot, SettlePot,
       SettleMarket, VoidPot, Claim, SweepRake, Publish, Gift, Tick
  <2> QED BY <2>2, <2>3
<1> QED BY <1>1, PTL DEF Spec, LineFixedBeforeStakes

\* Over and under partition the integers, above the floor or below the next one,
\* as long as there is a next one.
LEMMA OneSideHolds ==
  ASSUME NEW s, s.op \in {"ADD", "SUB"}, s.floor \in Int, s.floor <= MaxI32,
         NEW x \in Int, NEW y \in Int
  PROVE  /\ ~(LineHolds(s, 0, x, y) /\ LineHolds(s, 1, x, y))
         /\ LineHolds(s, 0, x, y) \/ LineHolds(s, 1, x, y) \/ s.floor = MaxI32
<1> DEFINE value == Combined(s, x, y)
<1>1. value \in Int
  BY DEF Combined
<1>2. /\ LineHolds(s, 0, x, y) <=> value > s.floor
      /\ LineHolds(s, 1, x, y) <=> s.floor + 1 <= MaxI32 /\ value < s.floor + 1
  BY DEF LineHolds
<1> HIDE DEF value
<1>3. (value > s.floor) <=> ~(value < s.floor + 1)
  BY <1>1
<1>4. s.floor + 1 <= MaxI32 \/ s.floor = MaxI32
  BY SpecAssumption
<1> QED BY <1>2, <1>3, <1>4

\* Whatever scores the oracle publishes, no score proves both sides of a line, and
\* each proves one, unless the floor is the last i32 (line_predicate).
THEOREM LinesAreOneSided == Spec => []OneSideProvable
<1>1. IInv => OneSideProvable
  <2> SUFFICES ASSUME IInv, spec # NoSpec, NEW b \in published,
                      {spec.a, spec.b} \subseteq DOMAIN b.stat
               PROVE  /\ ~(Provable(b, 0) /\ Provable(b, 1))
                      /\ Provable(b, 0) \/ Provable(b, 1) \/ spec.floor = MaxI32
    BY DEF OneSideProvable
  <2>1. spec \in Specs /\ b \in Feed
    BY DEF IInv, TypeOK
  <2>2. spec.op \in {"ADD", "SUB"} /\ spec.floor \in Int /\ spec.floor <= MaxI32
    BY <2>1, SpecAssumption
  <2>3. b.stat[spec.a] \in Int /\ b.stat[spec.b] \in Int
    BY <2>1, FeedAssumption
  <2> QED BY <2>2, <2>3, OneSideHolds DEF Provable
<1> QED BY <1>1, Invariance, PTL

-----------------------------------------------------------------------------
(* Dust *)

\* Only the two settle handlers settle.
LEMMA SettledBySettling ==
  ASSUME Next, status # "SETTLED", status' = "SETTLED"
  PROVE  \/ \E w \in Bucket, b \in Feed : \E x, y \in DOMAIN b.stat : SettlePot(w, b, x, y)
         \/ \E w \in Bucket, b \in Feed : SettleMarket(w, b)
BY DEF Next, CreatePot, CreateMarketSpec, PlaceCall, LockPot, VoidPot, VoidIt, Claim,
   SweepRake, Publish, Gift, Tick, potVars

OpenPositions == {p \in Player : stake[p] > 0}
ClaimsMade == participants - Cardinality(OpenPositions)

(* After k claims what winners were paid falls short of their exact shares by *)
(* less than k units.                                                         *)
DustBounded ==
  status = "SETTLED" =>
    /\ participants > 0 /\ ClaimsMade \in Nat /\ ClaimsMade <= participants
    /\ distributable * (winnersStake - Live)
         <= SharePaid * winnersStake + ClaimsMade * (winnersStake - 1)

\* When a settle handler decides the pot, all winning stakes are open, nothing is
\* paid yet, and there is somebody who may claim.
LEMMA DustAtDecision ==
  ASSUME IInv, IInv', status = "LOCKED", NEW w \in Bucket, Decide(w), Kept, status' = "SETTLED"
  PROVE  DustBounded'
<1>1. /\ winnersStake' = bucketTotals[w] /\ winningBucket' = w
      /\ distributable' = Losers(w) - rake' /\ bucketTotals[w] # 0
  BY DEF Decide, VoidIt
<1>2. /\ participants' = participants /\ stake' = stake /\ bucket' = bucket
      /\ totalStake' = totalStake /\ paidOut' = paidOut
  BY DEF Kept, positionVars
<1>3. /\ paidOut = 0 /\ bucketTotals[w] = StakeIn(w)
      /\ participants = Cardinality(OpenPositions)
  BY DEF IInv, Undecided, Final, OpenPositions
<1>4. /\ totalStake \in Nat /\ bucketTotals[w] \in Nat /\ rake' \in Nat /\ participants \in Nat
      /\ stake \in [Player -> Nat] /\ N \in Nat /\ distributable' \in Nat
  BY ConstantsTyped DEF IInv, TypeOK
<1>5. Live' = bucketTotals[w]
  BY <1>1, <1>2, <1>3 DEF Live, WinningStake, StakeIn
<1>6. SharePaid' = 0
  <2>1. InitialRake' = totalStake - bucketTotals[w] - (totalStake - bucketTotals[w] - rake')
    BY <1>1, <1>2 DEF InitialRake, Losers
  <2>2. SharePaid' = 0 - (InitialRake' - rake') - (bucketTotals[w] - bucketTotals[w])
    BY <1>1, <1>2, <1>3, <1>5 DEF SharePaid
  <2> QED BY <1>4, <2>1, <2>2
<1>7. participants > 0
  <2>1. \E k \in Player : stake[k] > 0
    <3> SUFFICES ASSUME \A k \in Player : ~ (stake[k] > 0) PROVE FALSE
      OBVIOUS
    <3> DEFINE f == [k \in Player |-> IF bucket[k] = w THEN stake[k] ELSE 0]
    <3>1. f \in [1..N -> Int] /\ \A k \in 1..N : f[k] = 0
      BY <1>4 DEF Player
    <3>2. SumTo(f, N) = 0
      BY <1>4, <3>1, SumOfZeros
    <3> QED BY <1>1, <1>3, <3>2 DEF StakeIn
  <2>2. OpenPositions # {} /\ OpenPositions \subseteq Player
    BY <2>1 DEF OpenPositions
  <2>3. Cardinality(OpenPositions) # 0
    BY <2>2, PlayersFinite, FS_EmptySet
  <2> QED BY <1>3, <1>4, <2>3
<1>8. ClaimsMade' = 0
  BY <1>2, <1>3, <1>4 DEF ClaimsMade, OpenPositions
<1>9. distributable' * (winnersStake' - Live') <= SharePaid' * winnersStake' + 0 * (winnersStake' - 1)
  BY <1>1, <1>4, <1>5, <1>6
<1> QED BY <1>2, <1>4, <1>7, <1>8, <1>9 DEF DustBounded

\* A claim closes one position and loses less than one unit to rounding.
LEMMA DustAtClaim ==
  ASSUME IInv, DustBounded, status = "SETTLED", NEW p \in Player, Claim(p)
  PROVE  DustBounded'
<1>1. /\ stake[p] > 0 /\ stake' = [stake EXCEPT ![p] = 0] /\ participants' = participants
      /\ winnersStake' = winnersStake /\ distributable' = distributable
  BY DEF Claim, resultVars
<1>2. /\ stake \in [Player -> Nat] /\ participants \in Nat
      /\ winnersStake \in Nat \ {0} /\ distributable \in Nat /\ Live \in Nat
      /\ Live <= winnersStake /\ SharePaid \in Nat
  BY SettledVault, ConstantsTyped DEF IInv, TypeOK
<1>3. /\ participants > 0 /\ ClaimsMade \in Nat
      /\ distributable * (winnersStake - Live)
           <= SharePaid * winnersStake + ClaimsMade * (winnersStake - 1)
  BY DEF DustBounded
<1>4. ClaimsMade' = ClaimsMade + 1 /\ ClaimsMade' <= participants
  <2>1. OpenPositions' = OpenPositions \ {p} /\ p \in OpenPositions
    BY <1>1, <1>2 DEF OpenPositions
  <2>2. /\ IsFiniteSet(OpenPositions) /\ Cardinality(OpenPositions) \in Nat
        /\ Cardinality(OpenPositions') \in Nat
    BY <2>1, PlayersFinite, ConstantsTyped DEF OpenPositions
  <2>3. Cardinality(OpenPositions') = Cardinality(OpenPositions) - 1
    BY <2>1, <2>2, FS_RemoveElement
  <2> HIDE DEF OpenPositions
  <2> QED BY <1>1, <1>2, <2>2, <2>3 DEF ClaimsMade
<1>5. /\ StakeWon(p) \in Nat /\ ShareWon(p) \in Nat /\ StakeWon(p) <= Live
      /\ Live' = Live - StakeWon(p) /\ SharePaid' = SharePaid + ShareWon(p)
  BY ClaimMoves
<1>6. distributable * StakeWon(p) <= ShareWon(p) * winnersStake + (winnersStake - 1)
  <2>1. CASE Won(p)
    <3> DEFINE product == distributable * stake[p]
               q == product \div winnersStake
    <3>1. product \in Nat
      BY <1>2
    <3> HIDE DEF product
    <3>2. q \in Nat /\ product < winnersStake * q + winnersStake
      BY <1>2, <3>1, DivBounds
    <3> HIDE DEF q
    <3>3. product <= q * winnersStake + (winnersStake - 1)
      BY <1>2, <3>1, <3>2
    <3> QED BY <2>1, <3>3 DEF StakeWon, ShareWon, product, q
  <2>2. CASE ~ Won(p)
    BY <1>2, <2>2 DEF StakeWon, ShareWon
  <2> QED BY <2>1, <2>2
<1>7. distributable * (winnersStake - (Live - StakeWon(p)))
        <= (SharePaid + ShareWon(p)) * winnersStake + (ClaimsMade + 1) * (winnersStake - 1)
  BY <1>2, <1>3, <1>5, <1>6, DustGrows
<1>8. distributable' * (winnersStake' - Live')
        <= SharePaid' * winnersStake' + ClaimsMade' * (winnersStake' - 1)
  BY <1>1, <1>4, <1>5, <1>7
<1>9. participants' > 0 /\ ClaimsMade' \in Nat /\ ClaimsMade' <= participants'
  BY <1>1, <1>3, <1>4
<1> QED BY <1>8, <1>9 DEF DustBounded

\* Nothing else touches it: a sweep moves only the rake.
LEMMA DustElsewhere ==
  ASSUME IInv, DustBounded, status = "SETTLED", Next, ~ \E p \in Player : Claim(p)
  PROVE  DustBounded'
<1>1. SweepRake \/ UNCHANGED <<paidOut, rake>>
  BY DEF Next, CreatePot, CreateMarketSpec, SpecAllowed, PlaceCall, CallsOpen, LockPot, SettlePot,
     SettleMarket, VoidPot, MayVoid, Publish, Gift, Tick, potVars, resultVars
<1>2. UNCHANGED <<participants, totalStake, winningBucket, winnersStake, distributable, stake, bucket>>
  BY DEF Next, CreatePot, CreateMarketSpec, SpecAllowed, PlaceCall, CallsOpen, LockPot, SettlePot,
     SettleMarket, VoidPot, MayVoid, SweepRake, Publish, Gift, Tick, potVars, resultVars, positionVars
<1>3. Live' = Live /\ ClaimsMade' = ClaimsMade /\ InitialRake' = InitialRake
  BY <1>2 DEF Live, WinningStake, ClaimsMade, OpenPositions, InitialRake
<1>4. SharePaid' = SharePaid
  <2>1. CASE UNCHANGED <<paidOut, rake>>
    BY <1>2, <1>3, <2>1 DEF SharePaid
  <2>2. CASE SweepRake
    <3>1. paidOut' = paidOut + rake /\ rake' = 0
      BY <2>2 DEF SweepRake, PaidOutAfter
    <3>2. /\ paidOut \in Nat /\ rake \in Nat /\ winnersStake \in Nat /\ Live \in Nat
          /\ totalStake \in Nat /\ distributable \in Nat
      BY SettledVault, ConstantsTyped DEF IInv, TypeOK
    <3>3. InitialRake \in Int
      BY <3>2 DEF InitialRake
    <3>4. /\ SharePaid = paidOut - (InitialRake - rake) - (winnersStake - Live)
          /\ SharePaid' = (paidOut + rake) - (InitialRake - 0) - (winnersStake - Live)
      BY <1>2, <1>3, <3>1 DEF SharePaid
    <3> HIDE DEF SharePaid, InitialRake, Live
    <3> QED BY <3>2, <3>3, <3>4
  <2> QED BY <1>1, <2>1, <2>2
<1> QED BY <1>2, <1>3, <1>4 DEF DustBounded

\* Whatever the claim order, the vault keeps less than one unit of dust per
\* participant beside the rake and what outsiders sent (claim.rs).
THEOREM DustStaysSmall == Spec => []DustOnly
<1>1. Init => DustBounded
  BY DEF Init, DustBounded
<1>2. IInv /\ IInv' /\ DustBounded /\ [Next]_vars => DustBounded'
  <2> SUFFICES ASSUME IInv, IInv', DustBounded, [Next]_vars PROVE DustBounded'
    OBVIOUS
  <2>1. CASE UNCHANGED vars
    BY <2>1 DEF vars, potVars, resultVars, positionVars, DustBounded, ClaimsMade, OpenPositions,
                Live, WinningStake, SharePaid, InitialRake
  <2>2. CASE Next /\ status = "SETTLED"
    BY <2>2, DustAtClaim, DustElsewhere
  <2>3. CASE Next /\ status # "SETTLED" /\ status' = "SETTLED"
    <3>1. \E w \in Bucket : status = "LOCKED" /\ Decide(w) /\ Kept
      BY <2>3, SettledBySettling DEF SettlePot, SettleMarket, VoidIt, Kept
    <3> QED BY <2>3, <3>1, DustAtDecision
  <2>4. CASE status' # "SETTLED"
    BY <2>4 DEF DustBounded
  <2> QED BY <2>1, <2>2, <2>3, <2>4
<1>3. IInv /\ DustBounded => DustOnly
  <2> SUFFICES ASSUME IInv, DustBounded, status = "SETTLED", \A p \in Player : Owed(p) = 0
               PROVE  vault - gifted - rake < participants
    BY DEF DustOnly
  <2>1. /\ winnersStake \in Nat \ {0} /\ distributable \in Nat /\ rake \in Nat /\ SharePaid \in Nat
        /\ vault = gifted + rake + Live + (distributable - SharePaid)
    BY SettledVault
  <2>2. /\ stake \in [Player -> Nat] /\ N \in Nat /\ gifted \in Nat /\ participants \in Nat
    BY ConstantsTyped DEF IInv, TypeOK
  <2>3. Live = 0
    <3>1. ASSUME NEW p \in Player PROVE WinningStake[p] = 0
      <4>1. CASE Won(p)
        <5>1. stake[p] + (distributable * stake[p]) \div winnersStake = 0
          BY <4>1 DEF Owed, Won, WinnerPayout
        <5>2. (distributable * stake[p]) \div winnersStake \in Nat /\ stake[p] \in Nat
          BY <4>1, WinnerShare
        <5> QED BY <5>1, <5>2 DEF WinningStake
      <4>2. CASE ~ Won(p)
        BY <4>2 DEF WinningStake, Won
      <4> QED BY <4>1, <4>2
    <3>2. WinningStake \in [1..N -> Int]
      BY <2>2 DEF WinningStake, Player
    <3> QED BY <2>2, <3>1, <3>2, SumOfZeros DEF Live, Player
  <2>4. /\ participants \in Nat \ {0} /\ ClaimsMade \in Nat /\ ClaimsMade <= participants
        /\ distributable * winnersStake <= SharePaid * winnersStake + ClaimsMade * (winnersStake - 1)
    <3>1. winnersStake - Live = winnersStake
      BY <2>1, <2>3
    <3> QED BY <2>2, <3>1 DEF DustBounded
  <2>5. distributable - SharePaid < participants
    BY <2>1, <2>4, DustBelow
  <2> HIDE DEF Live, SharePaid, ClaimsMade
  <2> QED BY <2>1, <2>2, <2>3, <2>5
<1> QED BY <1>1, <1>2, <1>3, Invariance, PTL DEF Spec

-----------------------------------------------------------------------------
(* The program beside the engine *)

(* What a settle handler decides on, for as long as it can still be read off *)
(* the positions: the first claim takes the sum of the stakes below what was *)
(* staked, for good.                                                         *)
AsDecided ==
  status = "SETTLED" =>
    /\ participants >= MinParticipants
    /\ distributable = (totalStake - winnersStake)
                         - ((totalStake - winnersStake) * RakeBps) \div BpsDenom
    /\ SumTo(stake, N) <= totalStake
    /\ SumTo(stake, N) = totalStake =>
         Live = winnersStake /\ participants = Cardinality(OpenPositions)

\* A settle handler that settles establishes it.
LEMMA DecisionAsDecided ==
  ASSUME IInv, status = "LOCKED", NEW w \in Bucket, Decide(w), Kept, ~Thin,
         status' = "SETTLED"
  PROVE  AsDecided'
<1>1. /\ winnersStake' = bucketTotals[w] /\ winningBucket' = w
      /\ rake' = ((totalStake - bucketTotals[w]) * RakeBps) \div BpsDenom
      /\ distributable' = (totalStake - bucketTotals[w]) - rake'
  BY DEF Decide, VoidIt, Losers
<1>2. /\ participants' = participants /\ stake' = stake /\ bucket' = bucket
      /\ totalStake' = totalStake
  BY DEF Kept, positionVars
<1>3. /\ bucketTotals[w] = StakeIn(w) /\ totalStake = SumTo(stake, N)
      /\ participants = Cardinality(OpenPositions)
  BY DEF IInv, Undecided, Final, OpenPositions
<1>4. participants >= MinParticipants
  <2>1. participants \in Nat /\ MinParticipants \in Nat
    BY ConstantsTyped, ConfigAssumption DEF IInv, TypeOK
  <2> QED BY <2>1 DEF Thin
<1>5. Live' = winnersStake'
  BY <1>1, <1>2, <1>3 DEF Live, WinningStake, StakeIn
<1>6. SumTo(stake, N)' = totalStake' /\ totalStake \in Nat
  BY <1>2, <1>3 DEF IInv, TypeOK
<1>7. OpenPositions' = OpenPositions
  BY <1>2 DEF OpenPositions
<1>8. distributable' = (totalStake' - winnersStake')
                         - ((totalStake' - winnersStake') * RakeBps) \div BpsDenom
  BY <1>1, <1>2
<1> QED BY <1>2, <1>3, <1>4, <1>5, <1>6, <1>7, <1>8 DEF AsDecided

\* A claim takes its position out of the stakes.
LEMMA ClaimAsDecided ==
  ASSUME IInv, AsDecided, status = "SETTLED", NEW p \in Player, Claim(p)
  PROVE  AsDecided'
<1>1. /\ stake[p] > 0 /\ stake' = [stake EXCEPT ![p] = 0] /\ participants' = participants
      /\ winnersStake' = winnersStake /\ distributable' = distributable
      /\ totalStake' = totalStake
  BY DEF Claim, resultVars
<1>2. stake \in [1..N -> Nat] /\ totalStake \in Nat /\ N \in Nat
  BY ConstantsTyped DEF IInv, TypeOK, Player
<1> DEFINE f == stake
           g == stake'
<1>3. /\ f \in [1..N -> Int] /\ g \in [1..N -> Int] /\ p \in 1..N
      /\ g[p] = 0 /\ f[p] \in Nat \ {0}
  BY <1>1, <1>2 DEF Player
<1>4. \A k \in 1..N : k # p => g[k] = f[k]
  BY <1>1, <1>2
<1>5. SumTo(f, N) \in Int
  BY <1>2, <1>3, SumType
<1> HIDE DEF f, g
<1>6. SumTo(g, N) = SumTo(f, N) + (g[p] - f[p])
  <2>1. N \in Nat /\ f \in [1..N -> Int] /\ g \in [1..N -> Int] /\ p \in 1..N
    BY <1>2, <1>3
  <2> QED BY ONLY <2>1, <1>4, SumUpdate
<1>7. SumTo(f, N) <= totalStake
  BY DEF AsDecided, f
<1>8. SumTo(g, N) < totalStake /\ SumTo(g, N) \in Int
  BY ONLY <1>2, <1>3, <1>5, <1>6, <1>7
<1>9. SumTo(stake, N)' <= totalStake' /\ SumTo(stake, N)' # totalStake'
  BY <1>1, <1>2, <1>8 DEF g
<1> QED BY <1>1, <1>9 DEF AsDecided

\* No other step touches what it speaks of.
LEMMA AsDecidedElsewhere ==
  ASSUME AsDecided, status = "SETTLED", Next, ~ \E p \in Player : Claim(p)
  PROVE  AsDecided'
<1>1. UNCHANGED <<participants, totalStake, winningBucket, winnersStake, distributable, stake, bucket>>
  BY DEF Next, CreatePot, CreateMarketSpec, SpecAllowed, PlaceCall, CallsOpen, LockPot, SettlePot,
     SettleMarket, VoidPot, MayVoid, SweepRake, Publish, Gift, Tick, potVars, resultVars, positionVars
<1>2. Live' = Live /\ OpenPositions' = OpenPositions
  BY <1>1 DEF Live, WinningStake, OpenPositions
<1> QED BY <1>1, <1>2 DEF AsDecided

\* It is an invariant.
LEMMA AlwaysAsDecided == Spec => []AsDecided
<1>1. Init => AsDecided
  BY DEF Init, AsDecided
<1>2. IInv /\ AsDecided /\ [Next]_vars => AsDecided'
  <2> SUFFICES ASSUME IInv, AsDecided, [Next]_vars PROVE AsDecided'
    OBVIOUS
  <2>1. CASE UNCHANGED vars
    BY <2>1 DEF vars, potVars, resultVars, positionVars, AsDecided, OpenPositions, Live,
                WinningStake
  <2>2. CASE Next /\ status = "SETTLED"
    BY <2>2, ClaimAsDecided, AsDecidedElsewhere
  <2>3. CASE Next /\ status # "SETTLED" /\ status' = "SETTLED"
    <3>1. \E w \in Bucket : status = "LOCKED" /\ Decide(w) /\ Kept /\ ~Thin
      BY <2>3, SettledBySettling DEF SettlePot, SettleMarket, VoidIt, Kept
    <3> QED BY <2>3, <3>1, DecisionAsDecided
  <2>4. CASE status' # "SETTLED"
    BY <2>4 DEF AsDecided
  <2> QED BY <2>1, <2>2, <2>3, <2>4
<1> QED BY <1>1, <1>2, Invariance, PTL DEF Spec

\* The engine's view of a settled pot that nobody has claimed from: the callers,
\* the pool and what is withheld from it are the program's.
LEMMA SamePool ==
  ASSUME IInv, AsDecided, status = "SETTLED", SumTo(stake, N) = totalStake
  PROVE  /\ Callers(Book) = OpenPositions
         /\ WinnersStake(Book, winningBucket) = winnersStake
         /\ Gross(Book) = totalStake
         /\ LosersStake(Book, winningBucket) = totalStake - winnersStake
         /\ Distributable(Book, winningBucket, RakeBps) = distributable
<1>1. Book.stake = stake /\ Book.bucket = bucket /\ Book.n = N
  BY DEF Book
<1>2. stake \in [Player -> Nat] /\ N \in Nat
  BY ConstantsTyped DEF IInv, TypeOK
<1>3. Callers(Book) = OpenPositions
  BY <1>1 DEF Callers, OpenPositions, Player
<1>4. WinnersStake(Book, winningBucket) = winnersStake
  <2> DEFINE won == [p \in 1..N |-> IF Wins(Book, winningBucket, p) THEN Book.stake[p] ELSE 0]
  <2>1. WinnersStake(Book, winningBucket) = SumTo(won, N)
    BY <1>1 DEF WinnersStake
  <2>2. ASSUME NEW p \in 1..N PROVE won[p] = WinningStake[p]
    <3>1. /\ won[p] = IF stake[p] > 0 /\ bucket[p] = winningBucket THEN stake[p] ELSE 0
          /\ WinningStake[p] = IF bucket[p] = winningBucket THEN stake[p] ELSE 0
      BY <1>1 DEF Wins, WinningStake, Player
    <3>2. stake[p] \in Nat
      BY <1>2 DEF Player
    <3> QED BY <3>1, <3>2
  <2>3. WinningStake = [p \in 1..N |-> WinningStake[p]] /\ won = [p \in 1..N |-> won[p]]
    BY DEF WinningStake, Player
  <2> HIDE DEF won
  <2>4. won = WinningStake
    BY <2>2, <2>3
  <2> QED BY <2>1, <2>4 DEF AsDecided, Live
<1>5. Gross(Book) = totalStake
  BY <1>1 DEF Gross
<1>6. LosersStake(Book, winningBucket) = totalStake - winnersStake
  BY <1>4, <1>5 DEF LosersStake
<1>7. Distributable(Book, winningBucket, RakeBps) = distributable
  BY <1>6 DEF Distributable, RakeOf, AsDecided, BpsDenom
<1> QED BY <1>3, <1>4, <1>5, <1>6, <1>7

\* What the engine pays one player is what the program owes, or one unit more.
LEMMA SamePayout ==
  ASSUME IInv, AsDecided, status = "SETTLED", SumTo(stake, N) = totalStake, NEW p \in Player
  PROVE  EnginePayout(p) - Owed(p) \in {0, 1}
<1> DEFINE w == winningBucket
           left == DustLeft(Book, w, RakeBps)
           one == [k \in 1..N |-> IF Wins(Book, w, k) THEN 1 ELSE 0]
           c == PrefixSums(one, N)
<1>1. Book.stake = stake /\ Book.bucket = bucket /\ Book.n = N
  BY DEF Book
<1>2. /\ stake \in [Player -> Nat] /\ N \in Nat /\ winnersStake \in Nat \ {0}
      /\ distributable \in Nat /\ RakeBps \in Bps /\ p \in 1..N
  <2>1. winnersStake \in Nat \ {0} /\ distributable \in Nat
    BY SettledVault
  <2>2. stake \in [Player -> Nat] /\ N \in Nat /\ RakeBps \in 0..1000
    BY ConstantsTyped DEF IInv, TypeOK
  <2>3. RakeBps \in Bps
    BY ONLY <2>2 DEF Bps
  <2>4. p \in 1..N
    BY DEF Player
  <2> QED BY ONLY <2>1, <2>2, <2>3, <2>4
<1>3. /\ WinnersStake(Book, w) = winnersStake
      /\ Distributable(Book, w, RakeBps) = distributable
  BY SamePool
<1>4. Dust(Book, w, RakeBps) \in Nat
  <2>1. Book.n \in Nat /\ Book.stake \in [1..Book.n -> Nat] /\ WinnersStake(Book, w) # 0
    BY <1>1, <1>2, <1>3 DEF Player
  <2> QED BY ONLY <2>1, <1>2, DustIsSmall
<1>5. one \in [1..N -> Int]
  OBVIOUS
<1>6. c \in [0..N -> Int] /\ c[0] = 0 /\ \A k \in 1..N : c[k] = c[k-1] + one[k]
  <2> HIDE DEF one
  <2> QED BY <1>2, <1>5, PrefixSumsValues
<1>7. \A k \in 1..N : c[k] = c[k-1] + (IF Wins(Book, w, k) THEN 1 ELSE 0)
  BY <1>6
<1>8. left[p-1] - left[p] \in {0, 1}
  <2> HIDE DEF c, w
  <2>1. /\ Book.n \in Nat /\ c \in [0..Book.n -> Int] /\ c[0] = 0
        /\ \A k \in 1..Book.n : c[k] = c[k-1] + (IF Wins(Book, w, k) THEN 1 ELSE 0)
    BY <1>1, <1>2, <1>6, <1>7
  <2>2. \A k \in 1..Book.n :
          DustLeft(Book, w, RakeBps)[k-1] - DustLeft(Book, w, RakeBps)[k] \in {0, 1}
    BY ONLY <1>4, <2>1, DustHandedOut
  <2> QED BY <1>1, <1>2, <2>2
<1>9. Wins(Book, w, p) <=> stake[p] > 0 /\ Won(p)
  BY <1>1 DEF Wins, Won
<1> DEFINE product == distributable * stake[p]
           q == product \div winnersStake
<1>10. q \in Nat
  <2>1. product \in Nat
    BY <1>2 DEF Player
  <2> HIDE DEF product
  <2> QED BY <1>2, <2>1, DivBounds
<1>11. CASE Wins(Book, w, p)
  <2>1. Owed(p) = stake[p] + q
    BY <1>9, <1>11 DEF Owed, Won, WinnerPayout
  <2>2. EnginePayout(p) = stake[p] + q + (left[p-1] - left[p])
    BY <1>1, <1>3, <1>11 DEF EnginePayout, Payout, Share
  <2>3. stake[p] \in Nat
    BY <1>2
  <2> HIDE DEF q, left
  <2> QED BY <1>8, <1>10, <2>1, <2>2, <2>3
<1>12. CASE ~Wins(Book, w, p)
  <2>1. EnginePayout(p) = 0
    BY <1>12 DEF EnginePayout, Payout
  <2>2. Owed(p) = 0
    <3>1. CASE Won(p)
      <4>1. stake[p] = 0
        BY <1>2, <1>9, <1>12, <3>1
      <4>2. product = 0 /\ 0 \div winnersStake = 0
        BY <1>2, <4>1
      <4> QED BY <3>1, <4>1, <4>2 DEF Owed, Won, WinnerPayout
    <3>2. CASE ~Won(p)
      BY <3>2 DEF Owed
    <3> QED BY <3>1, <3>2
  <2> QED BY <2>1, <2>2
<1> QED BY <1>11, <1>12

\* The program and the engine settle the same stakes alike: both would settle, they
\* withhold the same rake, and the engine pays each player what claim will, or
\* one unit of dust more, with nothing left over (claim, settleParimutuel).
THEOREM EngineAlwaysAgrees == Spec => []EngineAgrees
<1>1. IInv /\ AsDecided => EngineAgrees
  <2> SUFFICES ASSUME IInv, AsDecided, status = "SETTLED", SumTo(stake, N) = totalStake
               PROVE  /\ ~Voids(Book, winningBucket, MinParticipants)
                      /\ Distributable(Book, winningBucket, RakeBps) = distributable
                      /\ \A p \in Player : EnginePayout(p) - Owed(p) \in {0, 1}
                      /\ SumTo([p \in Player |-> EnginePayout(p)], N)
                           = winnersStake + distributable
    BY DEF EngineAgrees
  <2>1. /\ Callers(Book) = OpenPositions
        /\ WinnersStake(Book, winningBucket) = winnersStake
        /\ Gross(Book) = totalStake
        /\ LosersStake(Book, winningBucket) = totalStake - winnersStake
        /\ Distributable(Book, winningBucket, RakeBps) = distributable
    BY SamePool
  <2>2. /\ stake \in [Player -> Nat] /\ N \in Nat /\ winnersStake \in Nat \ {0}
        /\ distributable \in Nat /\ totalStake \in Nat /\ RakeBps \in Bps
        /\ MinParticipants \in Nat
        /\ participants \in Nat /\ participants > 0
    <3>1. Live = winnersStake /\ participants = Cardinality(OpenPositions)
      BY DEF AsDecided
    <3>2. /\ stake \in [Player -> Nat] /\ N \in Nat /\ winnersStake \in Nat \ {0}
          /\ distributable \in Nat /\ totalStake \in Nat /\ RakeBps \in Bps
          /\ MinParticipants \in Nat /\ participants \in Nat
      <4>1. winnersStake \in Nat \ {0} /\ distributable \in Nat
        BY SettledVault
      <4>2. /\ stake \in [Player -> Nat] /\ N \in Nat /\ totalStake \in 0..U64-1 /\ U64 \in Nat
            /\ participants \in 0..N /\ RakeBps \in 0..1000
        BY ConstantsTyped DEF IInv, TypeOK
      <4>3. MinParticipants \in Nat
        BY ConfigAssumption
      <4>4. RakeBps \in Bps
        BY ONLY <4>2 DEF Bps
      <4>5. totalStake \in Nat /\ participants \in Nat
        BY ONLY <4>2
      <4> QED BY ONLY <4>1, <4>2, <4>3, <4>4, <4>5
    <3>3. ASSUME OpenPositions = {} PROVE FALSE
      <4>1. WinningStake \in [1..N -> Int] /\ \A k \in 1..N : WinningStake[k] = 0
        BY <3>2, <3>3 DEF OpenPositions, WinningStake, Player
      <4>2. Live = 0
        BY <3>2, <4>1, SumOfZeros DEF Live
      <4> QED BY <3>1, <3>2, <4>2
    <3>4. Cardinality(OpenPositions) # 0
      <4>1. OpenPositions \subseteq Player
        BY DEF OpenPositions
      <4> HIDE DEF OpenPositions
      <4> QED BY <3>3, <4>1, PlayersFinite, FS_EmptySet
    <3> QED BY <3>1, <3>2, <3>4
  <2>3. ~Voids(Book, winningBucket, MinParticipants)
    <3>1. participants = Cardinality(OpenPositions) /\ participants >= MinParticipants
      BY DEF AsDecided
    <3>2. Callers(Book) # {}
      BY <2>1, <2>2, <3>1, FS_EmptySet
    <3>3. ~ (Cardinality(Callers(Book)) < MinParticipants)
      BY <2>1, <2>2, <3>1
    <3> QED BY <2>1, <2>2, <3>2, <3>3 DEF Voids
  <2>4. \A p \in Player : EnginePayout(p) - Owed(p) \in {0, 1}
    BY SamePayout
  <2>5. SumTo([p \in Player |-> EnginePayout(p)], N) = winnersStake + distributable
    <3> DEFINE pay == [p \in Player |-> EnginePayout(p)]
               R == RakeOf(Book, winningBucket, RakeBps)
    <3>1. /\ Book.n \in Nat /\ Book.stake \in [1..Book.n -> Nat] /\ Book.n = N
          /\ WinnersStake(Book, winningBucket) # 0
      BY <2>1, <2>2 DEF Book, Player
    <3>2. [p \in 1..Book.n |-> Payout(Book, winningBucket, RakeBps, p)] \in [1..Book.n -> Int]
      BY ONLY <3>1, <2>2, PayoutType
    <3>3. pay = [p \in 1..Book.n |-> Payout(Book, winningBucket, RakeBps, p)]
      BY <3>1 DEF EnginePayout, Player
    <3>4. pay \in [1..Book.n -> Int]
      BY <3>2, <3>3
    <3>5. \A p \in 1..Book.n : pay[p] = Payout(Book, winningBucket, RakeBps, p)
      BY <3>3
    <3> HIDE DEF pay
    <3>6. SumTo(pay, Book.n) + RakeOf(Book, winningBucket, RakeBps) = Gross(Book)
      BY ONLY <3>1, <3>4, <3>5, <2>2, ParimutuelExact
    <3>7. RakeOf(Book, winningBucket, RakeBps) \in Nat
      BY ONLY <3>1, <2>2, PoolSplit
    <3>8. SumTo(pay, N) \in Int
      BY <2>2, <3>1, <3>4, SumType
    <3>9. distributable = (totalStake - winnersStake) - R
      BY <2>1 DEF Distributable
    <3> HIDE DEF R
    <3>10. SumTo(pay, N) + R = totalStake /\ R \in Nat
      BY <2>1, <3>1, <3>6, <3>7 DEF R
    <3>11. SumTo(pay, N) = winnersStake + distributable
      BY <2>2, <3>8, <3>9, <3>10
    <3> QED BY <3>11 DEF pay
  <2> QED BY <2>1, <2>3, <2>4, <2>5
<1> QED BY <1>1, Invariance, AlwaysAsDecided, PTL

=============================================================================
