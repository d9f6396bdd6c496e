------------------------ MODULE MatchSettlementProofs ------------------------
(***************************************************************************)
(* Proofs about MatchSettlement for any number of players,                 *)
(* markets, overlapping ticks and restarts, any stakes and any rake.       *)
(***************************************************************************)
EXTENDS MatchSettlement, SumLemmas

-----------------------------------------------------------------------------
(* The inductive invariant *)

Closed(m, p) == stake[m][p] > 0 /\ ~open[m][p]

(* Before the match is resolved every call is open; after it, the outcomes are *)
(* the results of a corroborated score, and what a call was paid is its due.   *)
BookInv ==
  /\ \A m \in Market, p \in Player : open[m][p] => stake[m][p] > 0
  /\ status # "RESOLVED" => \A m \in Market, p \in Player : ~Closed(m, p)
  /\ status = "RESOLVED" => rooted /\ outcome = result
  /\ \A m \in Market : settled[m] => status = "RESOLVED"
PaidInv ==
  \A m \in Market, p \in Player : credit[m][p] = IF Closed(m, p) THEN Due(m, p) ELSE 0

(* A tick that is past the verifier has a corroborated score; one that settles a *)
(* market still has every open call of it to pay.                                *)
TickInv(t) ==
  /\ pc[t] # "idle" => status # "OPEN"
  /\ pc[t] \in {"appending", "publishing", "settling"} => rooted
  /\ pc[t] \in {"publishing", "settling"} => status = "RESOLVED"
  /\ pc[t] = "publishing" => expected[t] # None
  /\ unpaid[t] # {} => pc[t] = "appending" /\ current[t] # 0
  /\ pc[t] = "appending" /\ current[t] # 0 =>
       /\ status = "RESOLVED"
       /\ \A p \in Player : open[current[t]][p] => p \in unpaid[t]

IInv == TypeOK /\ BookInv /\ PaidInv /\ SettledIsPaid /\ \A t \in Ticks : TickInv(t)

-----------------------------------------------------------------------------
(* Dues *)

\* What the assumption says of the constants other than the rake.
LEMMA ConstantsTyped ==
  /\ N \in Nat /\ Markets \in Nat /\ Amounts \subseteq Nat \ {0} /\ MaxCrashes \in Nat
  /\ None \notin Int /\ Player = 1..N /\ Market = 1..Markets
<1>1. N \in Nat /\ Markets \in Nat /\ MaxCrashes \in Nat
  BY SettlementAssumption
<1>2. Amounts \subseteq Nat \ {0}
  BY SettlementAssumption
<1>3. None \notin Int
  BY SettlementAssumption
<1> QED BY ONLY <1>1, <1>2, <1>3 DEF Player, Market

\* A market of the engine, as settleParimutuel is given it.
LEMMA MarketShape ==
  ASSUME NEW m \in Market, stake \in [Market -> [Player -> Nat]]
  PROVE  /\ MarketCalls(m).n = N /\ MarketCalls(m).stake = stake[m]
         /\ MarketCalls(m).n \in Nat
         /\ MarketCalls(m).stake \in [1..MarketCalls(m).n -> Nat]
         /\ RakeBps \in Bps
         /\ Callers(MarketCalls(m)) = {p \in Player : stake[m][p] > 0}
<1>1. MarketCalls(m).n = N /\ MarketCalls(m).stake = stake[m] /\ N \in Nat
  <2>1. N \in Nat
    BY ConstantsTyped
  <2> QED BY ONLY <2>1 DEF MarketCalls
<1>2. RakeBps \in Bps
  <2>1. RakeBps \in Nat /\ RakeBps <= 10000
    BY SettlementAssumption
  <2> QED BY ONLY <2>1 DEF Bps
<1> QED BY <1>1, <1>2 DEF Callers, Player

\* The dues and the rake of a market are amounts, and they make up its stakes.
LEMMA DuesExact ==
  ASSUME NEW m \in Market, stake \in [Market -> [Player -> Nat]]
  PROVE  /\ MarketRake(m) \in Nat
         /\ \A p \in Player : Due(m, p) \in Nat /\ (stake[m][p] = 0 => Due(m, p) = 0)
         /\ \A pay \in [Player -> Int] :
              (\A p \in Player : pay[p] = Due(m, p)) =>
                SumTo(pay, N) + MarketRake(m) = SumTo(stake[m], N)
<1> DEFINE mk == MarketCalls(m)
           w == outcome[m]
<1>1. /\ mk.n = N /\ mk.stake = stake[m] /\ RakeBps \in Bps
      /\ mk.n \in Nat /\ mk.stake \in [1..mk.n -> Nat] /\ Player = 1..N
  BY MarketShape DEF Player
<1>2. stake[m] \in [1..N -> Nat] /\ N \in Nat
  BY <1>1
<1> HIDE DEF mk, w
<1>3. CASE Refunds(m)
  <2>1. MarketRake(m) = 0 /\ \A p \in Player : Due(m, p) = stake[m][p]
    BY <1>3 DEF MarketRake, Due
  <2>2. ASSUME NEW pay \in [Player -> Int], \A p \in Player : pay[p] = Due(m, p)
        PROVE  SumTo(pay, N) + MarketRake(m) = SumTo(stake[m], N)
    <3>1. pay = stake[m]
      BY <1>1, <1>2, <2>1, <2>2
    <3>2. SumTo(stake[m], N) \in Nat
      BY <1>2, SumGeqElement
    <3> QED BY <2>1, <3>1, <3>2
  <2> QED BY <1>1, <1>2, <2>1, <2>2
<1>4. CASE ~Refunds(m)
  <2>1. WinnersStake(mk, w) # 0
    BY <1>4 DEF Refunds, Voids, mk, w
  <2>2. /\ MarketRake(m) = RakeOf(mk, w, RakeBps)
        /\ \A p \in Player : Due(m, p) = Payout(mk, w, RakeBps, p)
    BY <1>4 DEF MarketRake, Due, mk, w
  <2>3. RakeOf(mk, w, RakeBps) \in Nat
    BY <1>1, PoolSplit
  <2> DEFINE exact == [p \in 1..mk.n |-> Payout(mk, w, RakeBps, p)]
  <2>4. ASSUME NEW pay \in [1..mk.n -> Int],
               \A p \in 1..mk.n : pay[p] = Payout(mk, w, RakeBps, p)
        PROVE  /\ \A p \in 1..mk.n : pay[p] \in Nat
               /\ SumTo(pay, mk.n) + RakeOf(mk, w, RakeBps) = Gross(mk)
    BY <1>1, <2>1, <2>4, ParimutuelExact
  <2>5. Gross(mk) = SumTo(stake[m], N)
    BY <1>1 DEF Gross
  <2>6. \A p \in Player : Due(m, p) \in Nat
    <3>1. exact \in [1..mk.n -> Int]
      BY <1>1, <2>1, PayoutType
    <3>2. \A p \in 1..mk.n : exact[p] = Payout(mk, w, RakeBps, p)
      OBVIOUS
    <3> HIDE DEF exact
    <3>3. \A p \in 1..mk.n : exact[p] \in Nat
      BY <2>4, <3>1, <3>2
    <3> QED BY <1>1, <2>2, <3>2, <3>3
  <2>7. \A p \in Player : stake[m][p] = 0 => Due(m, p) = 0
    BY <1>1, <1>2, <2>2 DEF Payout, Wins
  <2>8. ASSUME NEW pay \in [Player -> Int], \A p \in Player : pay[p] = Due(m, p)
        PROVE  SumTo(pay, N) + MarketRake(m) = SumTo(stake[m], N)
    <3>1. pay \in [1..mk.n -> Int] /\ \A p \in 1..mk.n : pay[p] = Payout(mk, w, RakeBps, p)
      BY <1>1, <2>2, <2>8
    <3>2. SumTo(pay, mk.n) + RakeOf(mk, w, RakeBps) = Gross(mk)
      BY <2>4, <3>1
    <3> QED BY <1>1, <2>2, <2>5, <3>2
  <2> QED BY <2>2, <2>3, <2>6, <2>7, <2>8
<1> QED BY <1>3, <1>4

\* Dues change only with the calls and the outcomes.
LEMMA DuesKept ==
  ASSUME UNCHANGED <<calls, outcome>>
  PROVE  \A m, p : Due(m, p)' = Due(m, p)
BY DEF calls, Due, Refunds, MarketCalls

-----------------------------------------------------------------------------
(* Every step preserves the invariant *)

\* What TypeOK says of the stakes.
LEMMA StakesTyped == ASSUME TypeOK PROVE stake \in [Market -> [Player -> Nat]]
<1>1. ASSUME NEW m \in Market PROVE stake[m] \in [Player -> Nat]
  <2>1. {0} \cup Amounts \subseteq Nat
    <3>1. Amounts \subseteq Nat \ {0}
      BY ConstantsTyped
    <3> QED BY ONLY <3>1
  <2>2. stake[m] \in [Player -> {0} \cup Amounts]
    BY DEF TypeOK
  <2> QED BY <2>1, <2>2
<1> QED BY <1>1 DEF TypeOK

\* The initial states satisfy the invariant.
LEMMA InitIInv == Init => IInv
<1> SUFFICES ASSUME Init PROVE IInv
  OBVIOUS
<1>1. TypeOK
  <2>1. 0 \in Bucket /\ MaxCrashes \in Nat
    BY SettlementAssumption DEF Bucket
  <2>2. /\ status \in {"OPEN", "LOCKED", "RESOLVED"}
        /\ finished \in BOOLEAN /\ rooted \in BOOLEAN /\ result \in [Market -> Outcome]
        /\ outcome \in [Market -> Outcome \cup {None}] /\ settled \in [Market -> BOOLEAN]
    BY DEF Init
  <2>3. /\ stake \in [Market -> [Player -> {0} \cup Amounts]]
        /\ bucket \in [Market -> [Player -> Bucket]]
        /\ open \in [Market -> [Player -> BOOLEAN]]
        /\ credit \in [Market -> [Player -> Nat]]
    BY <2>1 DEF Init
  <2>4. 0 \in 0..Markets
    BY SettlementAssumption
  <2>5. /\ managersPot \in Nat /\ stored \in Nat /\ cached \in Nat \cup {None}
        /\ pc \in [Ticks -> {"idle", "verifying", "settling", "appending", "publishing"}]
        /\ todo \in [Ticks -> SUBSET Market] /\ current \in [Ticks -> 0..Markets]
        /\ unpaid \in [Ticks -> SUBSET Player]
        /\ expected \in [Ticks -> Nat \cup {None}]
        /\ crashes \in 0..MaxCrashes
    BY <2>1, <2>4 DEF Init
  <2> QED BY <2>2, <2>3, <2>5 DEF TypeOK
<1>2. BookInv
  BY DEF Init, BookInv, Closed
<1>3. PaidInv
  BY DEF Init, PaidInv, Closed
<1>4. SettledIsPaid
  BY DEF Init, SettledIsPaid
<1>5. \A t \in Ticks : TickInv(t)
  BY DEF Init, TickInv
<1> QED BY <1>1, <1>2, <1>3, <1>4, <1>5 DEF IInv

\* A step that leaves calls, ledger and the book alone keeps what is paid.
LEMMA PaidKept ==
  ASSUME IInv, UNCHANGED <<book, calls, ledger>>
  PROVE  PaidInv' /\ SettledIsPaid'
<1>1. \A m, p : Due(m, p)' = Due(m, p) /\ Closed(m, p)' = Closed(m, p)
  BY DuesKept DEF book, calls, ledger, Closed
<1>2. PaidInv'
  BY <1>1 DEF IInv, PaidInv, ledger
<1> QED BY <1>2 DEF IInv, SettledIsPaid, book, ledger

\* A call is made while the match is open: no tick is past its kickoff.
LEMMA MakeCallStep ==
  ASSUME IInv, NEW m \in Market, NEW p \in Player, NEW b \in Bucket, NEW a \in Amounts,
         MakeCall(m, p, b, a)
  PROVE  IInv'
<1> USE DEF MakeCall, book, calls, ledger, feed, saga
<1>1. TypeOK'
  <2>1. /\ stake' \in [Market -> [Player -> {0} \cup Amounts]]
        /\ bucket' \in [Market -> [Player -> Bucket]]
        /\ open' \in [Market -> [Player -> BOOLEAN]]
    BY DEF IInv, TypeOK
  <2> QED BY <2>1 DEF IInv, TypeOK
<1>2. a \in Nat /\ a > 0
  <2>1. a \in Amounts /\ Amounts \subseteq Nat \ {0}
    BY ConstantsTyped
  <2> QED BY ONLY <2>1
<1>3. \A n \in Market, q \in Player :
        /\ stake'[n][q] = IF n = m /\ q = p THEN a ELSE stake[n][q]
        /\ open'[n][q] = IF n = m /\ q = p THEN TRUE ELSE open[n][q]
  BY DEF IInv, TypeOK
<1>4. status = "OPEN" /\ status' = status /\ settled' = settled
  OBVIOUS
<1>5. \A n \in Market, q \in Player :
        /\ ~Closed(n, q) /\ (open[n][q] => stake[n][q] > 0)
        /\ ~Closed(n, q)' /\ (open'[n][q] => stake'[n][q] > 0)
  <2>1. \A n \in Market, q \in Player : ~Closed(n, q) /\ (open[n][q] => stake[n][q] > 0)
    BY <1>4 DEF IInv, BookInv
  <2>2. ASSUME NEW n \in Market, NEW q \in Player
        PROVE  ~Closed(n, q)' /\ (open'[n][q] => stake'[n][q] > 0)
    <3>1. CASE n = m /\ q = p
      <4>1. stake'[n][q] = a /\ open'[n][q] = TRUE
        BY <1>3, <3>1
      <4> QED BY <1>2, <4>1 DEF Closed
    <3>2. CASE ~(n = m /\ q = p)
      <4>1. stake'[n][q] = stake[n][q] /\ open'[n][q] = open[n][q]
        BY ONLY <1>3, <2>2, <3>2
      <4> QED BY <2>1, <4>1 DEF Closed
    <3> QED BY <3>1, <3>2
  <2> QED BY <2>1, <2>2
<1>6. BookInv'
  BY <1>4, <1>5 DEF IInv, BookInv
<1>8. PaidInv'
  BY <1>5 DEF IInv, PaidInv
<1>7. SettledIsPaid'
  BY <1>4 DEF IInv, BookInv, SettledIsPaid
<1>9. \A t \in Ticks : TickInv(t)'
  BY DEF IInv, TickInv
<1> QED BY <1>1, <1>6, <1>7, <1>8, <1>9 DEF IInv

\* The feed, the kickoff and the restart.
LEMMA OutsideStep ==
  ASSUME IInv, Finish \/ Root \/ LockMatch \/ Crash
  PROVE  IInv'
<1> USE DEF calls, ledger
<1>1. CASE Finish
  <2>1. TypeOK'
    BY <1>1 DEF IInv, TypeOK, Finish, book, saga
  <2>2. BookInv' /\ \A t \in Ticks : TickInv(t)'
    BY <1>1 DEF IInv, BookInv, Closed, TickInv, Finish, book, saga
  <2>3. PaidInv' /\ SettledIsPaid'
    BY <1>1, PaidKept DEF Finish
  <2> QED BY <2>1, <2>2, <2>3 DEF IInv
<1>2. CASE Root
  <2>1. TypeOK'
    BY <1>2 DEF IInv, TypeOK, Root, book, saga
  <2>2. BookInv' /\ \A t \in Ticks : TickInv(t)'
    BY <1>2 DEF IInv, BookInv, Closed, TickInv, Root, book, saga
  <2>3. PaidInv' /\ SettledIsPaid'
    BY <1>2, PaidKept DEF Root
  <2> QED BY <2>1, <2>2, <2>3 DEF IInv
<1>3. CASE LockMatch
  <2>1. TypeOK'
    BY <1>3 DEF IInv, TypeOK, LockMatch, feed, saga
  <2>2. BookInv' /\ \A t \in Ticks : TickInv(t)'
    BY <1>3 DEF IInv, BookInv, Closed, TickInv, LockMatch, feed, saga
  <2>3. PaidInv'
    <3>1. \A m, p : Due(m, p)' = Due(m, p)
      BY <1>3, DuesKept DEF LockMatch
    <3> QED BY <1>3, <3>1 DEF IInv, PaidInv, Closed, LockMatch
  <2>4. SettledIsPaid'
    BY <1>3 DEF IInv, SettledIsPaid, LockMatch
  <2> QED BY <2>1, <2>2, <2>3, <2>4 DEF IInv
<1>4. CASE Crash
  <2>1. TypeOK'
    <3>1. /\ TypeOK /\ crashes \in Nat /\ crashes' = crashes + 1 /\ crashes < MaxCrashes
          /\ cached' = None
          /\ pc' = [t \in Ticks |-> "idle"] /\ todo' = [t \in Ticks |-> {}]
          /\ current' = [t \in Ticks |-> 0] /\ unpaid' = [t \in Ticks |-> {}]
          /\ expected' = [t \in Ticks |-> None]
          /\ UNCHANGED <<book, calls, ledger, feed>>
      BY <1>4, ConstantsTyped DEF IInv, TypeOK, Crash
    <3>2. crashes' \in 0..MaxCrashes /\ 0 \in 0..Markets
      BY <3>1, ConstantsTyped
    <3> QED BY ONLY <3>1, <3>2 DEF TypeOK, book, calls, ledger, feed
  <2>2. BookInv'
    BY <1>4 DEF IInv, BookInv, Closed, Crash, book, feed
  <2>3. \A t \in Ticks : TickInv(t)'
    BY <1>4 DEF TickInv, Crash
  <2>4. PaidInv' /\ SettledIsPaid'
    BY <1>4, PaidKept DEF Crash
  <2> QED BY <2>1, <2>2, <2>3, <2>4 DEF IInv
<1> QED BY <1>1, <1>2, <1>3, <1>4

\* The steps of a tick that write nothing.
LEMMA QuietStep ==
  ASSUME IInv, NEW t \in Ticks,
         ResolveStart(t) \/ Verify(t) \/ ReadVersion(t) \/ Conflict(t) \/ Publish(t)
  PROVE  IInv'
<1> USE DEF Goto
<1>1. /\ UNCHANGED <<book, calls, ledger, feed>>
      /\ UNCHANGED <<status, rooted, outcome, result, settled, stake, bucket, open, credit>>
  BY DEF ResolveStart, Verify, ReadVersion, Conflict, Publish, book, calls, ledger, feed
<1>2. PaidInv' /\ SettledIsPaid'
  BY <1>1, PaidKept
<1>3. BookInv'
  BY <1>1 DEF IInv, BookInv, Closed
<1>4. CASE ResolveStart(t)
  <2>1. TypeOK'
    BY <1>4 DEF IInv, TypeOK, ResolveStart, book, calls, ledger, feed
  <2>2. \A u \in Ticks : TickInv(u)'
    BY <1>1, <1>4 DEF IInv, TypeOK, TickInv, ResolveStart
  <2> QED BY <1>2, <1>3, <2>1, <2>2 DEF IInv
<1>5. CASE Verify(t)
  <2>1. TypeOK'
    <3>1. 0 \in 0..Markets
      BY ConstantsTyped
    <3> QED BY <1>5, <3>1 DEF IInv, TypeOK, Verify, book, calls, ledger, feed
  <2>2. \A u \in Ticks : TickInv(u)'
    BY <1>1, <1>5 DEF IInv, TypeOK, TickInv, Verify, VerifyGate
  <2> QED BY <1>2, <1>3, <2>1, <2>2 DEF IInv
<1>6. CASE ReadVersion(t)
  <2>1. TypeOK'
    BY <1>6 DEF IInv, TypeOK, ReadVersion, book, calls, ledger, feed
  <2>2. \A u \in Ticks : TickInv(u)'
    <3>1. /\ stored \in Nat /\ None \notin Int /\ pc' = pc /\ unpaid' = unpaid /\ current' = current
          /\ expected' = [expected EXCEPT ![t] = stored] /\ expected \in [Ticks -> Nat \cup {None}]
          /\ status' = status /\ rooted' = rooted /\ open' = open /\ \A u \in Ticks : TickInv(u)
      BY <1>1, <1>6, ConstantsTyped DEF IInv, TypeOK, ReadVersion
    <3>2. \A u \in Ticks : expected[u] # None => expected'[u] # None
      BY ONLY <3>1
    <3> QED BY ONLY <3>1, <3>2 DEF TickInv
  <2> QED BY <1>2, <1>3, <2>1, <2>2 DEF IInv
<1>7. CASE Conflict(t)
  <2>1. TypeOK'
    BY <1>7 DEF IInv, TypeOK, Conflict, book, calls, ledger, feed
  <2>2. \A u \in Ticks : TickInv(u)'
    BY <1>1, <1>7 DEF IInv, TypeOK, TickInv, Conflict, AllPaid
  <2> QED BY <1>2, <1>3, <2>1, <2>2 DEF IInv
<1>8. CASE Publish(t)
  <2>1. TypeOK'
    <3>1. expected[t] \in Nat
      BY <1>8 DEF IInv, TypeOK, TickInv, Publish
    <3>2. cached' \in Nat /\ expected' \in [Ticks -> Nat \cup {None}]
      BY <1>8, <3>1 DEF IInv, TypeOK, Publish
    <3>3. todo' \in [Ticks -> SUBSET Market]
      BY <1>8 DEF IInv, TypeOK, Publish, Worklist
    <3>4. pc' \in [Ticks -> {"idle", "verifying", "settling", "appending", "publishing"}]
      BY <1>8 DEF IInv, TypeOK, Publish
    <3> QED BY <1>8, <3>2, <3>3, <3>4 DEF IInv, TypeOK, Publish, book, calls, ledger, feed
  <2>2. \A u \in Ticks : TickInv(u)'
    <3>1. pc'[t] \in {"idle", "settling"} /\ \A u \in Ticks : u # t => pc'[u] = pc[u] /\ expected'[u] = expected[u]
      BY <1>8 DEF IInv, TypeOK, Publish
    <3>2. current' = current /\ unpaid' = unpaid /\ pc[t] = "publishing"
      BY <1>8 DEF Publish
    <3> QED BY <1>1, <3>1, <3>2 DEF IInv, TickInv
  <2> QED BY <1>2, <1>3, <2>1, <2>2 DEF IInv
<1> QED BY <1>4, <1>5, <1>6, <1>7, <1>8

\* A market's callers are all still to be paid when a tick begins to settle it.
LEMMA SettleMarketStep ==
  ASSUME IInv, NEW t \in Ticks, SettleMarket(t)
  PROVE  IInv'
<1> DEFINE m == CHOOSE m \in todo[t] : \A o \in todo[t] : m <= o
<1>1. /\ UNCHANGED <<book, calls, ledger, feed>>
      /\ UNCHANGED <<status, rooted, outcome, result, settled, stake, bucket, open, credit>>
  BY DEF SettleMarket, book, calls, ledger, feed
<1>2. m \in todo[t] /\ todo[t] \subseteq 1..Markets
  <2>1. todo[t] \subseteq 1..Markets /\ todo[t] # {}
    BY DEF IInv, TypeOK, SettleMarket, Market
  <2>2. \E k \in todo[t] : \A o \in todo[t] : k <= o
    BY <2>1, LeastElement, 1..Markets \subseteq Nat
  <2> QED BY <2>1, <2>2
<1>3. /\ pc' = [pc EXCEPT ![t] = "appending"] /\ pc[t] = "settling"
      /\ current' = [current EXCEPT ![t] = m]
      /\ todo' = [todo EXCEPT ![t] = @ \ {m}]
      /\ unpaid' = [unpaid EXCEPT ![t] = Callers(MarketCalls(m))]
      /\ expected' = expected /\ cached' = cached /\ crashes' = crashes
  BY DEF SettleMarket, Goto
<1> HIDE DEF m
<1>4. m \in Market /\ m \in 0..Markets /\ m # 0
  BY <1>2, SettlementAssumption DEF Market
<1>5. Callers(MarketCalls(m)) = {p \in Player : stake[m][p] > 0}
  BY <1>4, StakesTyped, MarketShape DEF IInv
<1>6. TypeOK'
  <2>1. Callers(MarketCalls(m)) \subseteq Player
    BY <1>5
  <2> QED BY <1>1, <1>3, <1>4, <2>1 DEF IInv, TypeOK, book, calls, ledger, feed
<1>7. BookInv'
  BY <1>1 DEF IInv, BookInv, Closed
<1>8. PaidInv' /\ SettledIsPaid'
  BY <1>1, PaidKept
<1>9. ASSUME NEW u \in Ticks PROVE TickInv(u)'
  <2>1. CASE u = t
    <3>1. pc'[t] = "appending" /\ current'[t] = m /\ unpaid'[t] = {p \in Player : stake[m][p] > 0}
      BY <1>3, <1>5 DEF IInv, TypeOK
    <3>2. status = "RESOLVED" /\ rooted
      BY <1>3 DEF IInv, TickInv
    <3>3. \A p \in Player : open[m][p] => stake[m][p] > 0
      BY <1>4 DEF IInv, BookInv
    <3> QED BY <1>1, <1>4, <2>1, <3>1, <3>2, <3>3 DEF TickInv
  <2>2. CASE u # t
    BY <1>1, <1>3, <2>2 DEF IInv, TypeOK, TickInv
  <2> QED BY <2>1, <2>2
<1> QED BY <1>6, <1>7, <1>8, <1>9 DEF IInv

\* A call is paid its due when it is closed, and only then.
LEMMA PayCallStep ==
  ASSUME IInv, NEW t \in Ticks, NEW p \in Player, PayCall(t, p)
  PROVE  IInv'
<1> DEFINE m == current[t]
<1>i. IF open[m][p]
      THEN /\ open' = [open EXCEPT ![m][p] = FALSE]
           /\ credit' = [credit EXCEPT ![m][p] = @ + Due(m, p)]
      ELSE open' = open /\ credit' = credit
  BY DEF PayCall, StillOpen, ledger
<1>1. /\ pc[t] = "appending" /\ p \in unpaid[t]
      /\ unpaid' = [unpaid EXCEPT ![t] = @ \ {p}]
      /\ UNCHANGED <<book, calls, feed>>
      /\ UNCHANGED <<status, rooted, outcome, result, settled, stake, bucket>>
      /\ pc' = pc /\ todo' = todo /\ current' = current /\ expected' = expected
      /\ cached' = cached /\ crashes' = crashes
  BY DEF PayCall, book, calls, feed
<1>2. m \in Market /\ status = "RESOLVED" /\ rooted
  <2>1. m # 0 /\ m \in 0..Markets
    BY <1>1 DEF IInv, TickInv, TypeOK
  <2>2. m \in Market
    BY <2>1, SettlementAssumption DEF Market
  <2> QED BY <1>1, <2>1, <2>2 DEF IInv, TickInv
<1>3. Due(m, p) \in Nat
  BY <1>2, StakesTyped, DuesExact DEF IInv
<1>4. \A n, q : Due(n, q)' = Due(n, q)
  BY <1>1, DuesKept
<1>5. /\ open \in [Market -> [Player -> BOOLEAN]] /\ credit \in [Market -> [Player -> Nat]]
      /\ unpaid \in [Ticks -> SUBSET Player]
  BY DEF IInv, TypeOK
<1> HIDE DEF m
<1>a. CASE ~open[m][p]
  <2>1. open' = open /\ credit' = credit
    BY <1>i, <1>a DEF m
  <2>2. TypeOK' /\ BookInv' /\ SettledIsPaid'
    <3>1. unpaid' \in [Ticks -> SUBSET Player]
      BY <1>1, <1>5
    <3>2. TypeOK'
      BY <1>1, <2>1, <3>1 DEF IInv, TypeOK, book, calls, feed
    <3> QED BY <1>1, <2>1, <3>2 DEF IInv, BookInv, Closed, SettledIsPaid
  <2>3. PaidInv'
    BY <1>1, <1>4, <2>1 DEF IInv, PaidInv, Closed
  <2>4. ASSUME NEW u \in Ticks PROVE TickInv(u)'
    <3>1. /\ TickInv(u) /\ pc'[u] = pc[u] /\ current'[u] = current[u] /\ expected'[u] = expected[u]
          /\ unpaid'[u] = IF u = t THEN unpaid[t] \ {p} ELSE unpaid[u]
      BY <1>1, <1>5 DEF IInv
    <3> QED BY <1>1, <1>2, <1>a, <2>1, <3>1 DEF TickInv, m
  <2> QED BY <2>2, <2>3, <2>4 DEF IInv
<1>b. SUFFICES ASSUME open[m][p] PROVE IInv'
  BY <1>a
<1>c. /\ open' = [open EXCEPT ![m][p] = FALSE]
      /\ credit' = [credit EXCEPT ![m][p] = @ + Due(m, p)]
  BY <1>i, <1>b DEF m
<1>6. \A n \in Market, q \in Player :
        /\ open'[n][q] = IF n = m /\ q = p THEN FALSE ELSE open[n][q]
        /\ credit'[n][q] = IF n = m /\ q = p THEN credit[n][q] + Due(m, p) ELSE credit[n][q]
  BY <1>c, <1>2, <1>5
<1>7. TypeOK'
  <2>1. open' \in [Market -> [Player -> BOOLEAN]]
    BY <1>c, <1>2, <1>5
  <2>2. credit' \in [Market -> [Player -> Nat]]
    <3>1. credit[m][p] \in Nat /\ credit[m][p] + Due(m, p) \in Nat
      BY <1>2, <1>3, <1>5
    <3> QED BY <1>c, <1>2, <1>5, <3>1
  <2>3. unpaid' \in [Ticks -> SUBSET Player]
    BY <1>1, <1>5
  <2> QED BY <1>1, <2>1, <2>2, <2>3 DEF IInv, TypeOK, book, calls, feed
<1>8. BookInv'
  <2>1. \A n \in Market, q \in Player : open'[n][q] => open[n][q]
    BY <1>6
  <2> QED BY <1>1, <1>2, <2>1 DEF IInv, BookInv
<1>9. PaidInv'
  <2> SUFFICES ASSUME NEW n \in Market, NEW q \in Player
               PROVE  credit'[n][q] = IF Closed(n, q)' THEN Due(n, q) ELSE 0
    BY <1>4 DEF PaidInv
  <2>1. credit[n][q] = IF Closed(n, q) THEN Due(n, q) ELSE 0
    BY DEF IInv, PaidInv
  <2>2. CASE n = m /\ q = p
    <3>1. ~Closed(n, q) /\ Closed(n, q)'
      BY <1>1, <1>2, <1>6, <1>b, <2>2 DEF IInv, BookInv, Closed
    <3>2. credit[n][q] = 0 /\ credit'[n][q] = credit[n][q] + Due(m, p)
      BY <1>6, <2>1, <2>2, <3>1
    <3>3. credit'[n][q] = Due(m, p)
      BY <1>3, <3>2
    <3> QED BY <2>2, <3>1, <3>3
  <2>3. CASE ~(n = m /\ q = p)
    <3>1. Closed(n, q)' = Closed(n, q) /\ credit'[n][q] = credit[n][q]
      BY <1>1, <1>5, <1>6, <2>3 DEF Closed
    <3> QED BY <2>1, <3>1
  <2> QED BY <2>2, <2>3
<1>10. SettledIsPaid'
  BY <1>1, <1>6 DEF IInv, SettledIsPaid
<1>11. ASSUME NEW u \in Ticks PROVE TickInv(u)'
  <2>1. /\ TickInv(u) /\ pc'[u] = pc[u] /\ current'[u] = current[u] /\ expected'[u] = expected[u]
        /\ unpaid'[u] = IF u = t THEN unpaid[t] \ {p} ELSE unpaid[u]
    BY <1>1, <1>5 DEF IInv
  <2>2. pc[u] = "appending" /\ current[u] # 0 => current[u] \in Market
    <3>1. current[u] \in 0..Markets
      BY DEF IInv, TypeOK
    <3>2. Markets \in Nat /\ Market = 1..Markets
      BY ConstantsTyped
    <3> QED BY ONLY <3>1, <3>2
  <2>3. ASSUME pc[u] = "appending", current[u] # 0, NEW q \in Player, open'[current[u]][q]
        PROVE  q \in unpaid'[u]
    <3>1. open[current[u]][q] /\ ~(current[u] = m /\ q = p)
      BY <1>6, <2>2, <2>3
    <3>2. q \in unpaid[u]
      BY <2>1, <2>3, <3>1 DEF TickInv
    <3> QED BY <2>1, <3>1, <3>2 DEF m
  <2>4. unpaid'[u] # {} => unpaid[u] # {}
    BY <2>1
  <2> QED BY <1>1, <2>1, <2>3, <2>4 DEF TickInv
<1> QED BY <1>7, <1>8, <1>9, <1>10, <1>11 DEF IInv

\* The match is resolved on a corroborated score, or a market all of whose calls
\* are closed is settled.
LEMMA AppendStep ==
  ASSUME IInv, NEW t \in Ticks, AppendEvent(t)
  PROVE  IInv'
<1>1. /\ pc[t] = "appending" /\ unpaid[t] = {} /\ Project(t)
      /\ stored' = stored + 1 /\ expected' = [expected EXCEPT ![t] = stored]
      /\ pc' = [pc EXCEPT ![t] = "publishing"]
      /\ UNCHANGED <<calls, ledger, feed>>
      /\ UNCHANGED <<finished, rooted, result, stake, bucket, open, credit>>
      /\ cached' = cached /\ todo' = todo /\ current' = current /\ unpaid' = unpaid
      /\ crashes' = crashes
  BY DEF AppendEvent, AllPaid, Goto, calls, ledger, feed
<1>2. rooted /\ status # "OPEN" /\ stored \in Nat /\ stored # None
  <2>1. rooted /\ status # "OPEN"
    BY <1>1 DEF IInv, TickInv
  <2>2. stored \in Nat /\ None \notin Int
    BY ConstantsTyped DEF IInv, TypeOK
  <2> QED BY ONLY <2>1, <2>2
<1>3. \A m, p : Closed(m, p)' = Closed(m, p)
  BY <1>1 DEF Closed
<1>4. ASSUME status' = "RESOLVED" PROVE \A u \in Ticks : TickInv(u)'
  <2> SUFFICES ASSUME NEW u \in Ticks PROVE TickInv(u)'
    OBVIOUS
  <2>1. CASE u = t
    <3>1. pc'[t] = "publishing" /\ expected'[t] = stored /\ unpaid'[t] = {}
      BY <1>1 DEF IInv, TypeOK
    <3> QED BY <1>1, <1>2, <1>4, <2>1, <3>1 DEF TickInv
  <2>2. CASE u # t
    <3>1. pc'[u] = pc[u] /\ expected'[u] = expected[u]
      BY <1>1, <2>2 DEF IInv, TypeOK
    <3> QED BY <1>1, <1>4, <3>1 DEF IInv, TickInv
  <2> QED BY <2>1, <2>2
<1>5. /\ pc' \in [Ticks -> {"idle", "verifying", "settling", "appending", "publishing"}]
      /\ expected' \in [Ticks -> Nat \cup {None}] /\ stored' \in Nat
  BY <1>1, <1>2 DEF IInv, TypeOK
<1>6. CASE current[t] = 0
  <2>1. status' = "RESOLVED" /\ outcome' = result /\ settled' = settled /\ managersPot' = managersPot
    BY <1>1, <1>6 DEF Project
  <2>2. TypeOK'
    <3>1. outcome' \in [Market -> Outcome \cup {None}]
      BY <2>1 DEF IInv, TypeOK
    <3> QED BY <1>1, <1>5, <2>1, <3>1 DEF IInv, TypeOK
  <2>3. BookInv'
    BY <1>1, <1>2, <1>3, <2>1 DEF IInv, BookInv
  <2>4. PaidInv'
    <3>1. CASE status = "RESOLVED"
      <4>1. outcome' = outcome
        BY <2>1, <3>1 DEF IInv, BookInv
      <4>2. \A m, p : Due(m, p)' = Due(m, p)
        BY <1>1, <4>1, DuesKept
      <4> QED BY <1>1, <1>3, <4>2 DEF IInv, PaidInv
    <3>2. CASE status # "RESOLVED"
      BY <1>1, <1>3, <3>2 DEF IInv, BookInv, PaidInv
    <3> QED BY <3>1, <3>2
  <2>5. SettledIsPaid'
    BY <1>1, <2>1 DEF IInv, SettledIsPaid
  <2> QED BY <1>4, <2>1, <2>2, <2>3, <2>4, <2>5 DEF IInv
<1>7. CASE current[t] # 0
  <2> DEFINE m == current[t]
  <2>1. m \in Market /\ status = "RESOLVED" /\ \A p \in Player : ~open[m][p]
    <3>1. m \in Market
      <4>1. current[t] \in 0..Markets
        BY DEF IInv, TypeOK
      <4>2. Markets \in Nat /\ Market = 1..Markets
        BY ConstantsTyped
      <4> QED BY ONLY <1>7, <4>1, <4>2
    <3> QED BY <1>1, <1>7, <3>1 DEF IInv, TickInv
  <2>2. /\ settled' = [settled EXCEPT ![m] = TRUE] /\ managersPot' = managersPot + MarketRake(m)
        /\ status' = status /\ outcome' = outcome
    BY <1>1, <1>7 DEF Project
  <2>3. MarketRake(m) \in Nat
    BY <2>1, StakesTyped, DuesExact DEF IInv
  <2> HIDE DEF m
  <2>4. TypeOK'
    <3>1. settled' \in [Market -> BOOLEAN] /\ managersPot' \in Nat
      BY <2>1, <2>2, <2>3 DEF IInv, TypeOK
    <3> QED BY <1>1, <1>5, <2>2, <3>1 DEF IInv, TypeOK
  <2>5. BookInv'
    BY <1>1, <1>3, <2>1, <2>2 DEF IInv, BookInv
  <2>6. PaidInv'
    <3>1. \A n, p : Due(n, p)' = Due(n, p)
      BY <1>1, <2>2, DuesKept
    <3> QED BY <1>1, <1>3, <3>1 DEF IInv, PaidInv
  <2>7. SettledIsPaid'
    BY <1>1, <2>1, <2>2 DEF IInv, TypeOK, SettledIsPaid
  <2> QED BY <1>4, <2>1, <2>2, <2>4, <2>5, <2>6, <2>7 DEF IInv
<1> QED BY <1>6, <1>7

LEMMA NextIInv == IInv /\ [Next]_vars => IInv'
<1> SUFFICES ASSUME IInv, [Next]_vars PROVE IInv'
  OBVIOUS
<1>1. CASE \E m \in Market, p \in Player, b \in Bucket, a \in Amounts : MakeCall(m, p, b, a)
  BY <1>1, MakeCallStep
<1>2. CASE Finish \/ Root \/ LockMatch \/ Crash
  BY <1>2, OutsideStep
<1>3. ASSUME NEW t \in Ticks, TickStep(t) PROVE IInv'
  <2>1. CASE ResolveStart(t) \/ Verify(t) \/ ReadVersion(t) \/ Conflict(t) \/ Publish(t)
    BY <2>1, QuietStep
  <2>2. CASE SettleMarket(t)
    BY <2>2, SettleMarketStep
  <2>3. CASE AppendEvent(t)
    BY <2>3, AppendStep
  <2> QED BY <1>3, <2>1, <2>2, <2>3 DEF TickStep
<1>4. CASE \E t \in Ticks, p \in Player : PayCall(t, p)
  BY <1>4, PayCallStep
<1>5. CASE UNCHANGED vars
  <2>1. /\ UNCHANGED <<book, calls, ledger, feed, saga>>
        /\ UNCHANGED <<cached, crashes>>
    BY <1>5 DEF vars
  <2>2. TypeOK' /\ BookInv' /\ \A t \in Ticks : TickInv(t)'
    BY <2>1 DEF IInv, TypeOK, BookInv, Closed, TickInv, book, calls, ledger, feed, saga
  <2>3. PaidInv' /\ SettledIsPaid'
    BY <2>1, PaidKept
  <2> QED BY <2>2, <2>3 DEF IInv
<1> QED BY <1>1, <1>2, <1>3, <1>4, <1>5 DEF Next

(* The inductive invariant holds in every reachable state. *)
THEOREM Invariance == Spec => []IInv
BY InitIInv, NextIInv, PTL DEF Spec

-----------------------------------------------------------------------------
(* What follows *)

(* Every field keeps its range: Engine and settleParimutuel never owe a     *)
(* negative amount.                                                         *)
THEOREM TypeCorrect == Spec => []TypeOK
<1>1. IInv => TypeOK
  BY DEF IInv
<1> QED BY <1>1, Invariance, PTL

(* Engine.settleMarket: PotSettled is appended only when every call of the  *)
(* market is closed, however many ticks settle it and whenever it restarts. *)
THEOREM SettledAlwaysPaid == Spec => []SettledIsPaid
<1>1. IInv => SettledIsPaid
  BY DEF IInv
<1> QED BY <1>1, Invariance, PTL

(* Engine.resolveMatch: nothing is paid, resolved or settled on a score that *)
(* nobody has corroborated.                                                  *)
THEOREM AlwaysVerified == Spec => []NothingUnverified
<1>1. IInv => NothingUnverified
  BY DEF IInv, BookInv, Closed, NothingUnverified
<1> QED BY <1>1, Invariance, PTL

\* What a market whose calls are closed has paid are its dues.
LEMMA IInvConserves == IInv => MarketConserves
<1> SUFFICES ASSUME IInv, NEW m \in Market, \A p \in Player : ~open[m][p]
             PROVE  SumTo(credit[m], N) + MarketRake(m) = SumTo(stake[m], N)
  BY DEF MarketConserves
<1>1. stake \in [Market -> [Player -> Nat]]
  BY StakesTyped DEF IInv
<1>2. credit[m] \in [Player -> Int]
  BY DEF IInv, TypeOK
<1>3. ASSUME NEW p \in Player PROVE credit[m][p] = Due(m, p)
  <2>1. credit[m][p] = IF Closed(m, p) THEN Due(m, p) ELSE 0
    BY DEF IInv, PaidInv
  <2>2. ~Closed(m, p) => stake[m][p] = 0
    BY <1>1 DEF Closed
  <2>3. stake[m][p] = 0 => Due(m, p) = 0
    BY <1>1, DuesExact
  <2> QED BY <2>1, <2>2, <2>3
<1> QED BY <1>1, <1>2, <1>3, DuesExact

(* settleParimutuel and Engine.settleMarket: the payouts and the rake of a   *)
(* market are exactly its stakes, whichever ticks and restarts it was settled *)
(* across, for any number of players and any stakes and rake.                *)
THEOREM SettlementConserves == Spec => []MarketConserves
BY IInvConserves, Invariance, PTL

-----------------------------------------------------------------------------
(* What a step may never do *)

(* A resolved match keeps its outcomes and its calls; a closed call is neither *)
(* reopened nor paid again.                                                    *)
PaidIsFinal ==
  /\ status = "RESOLVED" => UNCHANGED <<status, outcome, calls>>
  /\ \A m \in Market, p \in Player : Closed(m, p) => Closed(m, p)' /\ credit'[m][p] = credit[m][p]

LEMMA ResolvedKept ==
  ASSUME IInv, IInv', [Next]_vars, status = "RESOLVED"
  PROVE  UNCHANGED <<status, outcome, calls>>
<1>1. rooted /\ outcome = result
  BY DEF IInv, BookInv
<1>2. ASSUME NEW m \in Market, NEW p \in Player, NEW b \in Bucket, NEW a \in Amounts, MakeCall(m, p, b, a)
      PROVE  FALSE
  BY <1>2 DEF MakeCall
<1>3. CASE Finish \/ Root \/ LockMatch \/ Crash \/ UNCHANGED vars
  BY <1>3, <1>1 DEF Finish, Root, LockMatch, Crash, vars, book, calls
<1>4. ASSUME NEW t \in Ticks, TickStep(t) \/ \E p \in Player : PayCall(t, p)
      PROVE  UNCHANGED <<status, outcome, calls>>
  <2>1. CASE AppendEvent(t)
    <3>1. status' = "RESOLVED" /\ UNCHANGED <<calls, result>>
      BY <2>1 DEF AppendEvent, Project, feed
    <3>2. outcome' = result'
      BY <3>1 DEF IInv, BookInv
    <3> QED BY <1>1, <3>1, <3>2
  <2>2. CASE ~AppendEvent(t)
    <3>1. UNCHANGED <<book, calls>> \/ \E p \in Player : PayCall(t, p)
      BY <1>4, <2>2 DEF TickStep, ResolveStart, Verify, SettleMarket, ReadVersion, Conflict, Publish
    <3>2. UNCHANGED <<book, calls>>
      BY <3>1 DEF PayCall
    <3> QED BY <3>2 DEF book
  <2> QED BY <2>1, <2>2
<1> QED BY <1>2, <1>3, <1>4 DEF Next

(* Only a player who calls an open match opens a call. *)
LEMMA NeverReopened ==
  ASSUME IInv, [Next]_vars, status = "RESOLVED", NEW m \in Market, NEW p \in Player, ~open[m][p]
  PROVE  ~open'[m][p]
<1>1. ASSUME NEW o \in Market, NEW q \in Player, NEW b \in Bucket, NEW a \in Amounts, MakeCall(o, q, b, a)
      PROVE  FALSE
  BY <1>1 DEF MakeCall
<1>2. CASE Finish \/ Root \/ LockMatch \/ Crash \/ UNCHANGED vars
  BY <1>2 DEF Finish, Root, LockMatch, Crash, vars, ledger
<1>3. ASSUME NEW t \in Ticks, TickStep(t)
      PROVE  ~open'[m][p]
  BY <1>3 DEF TickStep, ResolveStart, Verify, SettleMarket, ReadVersion, AppendEvent, Conflict, Publish, ledger
<1>4. ASSUME NEW t \in Ticks, NEW q \in Player, PayCall(t, q)
      PROVE  ~open'[m][p]
  <2>1. open \in [Market -> [Player -> BOOLEAN]]
    BY DEF IInv, TypeOK
  <2>2. open' = open \/ open' = [open EXCEPT ![current[t]][q] = FALSE]
    BY <1>4 DEF PayCall, ledger
  <2> QED BY <2>1, <2>2
<1> QED BY <1>1, <1>2, <1>3, <1>4 DEF Next

(* Engine.resolveMatch and settleMarket, settleCall and voidCall: ticks that    *)
(* overlap, resolve the match twice or settle a market twice change neither its *)
(* outcome nor what a call has been paid, for any stakes and any restarts.      *)
THEOREM PaymentsAreFinal == Spec => [][PaidIsFinal]_vars
<1>1. IInv /\ IInv' /\ [Next]_vars => PaidIsFinal
  <2> SUFFICES ASSUME IInv, IInv', [Next]_vars PROVE PaidIsFinal
    OBVIOUS
  <2>1. ASSUME NEW m \in Market, NEW p \in Player, Closed(m, p)
        PROVE  Closed(m, p)' /\ credit'[m][p] = credit[m][p]
    <3>1. status = "RESOLVED"
      BY <2>1 DEF IInv, BookInv
    <3>2. UNCHANGED <<outcome, calls>>
      BY <3>1, ResolvedKept
    <3>3. ~open'[m][p] /\ stake' = stake
      BY <2>1, <3>1, <3>2, NeverReopened DEF Closed, calls
    <3>4. Closed(m, p)'
      BY <2>1, <3>3 DEF Closed
    <3>5. credit[m][p] = Due(m, p)
      BY <2>1 DEF IInv, PaidInv
    <3>6. credit'[m][p] = Due(m, p)'
      BY <3>4 DEF IInv, PaidInv
    <3> QED BY <3>2, <3>4, <3>5, <3>6, DuesKept
  <2> QED BY <2>1, ResolvedKept DEF PaidIsFinal
<1> QED BY <1>1, Invariance, PTL DEF Spec

=============================================================================
