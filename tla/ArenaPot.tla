------------------------------ MODULE ArenaPot ------------------------------
(***************************************************************************)
(* One parimutuel pot of the Solana program chumbucket_arena: its account, *)
(* its USDC vault, one position account per player, and the market spec    *)
(* that turns the pot into an over/under or handicap market.  Every        *)
(* instruction handler is one action.  A transaction is atomic: a failed   *)
(* require!, checked arithmetic or token transfer undoes all of it, so     *)
(* every such check is a conjunct of the action.                           *)
(*                                                                         *)
(* The oracle program (TxLINE's txoracle) is external: it publishes score  *)
(* batches, and its validate_stat accepts a proof bundle exactly when the  *)
(* batch has been published.  Clock, token program and donors are external *)
(* as well.                                                                *)
(***************************************************************************)
EXTENDS Sums, FiniteSets

CONSTANTS
  N,                \* players are numbered 1..N
  InitialBalance,   \* USDC each player starts with
  Amounts,          \* stakes a player may pass to place_call
  RakeBps,          \* config.rake_bps
  MinParticipants,  \* config.min_participants
  MaxLead,          \* MAX_KICKOFF_LEAD_SEC
  Window,           \* MATCH_WINDOW_SEC
  VoidTimeout,      \* VOID_TIMEOUT_SEC
  MsPerSec,         \* MS_PER_SEC
  U64,              \* 2^64
  MaxI32,           \* i32::MAX
  PotFixture,       \* the fixture this pot is about
  Feed,             \* score batches the oracle may publish
  Specs,            \* market specs the admin may attach
  NoSpec,           \* "no MarketSpec account exists for this pot"
  Gifts,            \* amounts an outsider may send straight to the vault
  MaxGift,          \* bound on the sum of those gifts
  Kickoffs,         \* kickoff times the admin may pass to create_pot
  MaxTime           \* bound on the clock

Player == 1..N
Bucket == 0..2
BpsDenom == 10000
Status == {"NONE", "OPEN", "LOCKED", "SETTLED", "VOID"}
Final == {"SETTLED", "VOID"}

ASSUME PlayerAssumption == N \in Nat /\ InitialBalance \in Nat /\ Amounts \subseteq Nat \ {0}
ASSUME ConfigAssumption == RakeBps \in 0..1000 /\ MinParticipants \in Nat
ASSUME TimeAssumption ==
  /\ MaxLead \in Nat /\ Window \in Nat /\ VoidTimeout \in Nat /\ MaxTime \in Nat
  /\ MsPerSec \in Nat \ {0} /\ Kickoffs \subseteq Nat
\* All the USDC in existence is a u64 amount: it is the supply of an SPL mint.
ASSUME SupplyAssumption ==
  /\ Gifts \subseteq Nat /\ MaxGift \in Nat
  /\ U64 \in Nat /\ N * InitialBalance + MaxGift < U64
\* A batch gives every stat (a key and a period) it covers an integer value.
ASSUME FeedAssumption ==
  \A b \in Feed : b.ts \in Nat /\ \A s \in DOMAIN b.stat : b.stat[s] \in Int
ASSUME SpecAssumption ==
  /\ NoSpec \notin Specs
  /\ MaxI32 \in Int
  /\ \A s \in Specs : s.op \in {"ADD", "SUB"} /\ s.floor \in Int /\ s.floor <= MaxI32

VARIABLES
  now,            \* Clock::unix_timestamp
  status,         \* pot.status; NONE: the pot account does not exist yet
  kickoff,        \* pot.kickoff
  participants,   \* pot.participants
  bucketTotals,   \* pot.bucket_totals
  totalStake,     \* pot.total_stake
  winningBucket,  \* pot.winning_bucket
  winnersStake,   \* pot.winners_stake
  distributable,  \* pot.distributable
  rake,           \* pot.rake
  paidOut,        \* pot.paid_out
  spec,           \* the pot's MarketSpec account, or NoSpec
  stake,          \* position.stake; 0: the player has no position account
  bucket,         \* position.bucket, meaningless while stake is 0
  vault,          \* balance of the vault token account
  wallet,         \* balance of each player's token account
  treasury,       \* balance of the manager's token account
  gifted,         \* what outsiders have sent to the vault
  published       \* batches the oracle has published

potVars == <<status, kickoff, participants, bucketTotals, totalStake,
             winningBucket, winnersStake, distributable, rake, paidOut>>
resultVars == <<winningBucket, winnersStake, distributable, rake>>
positionVars == <<stake, bucket>>
moneyVars == <<vault, wallet, treasury, gifted>>
vars == <<now, potVars, spec, positionVars, moneyVars, published>>

Init ==
  /\ now = 0
  /\ status = "NONE" /\ kickoff = 0 /\ participants = 0
  /\ bucketTotals = [b \in Bucket |-> 0] /\ totalStake = 0
  /\ winningBucket = 0 /\ winnersStake = 0 /\ distributable = 0 /\ rake = 0
  /\ paidOut = 0
  /\ spec = NoSpec
  /\ stake = [p \in Player |-> 0] /\ bucket = [p \in Player |-> 0]
  /\ vault = 0 /\ treasury = 0 /\ gifted = 0
  /\ wallet = [p \in Player |-> InitialBalance]
  /\ published = {}

-----------------------------------------------------------------------------
(* Instructions before kickoff *)

(* create_pot, by the admin: every counter starts at zero, as in Init *)
CreatePot(k) ==
  /\ status = "NONE"
  /\ k > now /\ k <= now + MaxLead
  /\ status' = "OPEN" /\ kickoff' = k
  /\ UNCHANGED <<now, participants, bucketTotals, totalStake, resultVars, paidOut,
                 spec, positionVars, moneyVars, published>>

SpecAllowed == spec = NoSpec /\ status = "OPEN" /\ participants = 0

(* create_market_spec, by the admin: once, and only on an untouched pot *)
CreateMarketSpec(s) ==
  /\ SpecAllowed
  /\ spec' = s
  /\ UNCHANGED <<now, potVars, positionVars, moneyVars, published>>

CallsOpen_UntilLocked == status = "OPEN"  \* faulty: no kickoff check
CallsOpen == status = "OPEN" /\ now < kickoff

Fresh(p) == stake[p] = 0

SameBucket(p, b) == Fresh(p) \/ bucket[p] = b

StakeAfter(p, amount) == stake[p] + amount

(* place_call, by player p: a fresh position, or more on the same bucket *)
PlaceCall(p, b, amount) ==
  /\ CallsOpen
  /\ wallet[p] >= amount
  /\ SameBucket(p, b)
  /\ StakeAfter(p, amount) < U64
  /\ bucketTotals[b] + amount < U64
  /\ totalStake + amount < U64
  /\ wallet' = [wallet EXCEPT ![p] = @ - amount]
  /\ vault' = vault + amount
  /\ bucket' = [bucket EXCEPT ![p] = b]
  /\ participants' = IF Fresh(p) THEN participants + 1 ELSE participants
  /\ stake' = [stake EXCEPT ![p] = StakeAfter(p, amount)]
  /\ bucketTotals' = [bucketTotals EXCEPT ![b] = @ + amount]
  /\ totalStake' = totalStake + amount
  /\ UNCHANGED <<now, status, kickoff, resultVars, paidOut, spec, treasury, gifted,
                 published>>

(* lock_pot, by anyone *)
LockPot ==
  /\ status = "OPEN" /\ now >= kickoff
  /\ status' = "LOCKED"
  /\ UNCHANGED <<now, kickoff, participants, bucketTotals, totalStake, resultVars,
                 paidOut, spec, positionVars, moneyVars, published>>

-----------------------------------------------------------------------------
(* Deciding the pot *)

(* Bindings (1) and (2) of both settle handlers: the proof bundle is about  *)
(* this fixture, and its millisecond timestamp falls in the match window.   *)
(* Binding (3), the roots account of the timestamp's day, is the account    *)
(* validate_stat looks the batch up in: see Proven.                         *)
InWindow(ts) ==
  LET sec == ts \div MsPerSec IN sec >= kickoff /\ sec <= kickoff + Window

OwnBundle(b) == b.fixture = PotFixture /\ InWindow(b.ts)

(* external: txoracle's validate_stat, on an already published batch *)
Proven(b, x, y) == b \in published /\ x \in DOMAIN b.stat /\ y \in DOMAIN b.stat

(* What settle_pot asks of the difference of two stats.  Which two is up to *)
(* the caller: nothing compares their keys or periods.                      *)
ResultHolds(w, diff) ==
  \/ w = 0 /\ diff > 0
  \/ w = 1 /\ diff = 0
  \/ w = 2 /\ diff < 0

(* line_predicate: OVER is (a op b) > floor, UNDER is (a op b) < floor + 1, *)
(* by a checked addition                                                    *)
Combined(s, x, y) == IF s.op = "ADD" THEN x + y ELSE x - y
LineHolds_Floor(s, w, x, y) ==  \* faulty: below the floor, so that there is a push
  \/ w = 0 /\ Combined(s, x, y) > s.floor
  \/ w = 1 /\ Combined(s, x, y) < s.floor
LineHolds(s, w, x, y) ==
  \/ w = 0 /\ Combined(s, x, y) > s.floor
  \/ w = 1 /\ s.floor + 1 <= MaxI32 /\ Combined(s, x, y) < s.floor + 1

VoidIt == status' = "VOID" /\ UNCHANGED resultVars

Losers_Stored(w) == totalStake - winnersStake  \* faulty: reads the field before it is set
Losers(w) == totalStake - bucketTotals[w]

(* The common tail of the settle handlers: an unbacked winner voids the     *)
(* pot, a backed one fixes the rake and what its backers share.             *)
Decide(w) ==
  IF bucketTotals[w] = 0 THEN VoidIt
  ELSE /\ status' = "SETTLED"
       /\ winningBucket' = w
       /\ winnersStake' = bucketTotals[w]
       /\ rake' = (Losers(w) * RakeBps) \div BpsDenom
       /\ distributable' = Losers(w) - rake'

Thin == participants < MinParticipants

(* settle_pot, by anyone.  A thin pool voids before any proof is looked at. *)
SettlePot(w, b, x, y) ==
  /\ status = "LOCKED"
  /\ OwnBundle(b)
  /\ IF Thin THEN VoidIt
     ELSE /\ Proven(b, x, y)
          /\ ResultHolds(w, b.stat[x] - b.stat[y])
          /\ Decide(w)
  /\ UNCHANGED <<now, kickoff, participants, bucketTotals, totalStake, paidOut, spec,
                 positionVars, moneyVars, published>>

(* settle_market, by anyone: the stats and the predicate come from the spec *)
SettleMarket(w, b) ==
  /\ w \in {0, 1}
  /\ status = "LOCKED" /\ spec # NoSpec
  /\ OwnBundle(b)
  /\ IF Thin THEN VoidIt
     ELSE /\ Proven(b, spec.a, spec.b)
          /\ LineHolds(spec, w, b.stat[spec.a], b.stat[spec.b])
          /\ Decide(w)
  /\ UNCHANGED <<now, kickoff, participants, bucketTotals, totalStake, paidOut, spec,
                 positionVars, moneyVars, published>>

MayVoid_Undone(isAdmin) ==  \* faulty: a settled pot may be voided too
  status \in {"LOCKED", "SETTLED"} /\ (isAdmin \/ now >= kickoff + VoidTimeout)
MayVoid_AdminOnly(isAdmin) == status = "LOCKED" /\ isAdmin  \* faulty: no backstop
MayVoid(isAdmin) == status = "LOCKED" /\ (isAdmin \/ now >= kickoff + VoidTimeout)

(* void_pot: the admin at any time, anyone once the timeout has passed *)
VoidPot(isAdmin) ==
  /\ MayVoid(isAdmin)
  /\ VoidIt
  /\ UNCHANGED <<now, kickoff, participants, bucketTotals, totalStake, paidOut, spec,
                 positionVars, moneyVars, published>>

-----------------------------------------------------------------------------
(* Paying out *)

WinnerPayout_RatioFirst(s) == s + s * (distributable \div winnersStake)  \* faulty: divides first
WinnerPayout_OfVault(s) == (vault * s) \div winnersStake  \* faulty: shares the live balance
(* what claim computes in u128 before it casts to u64 *)
WinnerPayout(s) == s + (distributable * s) \div winnersStake

Won(p) == status = "SETTLED" /\ bucket[p] = winningBucket

ClaimPayout(p) ==
  IF status = "VOID" THEN stake[p]
  ELSE IF Won(p) THEN WinnerPayout(stake[p]) % U64 ELSE 0

PaidOutAfter(amount) == paidOut + amount

(* claim, by player p: pays and closes the position account *)
Claim(p) ==
  /\ status \in Final
  /\ stake[p] > 0
  /\ ClaimPayout(p) <= vault
  /\ vault' = vault - ClaimPayout(p)
  /\ wallet' = [wallet EXCEPT ![p] = @ + ClaimPayout(p)]
  /\ PaidOutAfter(ClaimPayout(p)) < U64
  /\ paidOut' = PaidOutAfter(ClaimPayout(p))
  /\ stake' = [stake EXCEPT ![p] = 0]
  /\ UNCHANGED <<now, status, kickoff, participants, bucketTotals, totalStake,
                 resultVars, spec, bucket, treasury, gifted, published>>

Outstanding == winnersStake + distributable - paidOut

(* the two checks sweep_rake makes before it moves the rake *)
SweepCovered == Outstanding >= 0 /\ vault - Outstanding >= rake

(* sweep_rake, by the admin *)
SweepRake ==
  /\ status = "SETTLED"
  /\ rake > 0
  /\ SweepCovered
  /\ rake <= vault
  /\ vault' = vault - rake
  /\ treasury' = treasury + rake
  /\ PaidOutAfter(rake) < U64
  /\ paidOut' = PaidOutAfter(rake)
  /\ rake' = 0
  /\ UNCHANGED <<now, status, kickoff, participants, bucketTotals, totalStake,
                 winningBucket, winnersStake, distributable, spec, positionVars,
                 wallet, gifted, published>>

-----------------------------------------------------------------------------
(* External steps *)

Publish(b) ==
  /\ b \notin published
  /\ b.ts <= now * MsPerSec + (MsPerSec - 1)
  /\ published' = published \cup {b}
  /\ UNCHANGED <<now, potVars, spec, positionVars, moneyVars>>

(* a plain SPL transfer into the vault, which no program can refuse *)
Gift(a) ==
  /\ status # "NONE" /\ gifted + a <= MaxGift
  /\ vault' = vault + a /\ gifted' = gifted + a
  /\ UNCHANGED <<now, potVars, spec, positionVars, wallet, treasury, published>>

Tick ==
  /\ now < MaxTime
  /\ now' = now + 1
  /\ UNCHANGED <<potVars, spec, positionVars, moneyVars, published>>

Next ==
  \/ \E k \in Kickoffs : CreatePot(k)
  \/ \E s \in Specs : CreateMarketSpec(s)
  \/ \E p \in Player, b \in Bucket, a \in Amounts : PlaceCall(p, b, a)
  \/ LockPot
  \/ \E w \in Bucket, b \in Feed : \E x, y \in DOMAIN b.stat : SettlePot(w, b, x, y)
  \/ \E w \in Bucket, b \in Feed : SettleMarket(w, b)
  \/ \E isAdmin \in BOOLEAN : VoidPot(isAdmin)
  \/ \E p \in Player : Claim(p)
  \/ SweepRake
  \/ \E b \in Feed : Publish(b)
  \/ \E a \in Gifts : Gift(a)
  \/ Tick

Spec == Init /\ [][Next]_vars

(***************************************************************************)
(* What the code's scheduling justifies: time passes, and lock_pot,        *)
(* void_pot after the timeout and claim are open to whoever has an         *)
(* interest in them.  Nothing obliges the admin, the oracle or a settler.  *)
(***************************************************************************)
Fairness ==
  /\ WF_vars(Tick) /\ WF_vars(LockPot) /\ WF_vars(VoidPot(FALSE))
  /\ \A p \in Player : WF_vars(Claim(p))

FairSpec == Spec /\ Fairness

-----------------------------------------------------------------------------
(* Properties *)

\* Every field stays in its range; money fields never leave u64.
TypeOK ==
  /\ now \in Nat /\ kickoff \in Nat /\ status \in Status
  /\ participants \in 0..N
  /\ bucketTotals \in [Bucket -> 0..U64-1] /\ totalStake \in 0..U64-1
  /\ winningBucket \in Bucket
  /\ winnersStake \in 0..U64-1 /\ distributable \in 0..U64-1
  /\ rake \in 0..U64-1 /\ paidOut \in 0..U64-1
  /\ spec \in Specs \cup {NoSpec}
  /\ stake \in [Player -> 0..U64-1] /\ bucket \in [Player -> Bucket]
  /\ vault \in 0..U64-1 /\ wallet \in [Player -> 0..U64-1]
  /\ treasury \in 0..U64-1 /\ gifted \in 0..MaxGift
  /\ published \subseteq Feed

\* The vault balance and paid_out account for every stake ever placed, through
\* claims and sweeps in any order (Pot.paid_out), up to what outsiders sent.
VaultReconciles == vault + paidOut = totalStake + gifted

StakeIn(b) == SumTo([p \in Player |-> IF bucket[p] = b THEN stake[p] ELSE 0], N)

\* Until the pot is decided its running counters, each updated separately by
\* place_call, agree with the positions they summarise.
CountersAgree ==
  status \notin Final =>
    /\ \A b \in Bucket : bucketTotals[b] = StakeIn(b)
    /\ totalStake = bucketTotals[0] + bucketTotals[1] + bucketTotals[2]
    /\ participants = Cardinality({p \in Player : stake[p] > 0})

\* What player p is still owed, in unbounded arithmetic.
Owed(p) ==
  IF status = "VOID" THEN stake[p]
  ELSE IF Won(p) THEN WinnerPayout(stake[p]) ELSE 0

\* Whatever was claimed and swept before, and in whatever order, the next claim
\* of any player is covered by the vault with the unswept rake set aside, and
\* the final u64 cast of claim loses nothing.
EveryClaimPayable ==
  status \in Final =>
    \A p \in Player : ClaimPayout(p) = Owed(p) /\ Owed(p) + rake <= vault

\* sweep_rake's two balance checks, which its comment calls unreachable, never
\* refuse a sweep that has a rake to move.
SweepNeverRefused == status = "SETTLED" /\ rake > 0 => SweepCovered

\* Once every winner has claimed, the vault keeps the unswept rake, the gifts
\* and less than one unit of dust per participant (the comment of claim).
DustOnly ==
  (status = "SETTLED" /\ \A p \in Player : Owed(p) = 0) =>
    vault - gifted - rake < participants

\* A void, at whatever moment and whoever triggers it, takes nothing: what a
\* player holds and what it can still claim is what it came with.
VoidIsRefund ==
  status = "VOID" => \A p \in Player : wallet[p] + stake[p] = InitialBalance

\* A winner never ends below what it came with, however the rounding falls.
WinnersWhole ==
  \A p \in Player : Won(p) => wallet[p] + Owed(p) >= InitialBalance

\* No stake enters the pot once a score of its match is out (lock_pot).
NoInformedStake ==
  [][(\E b \in published : OwnBundle(b)) => totalStake' = totalStake]_vars

\* A decided pot stays decided, and its winner and shares stay what they were.
DecisionFinal ==
  [][(status \in Final) =>
       /\ status' = status /\ winningBucket' = winningBucket
       /\ winnersStake' = winnersStake /\ distributable' = distributable]_vars

\* The line is fixed before anyone bets against it (create_market_spec).
LineFixedBeforeStakes == [][participants > 0 => spec' = spec]_vars

Provable(b, w) == LineHolds(spec, w, b.stat[spec.a], b.stat[spec.b])

\* Of the two sides of a line no score proves both, and every score proves one
\* (line_predicate); only the highest floor there is has no under side.
OneSideProvable ==
  spec # NoSpec =>
    \A b \in published :
      {spec.a, spec.b} \subseteq DOMAIN b.stat =>
        /\ ~(Provable(b, 0) /\ Provable(b, 1))
        /\ Provable(b, 0) \/ Provable(b, 1) \/ spec.floor = MaxI32

\* What a player is owed does not depend on who claims or sweeps before it.
OwedStable ==
  [][\A p \in Player :
       status \in Final /\ stake'[p] = stake[p] => Owed(p)' = Owed(p)]_vars

\* No stake is trapped (void_pot): with the admin, the oracle and every settler
\* gone, each position is eventually paid out or refunded and closed.
StakesReturn == \A p \in Player : stake[p] > 0 ~> stake[p] = 0

=============================================================================
