# Chumbucket Arena: formal verification

TLA+ models of the parts of Chumbucket Arena that move, lock or owe money, the
TLC configurations that check them on small instances, and TLAPS proofs about
all nine state machines for every value of their constants: every safety property
that a run checks is also a theorem.

All paths below are relative to the repository. `backend` stands for `src/`,
and `program` for `onchain/gaffer_verifier/programs/chumbucket_arena/src/`.

1. [The system](#1-the-system)
2. [Modules and runs at a glance](#2-modules-and-runs-at-a-glance)
3. [ArenaPot: the on-chain pot](#3-arenapot-the-on-chain-pot)
4. [ChallengeEscrow: 1-v-1 challenges](#4-challengeescrow-1-v-1-challenges)
5. [MatchSettlement and Parimutuel: the engine's markets](#5-matchsettlement-and-parimutuel-the-engines-markets)
6. [PlayerLedger: deposits and withdrawals](#6-playerledger-deposits-and-withdrawals)
7. [MoneyCalls: a call with an amount](#7-moneycalls-a-call-with-an-amount)
8. [SignedRows and SpendOnce: transfers, buys and claims](#8-signedrows-and-spendonce-transfers-buys-and-claims)
9. [PublishSaga: creating a market](#9-publishsaga-creating-a-market)
10. [Indexer: following the program](#10-indexer-following-the-program)
11. [CallResults: from a published result to the calls](#11-callresults-from-a-published-result-to-the-calls)
12. [Fairness](#12-fairness)
13. [What is proved, and how](#13-what-is-proved-and-how)
14. [Where the code and its comments disagree](#14-where-the-code-and-its-comments-disagree)
15. [What is not modelled, and why](#15-what-is-not-modelled-and-why)
16. [Running it](#16-running-it)

## 1. The system

Players call the outcome of football matches. There are three ledgers of money,
independent of each other: USDC in on-chain pots, play money in an event-sourced
engine, and real positions bought from an external venue (Panta) to back a call.

| Component | State it keeps | Operations | Hard behaviours | What makes it correct |
|---|---|---|---|---|
| **Pots** (`program/instructions/*`, `state.rs`) | Pot, vault, one Position per player, optional MarketSpec | create_pot, create_market_spec, place_call, lock_pot, settle_pot, settle_market, void_pot, claim, sweep_rake | every instruction but three is open to anyone, in any order; floors in every payout; the rake may be swept before, between or after claims | the vault covers every claim in every order; what decides a pot is published and never undone; no stake is trapped |
| **Config and oracle call** (`init_config.rs`, `txoracle_cpi.rs`) | a Config account, written once | init_config, verify_match_stat | none: read-only for the rest | the pot's parameters are in range |
| **Keeper** (`backend/keeper`) | none of its own | reads the chain, sends lock, settle, claim and sweep transactions | partial failure inside a tick; lines it cannot settle | every due instruction is sent in the end |
| **Indexer** (`backend/indexer`, `backend/social`) | cursor, retry counts, rows of calls and settlements | reconcile pass, webhook | webhook and pass race; a transaction that cannot be fetched | the cursor never passes an unindexed transaction |
| **Engine: challenges** (`backend/engine/Engine.ts`) | the escrow's event stream, a cached version, ChallengeView | create, accept, cancel, settle | awaits between check and append; optimistic appends; restart between refund and event | one stake per player, paid once, conserved |
| **Engine: markets** (same file) | the match's event stream, PotProjection | openMatch, lockMatch, resolveMatch, settleMarket, tick | ticks overlap (no re-entrancy guard, `index.ts:229`); a conflict ends a tick | every call paid its due exactly once, nothing on an unverified score |
| **Player actors and event store** (`backend/core`) | one stream, one mailbox, one dossier per player | lock, refund, settle a stake; make, settle, void a call; deposit, withdraw | commands queue behind each other; append with an expected version | per-player serialisation, idempotent commands |
| **Money calls** (`backend/money/MoneyCallsService.ts`) | a row per call, an in-memory index that keeps it private | prepare, replay, retry, keep free, discard, fill, status, sweep | each is a sequence of awaits over four stores; a signature lands at any moment; restart | an ended call never buys; private until funded; never two live calls |
| **Calls** (`backend/calls`) | an in-memory mirror, written durably by a queue | lock, withdraw, duel, back, receipt | reads from memory, durability later | mirror and database agree after a restart |
| **Panta trading** (`backend/prediction/PantaTrading*`) | trade sessions | prepare, submit, reconcile | sign once, land maybe | a session never buys twice, always ends |
| **Transfers** (`backend/money/transfers.ts`) | transfer intents | prepare, submit, confirm | "not found" is not "failed" | FAILED only with proof it never lands |
| **Panta claims** (`backend/prediction/PantaClaim*`) | claim rows | prepare, submit, reconcile | same | one claim per position |
| **Market creation** (`backend/marketCreation`) | proposals, publish sessions | propose, approve, publish, refresh | two writes around a payment | a paid proposal is published or released |
| **Results** (`backend/calls/CallResultWorker.ts`, `ResolutionSync.ts`, `backend/prediction/marketSync.ts`) | evidence and results, in memory and in Postgres; two rotating cursors | worker pass, catalogue walk, two slices of detail reads, derivation | markets that cannot be read, restated results, memory ahead of the database | every call gets its result, and what was shown stands |
| **Durable queue** (`backend/prediction/pgrest.ts`) | pending writes, failures | enqueue, flush, hydrate | goes on after a failed write; the process restarts on it | what is acknowledged is durable |
| **Custody** (`backend/ports/Custody.ts`, `PrivyDepositGateway.ts`) | the Sessions wallet (the float) | collect (list and sweep), confirm a deposit, pay out | a sweep that landed and was not credited, a payout that landed and threw | a transaction is credited once to a player; the float covers the balances |
| Notifications, push | derived rows | derive, push | derived before pushed | at most once |
| Catalogues, venues, prices | caches | fetch, normalise | staleness | (data) |
| Accounts, auth, wallet links | identity rows | sign up, link, claim | atomic work is in SQL functions | (external) |
| Deposits, SOL top-up | in-memory orders | quote, confirm | restart loses the pending map | idempotent per order |
| Trust, API, process, Gaffer, web | - | - | - | - |

How they interact:

- The **keeper** reads pots from the chain and sends transactions. The program
  trusts none of them: it checks the stats they name with a CPI to the oracle program
  (which stats a settler may name is discussed in section 3).
- The **engine** sends commands to **player actors** through one mailbox per
  player and awaits them; it appends to a challenge's or a match's stream naming
  the version it expects. Projections follow inside the append.
- A **timer** in `index.ts` drives the engine every 30 s; it does not wait for
  the last tick. The Panta reconciler, in contrast, runs one pass at a time.
- A **money call** spans the database row, the **calls** mirror with its durable
  queue, **Panta trading**'s sessions (a SQL trigger guards a buy behind a call)
  and the private index. The fill comes back by a hook, a status poll, or the
  sweeper.
- A player's **actor** credits what the **gateway** swept, against the signature
  of the sweep, and debits before **custody** pays out.
- The **result worker** walks the catalogue, records evidence, and lets
  `ResolutionSync` derive the results of calls; between its phases it waits for the
  durable queue.
- A failed durable write makes the process exit (`index.ts:57-76`), so every
  in-memory structure can be lost at any await.

`PROJECT.json` lists every component with its sources, and every hazard met in
the code at its line, with the properties that cover it or why none does.

## 2. Modules and runs at a glance

| Module | Models | State machine | Theorems |
|---|---|---|---|
| `Sums` | sums over `1..n`, as a recursive function | no | in `SumLemmas` |
| `ArenaPot` | the pot of the on-chain program | yes | in `ArenaPotProofs` |
| `ChallengeEscrow` | one challenge of the engine | yes | in `PlayerProofs` |
| `Parimutuel` | `backend/game/parimutuel.ts` | no (operators) | in `SumLemmas` |
| `PotParity` | the on-chain pot beside the engine's payout rule | extends `ArenaPot` and `Parimutuel` | in `ArenaPotProofs` |
| `MatchSettlement` | one match of the engine and its markets | yes | in `MatchSettlementProofs` |
| `PlayerLedger` | deposits and withdrawals of players against the chain | yes | in `PlayerProofs` |
| `MoneyCalls` | one money call over its four stores | yes | in `CallsProofs` |
| `SignedRows` | the three ledgers of signed transactions | yes, refines `SpendOnce` | in `SignedRowsProofs` |
| `SpendOnce` | what such a ledger promises | yes (abstract) | |
| `PublishSaga` | one market proposal and its paid creates | yes | in `PublishSagaProofs` |
| `Indexer` | the reconciler, the app's mirror and the webhook | yes | in `IndexerProofs` |
| `CallResults` | evidence, results, the durable queue and the result worker | yes | in `CallsProofs` |
| `MCArenaPot`, `MCChallengeEscrow`, `MCMoneyCalls`, `MCPlayerLedger`, `MCSignedRows` | values of constants for TLC | | |
| `SumLemmas` | sums, and what the engine's payout rule adds up to | | 23 lemmas |

`PlayerProofs` and `CallsProofs` each extend two components, so where both would use
a name one of them has a prefix: `ChallengeInit`, `ChallengeNext` and `ChallengeSpec`
beside `PlayerLedger`'s `Init`, `MoneyInit` and `MoneySpec` beside `CallResults`'. In
`PotParity` the engine's rule is `Payout` and the program's `ClaimPayout`.

| Run | Module, specification | Question | Distinct states |
|---|---|---|---|
| `pot` | MCArenaPot, FairSpec | pots of every kind: solvency, voids, lines, agreement with the engine, no trapped stake | 482 072 |
| `challenge` | ChallengeEscrow, ChallengeFairSpec | double submits, cancel, two ticks, one restart | 272 798 |
| `challenge_race` | ChallengeEscrow, ChallengeSpec | *violation*: two opponents | about 250 until the violation |
| `match` | MatchSettlement, FairSpec | two overlapping ticks, one restart, two markets | 442 080 |
| `match_restart` | MatchSettlement, FairSpec | *violation*: restart after MatchResolved | 24 430 until the violation |
| `ledger` | MCPlayerLedger, FairSpec | overlapping syncs and requests, transfers past the sweeps, failing awaits, one restart | 394 912 |
| `money` | MCMoneyCalls, MoneyFairSpec | requests with two wallets, sweeper, signer, chain, one fault | 1 354 047 |
| `money_one_buy` | MoneyCalls, MoneySpec | *violation*: two buys | about 25 000 until the violation |
| `signed` | SignedRows, FairSpec | two rows, three approvals, two overlapping handlers, on each of the three ledgers | 190 947 |
| `publish` | PublishSaga, FairSpec | one proposal, two creates, two overlapping requests, a refusal | 1 350 747 |
| `indexer` | Indexer, FairSpec | three transactions, two overlapping passes, failures and restarts | 1 840 776 |
| `results` | CallResults, FairSpec | two markets, one unreadable, failing writes and restarts | 729 216 |

A run checks the invariants and the properties a small instance can break in an
interesting way. What is proved in section 13 for every value of the constants,
and follows from a run's properties or adds little to them, no run checks as well:
the type invariants of `ArenaPot`, `MoneyCalls`, `SignedRows`, `PublishSaga`, `Indexer`
and `CallResults`, `VaultReconciles`, `CountersAgree`, `SweepNeverRefused`,
`WinnersWhole`, `DecisionFinal` and `LineFixedBeforeStakes` of the pot, `PaidOnce` and `OneInDoubt` of the signed rows,
`OneCreate` of the proposal, and the eight theorems about steps and about challenges
and money calls that section 13 marks as proved only.

`CHECK_DEADLOCK FALSE` is in every configuration because the systems stop: a pot
claimed by everybody, a closed challenge, a resolved match and a closed row have
nothing left to do, and neither has a process whose clients have gone home. Each module names, next to the definition it spoils, the
faulty variants (`Name_Variant`, marked `\* faulty`) that show each property
able to fail.

## 3. ArenaPot: the on-chain pot

One pot for one fixture. An action is a transaction, hence atomic: a failed
`require!`, a failed checked operation or a refused token transfer undoes all of
it, so each of these is a conjunct of the action.

| Action | Code | Who may send it |
|---|---|---|
| `CreatePot(k)` | `create_pot.rs` | admin |
| `CreateMarketSpec(s)` | `create_market_spec.rs` | admin |
| `PlaceCall(p, b, amount)` | `place_call.rs` | player p |
| `LockPot` | `lock_pot.rs` | anyone |
| `SettlePot(w, b, x, y)` | `settle_pot.rs`: result predicate on stats x, y of batch b | anyone |
| `SettleMarket(w, b)` | `settle_market.rs`: predicate and stats from the spec | anyone |
| `VoidPot(isAdmin)` | `void_pot.rs` | admin; anyone after the timeout |
| `Claim(p)` | `claim.rs`: pays, closes the position | player p |
| `SweepRake` | `sweep_rake.rs` | admin |
| `Publish(b)`, `Gift(a)`, `Tick` | external: the oracle, an SPL transfer to the vault, the clock | |

The variables are the fields of `Pot`, `Position` and `MarketSpec` and the three
kinds of token account. A position with stake 0 is a closed account. `Decide` is
the common tail of both settle handlers. `txoracle`'s `validate_stat` accepts a
proof exactly when the batch was published (`Proven`); a batch may be published
from the second of its own timestamp on. The score itself is data: a batch is a
fixture, a timestamp in milliseconds and a value per stat.

Money fields are u64 and products are u128 in the code. `U64` is a constant with
one assumption: the supply of the mint fits in it. That no product leaves u128
follows from both factors being u64. The final cast of `claim` is modelled as
`% U64` and proved to lose nothing.

Properties: `EveryClaimPayable`, `DustOnly`, `VoidIsRefund`, `OneSideProvable`,
`EngineAgrees`, `NoInformedStake`, `OwedStable`, `StakesReturn` in the run, and the
proved ones listed in section 2; each is stated in words above its definition.

**Bounds.** Three players with 14 units and stakes of 7 or 14 at a rake of 10 %,
which make rake and shares round; two participants make a thick-enough pool, so
thin and thick pools, unbacked winners and top-ups all happen. The pot may be
given one of two lines, over 1.5 and over 3.5 goals, or none; `MaxI32` is 3, so that
the second is the highest line there is. The feed has a batch of its own fixture in the last
second of the window, one of another fixture at the same instant that says the
opposite, and one just after the window. One gift of one unit reaches the vault
at any time. The clock stops at 3, which is past the void timeout: the whole
life of a pot, with its backstop, fits under it. Nothing in these properties is
bounded in the proofs.

**What a settler may choose.** No property says that the winning bucket is the one
the match decided, because the code does not make it so. `settle_pot` binds the
fixture, the window and the roots, and takes the two stats it compares from its
caller (`settle_pot.rs:35-36, 81-92`): a draw is provable with any stat and itself,
and a win of either side with any two stats that differ, in one order or the other.
It also looks at the status only (`settle_pot.rs:39`), never at whether the pot has a
MarketSpec, so a line pot can be settled that way too, even on bucket 2 that no caller
of a line pot can hold. `settle_market` takes predicate and stats from the spec, but
which batch of the window is the caller's choice in both. The comments say otherwise:
`settle_pot.rs:10-22` that the proof decides the winning side, `settle_market.rs:16-18`
that "a *permissionless* settler can only ever settle the side that truly won". The
model has the behaviour: x, y and b of `SettlePot` are any, with the code's guards. What
is checked and proved holds for whatever bucket is chosen.

Of one batch the sides of a line are opposites (`OneSideProvable`), but for one line
that `create_market_spec` accepts: with the floor `i32::MAX` the under side computes
`floor.checked_add(1)` and fails (`settle_market.rs:156`), so that its under side can
never be proven, and a pot whose line stayed under can only be voided or settled
by the result predicate. `MaxI32` is a constant, so that the run has that line.

## 4. ChallengeEscrow: 1-v-1 challenges

One challenge. A slot is a request in flight; its `pc` is the await it stands at.

| Action | Code |
|---|---|
| `CreateStart`, `AcceptStart`, `CancelStart` | the synchronous prefix of createChallenge, acceptChallenge, cancelChallenge, up to the first `await` |
| `SettleStart`, `RefundOpponent` | settleChallengesForMatch, from resolveMatch and from each tick |
| `RunCommand(p)` | PlayerActor's lock / settle / refundChallengeStake, one at a time per mailbox |
| `ReadVersion`, `AppendEvent`, `Conflict`, `Publish`, `Undone` | challengeAppend: version from cache or stream, compare-and-append, conflict handling, cache update after the append returned |
| `LockMatch`, `ResolveMatch`, `Crash` | the match, and a restart that loses requests, mailboxes and cache |

The projections change inside `AppendEvent` (the store applies them there); the
cached version changes only in `Publish`. That gap is where the races live.

**What holds always**: `OneStakeAtRisk`: no player ever loses more than a stake
or gains more than a pot's worth, in any interleaving with any restart.

**What holds without contention**: `SettledIsPaid`, `Conserved` and
`MatchedSettles` are stated for histories that are not `contested`: no accept or
cancel started while another accept or cancel was in flight, and no restart
interrupted a cancel. This is a real restriction and not a technicality: with
contention the code does break them. These cases are known:

- a cancel refunds the creator before it appends (`Engine.ts:281-282`). An accept
  in between leaves the challenge CANCELLED with the opponent's stake locked, or
  MATCHED with one stake;
- a restart between a cancel's refund and its event leaves an OPEN challenge with
  no stake behind it;
- an accept submitted twice locks once, and the losing submission's refund
  (`Engine.ts:269`) returns the stake the winner relies on;
- two different opponents: see [section 14](#14-where-the-code-and-its-comments-disagree).

Two more facts no property states: a restart between the creator's lock and
`ChallengeCreated` (`Engine.ts:213-234`) strands that stake, and an OPEN challenge
on a resolved match is in nobody's worklist, so that only its creator's cancel
returns the stake. When two ticks settle one challenge, `managersPot` can count
the rake twice (`Engine.ts:324`); players are paid once all the same.

**Bounds.** Two players, six slots: one create, two accepts by the same player
(a double submit), one cancel, two settles (overlapping ticks); slots are reused
once idle. One restart, anywhere. Stake 10 of 20, rake 10 %. One challenge is
enough for these properties: challenges share only a player's free balance,
and a command of one challenge never reads another's stake.

## 5. MatchSettlement and Parimutuel: the engine's markets

`Parimutuel` translates `parimutuel.ts`: void rules, rake on the losers' stakes,
floored shares, and dust handed out one unit at a time in call order.
`MatchSettlement` uses it as the payout rule of one match with several markets
on one event stream.

| Action | Code |
|---|---|
| `MakeCall` | makeCall: check and append taken as one step |
| `LockMatch` | lockMatch at kickoff |
| `ResolveStart`, `Verify` | resolveMatch up to the verifier's verdict |
| `SettleMarket`, `PayCall` | settleMarket and PlayerActor's settleCall / voidCall |
| `ReadVersion`, `AppendEvent`, `Conflict`, `Publish` | matchAppend; a conflict throws out of the tick |
| `Finish`, `Root` | external: the final whistle, the oracle's root |
| `Crash` | restart |

`match` shows, for two ticks that overlap in every way and one restart, that a
market's payouts and rake add up to its stakes exactly (`MarketConserves`), that
PotSettled comes after the last payment (`SettledIsPaid`), that nothing is paid
on a score nobody corroborated (`NothingUnverified`), and that without a restart
every call closes in the end although a tick that loses a race abandons its
remaining markets (`CallsClose`). The restart case fails, see section 14.

**Bounds.** Two markets, because a tick must be able to die between two; two
players with stakes of 5 at a rake of 25 %, so that the rake rounds; minimum two
participants, so a market is void for lack of winners or of players, or by its
outcome. Two ticks: a third could only lose the same race again. With two players
there is never any dust, so what `Parimutuel` does with it is checked beside the
pot, where three players make it (next paragraph).

**The two ledgers.** `claim.rs` floors each winner's share and leaves the dust in
the vault; `parimutuel.ts` hands it out. Comments in both files
(`claim.rs:16-21`, `parimutuel.ts:92-100`) say that they agree to the floor.
`PotParity!EngineAgrees`, checked by `pot`, puts the positions of a pot just
settled through `Parimutuel`: same void rule, same rake, each payout equal or one
unit higher, nothing left over. There the dust is at most one unit; more takes
three winners and a loser, which is beyond the run and within the theorem
`EngineAlwaysAgrees`.

## 6. PlayerLedger: deposits and withdrawals

Where a player's balance meets real USDC. The chain is a list of transactions,
the order they landed in and how many of these are finalised; the streams are
the `Deposited` events and the withdrawals; a slot is a request in flight.

| Action | Code |
|---|---|
| `Sync`, `List`, `ListFails` | Engine.syncDeposits and the first half of PrivyDepositGateway.collect: the sweeps among the wallet's latest transactions |
| `Sweep`, `NoSweep`, `Swept`, `SweepThrows` | the second half: sweep what is there now, whatever becomes of it |
| `Deposit` | Engine.deposit: anybody presents any signature and amount for itself |
| `TakeCredit`, `Confirm`, `ConfirmFails` | PlayerActor.deposit in the player's mailbox: replay guard, confirmDeposit, append |
| `Withdraw`, `Debit` | PlayerActor.withdraw up to WithdrawalInitiated |
| `ReadFloat`, `Send`, `Settle`, `Reverse` | custody.withdraw, and the outcome it is recorded with |
| `Restart` | requests and mailboxes are lost, streams and chain are not |
| `Pay` | external: a transfer to the Sessions wallet past the sweeps, in USDC or another token, of one player or several |
| `Arrive`, `Land`, `Die`, `Finalise`, `Recover` | external: USDC arrives, the chain, the end of an outage |

Reads of the code see finalised data, a send is confirmed earlier: a sweep may be
credited only by a later sync because its own confirmDeposit came too soon. One
command at a time runs on a player's ledger (`Busy`, the mailbox); syncs, other
players and the chain do not wait for it.

**What a deposit is taken for.** `confirmDeposit` (`Custody.ts:147-164`; `PrivyCustody.ts:87-109`
is the same) compares, of one finalised transaction, the first token balance listed for
the Sessions wallet and the first one listed for the player: the former must have risen
by the amount, the latter must have fallen. It looks at neither the mint nor the
account (the two it derives are not used, `Custody.ts:162-164`), and the replay guard is
per player (`PlayerActor.ts:407-410`). So another token is credited as USDC, and of a
transaction several players paid, each is credited up to the whole rise. The comment at
`Custody.ts:118-126` says "at least `amount` USDC INTO the Sessions ATA from the
*player's own* ATA". `MovedToSessions` is the code's condition: `payers` are those
whose first listed balance a transaction lowers.

Properties: each player is credited for a transaction at most once, only if it paid,
and for no more than a balance of the Sessions wallet rose, and a sweep is credited at
most once in all, to the player it came from (`CreditedOnce`); nobody is paid beyond
what it was credited and the float covers every balance and every payout under way
(`Solvent`); a sweep that landed is credited in the end, whatever failed after it
(`SweptIsCredited`); a withdrawal is settled or given back (`WithdrawalEnds`). Their
exceptions are the code's:

- `Solvent` counts only the credits on a sweep or on USDC of one player (`Backed`). A
  credit on another token, or on a transfer of several players, is real to the ledger
  and not to the float: with such transfers in the run and without the exception the
  property fails;
- a payout that lands after custody threw is reversed although the player was paid
  (`PlayerActor.ts:127-133`); `events.ts` says of WithdrawalReversed "the send failed,
  player made whole". `Solvent` adds these payouts back;
- a restart between WithdrawalInitiated and its outcome leaves the debit in place,
  "pending reconcile" (`events.ts:44-45`), and nothing reconciles it;
- a sync looks at the last 25 transactions of a wallet (`Limit`): a sweep that newer
  ones push out of that list before a sync sees it is not credited by syncs.

Left out: bets move money between ledgers only; welcome grants and house seeding
are appends without a chain; the fee is one constant, the larger of its two
parts; gas top-ups and signing are part of `Sweep` and `Send`; a transfer past the sweeps
comes from wallets nobody sweeps, since a wallet the service sweeps is emptied by its
sweeps alone. Failed transactions take places in the listing too.

**Bounds.** Two players, of whom one has a swept wallet and the other may only
submit proofs, of the first one's sweeps among them; one sync and one direct request
in flight, three transactions on the chain, of which one past the sweeps (USDC of the
player without a swept wallet, or another token of both), two withdrawals, one
restart, a listing of one. Crediting one sweep twice takes a sync and a request over
one transaction; two credits on one transfer take two payers; pushing a sweep out of a
listing of one takes one later transaction.

## 7. MoneyCalls: a call with an amount

One money call: its row, the trade sessions of its attempts, the call with its
possible free replacement, and the private index. Four stores, four failure
modes: rows and trades are durable at once; the calls mirror changes at once and
becomes durable in order, so a restart keeps a prefix (`durable`, `unflushed`); the
index is in memory and is rebuilt by `Hydrated`.

A process (a request of the owner, or the sweeper) is at one await; it carries
the row it read, and every row update is conditional on the state and attempt it
expects (`Matches`).

| Action | Code in `MoneyCallsService.ts` |
|---|---|
| `Insert`, `Lock` | prepareCall |
| `Replay`, `Retry` | the same key again; another quote, maybe with another wallet |
| `Choose` | keepFree or discard |
| `Sweep` | the sweeper picks the row up |
| `ReadLatest`, `Retire`, `Retiring`, `ReadCurrent` | retireQuote and the reads around it |
| `Bump`, `Reserve`, `Build`, `Window` | the next attempt, its trade session, its quote, the window of the row |
| `End`, `Ended` | end(): close the row, then withdraw the call |
| `Replace`, `Free` | keepFree: replaceFundedCallWithFree, then close |
| `Notice`, `Fund`, `Funded` | onFilled, callStatus, publishFundedCall |
| `Submit`, `Reconcile` | PantaTradingService and the chain; the trigger is `TradeGuard` |
| `Flushed`, `Drop`, `Restart` | a flush returns; a read fails or a client goes away; the process restarts |

Simplifications, each because no property can tell: the submit's check and its
write are one step, since the ledger's trigger checks again with the write; an
update and the index.put that follows it with no await between are one step; the
price and readiness checks of prepare are `Drop`; the reasons a row ends for are
`discarded` and `ended`. The clock starts at the intent and stops once the row is
closed. The write queue goes on after a failed write (`pgrest.ts:264-351`), but a
later write that depends on a refused one is refused by a constraint
(`uq_calls_one_live_per_user_market`, foreign keys), so what survives equals some
prefix; the process then restarts. A flush that fails under `lock()`
(`MoneyCallsService.ts:208`), which ends the row, is not modelled.
`TradeGuard` is a SQL trigger kept outside the source tree
(`money_call_trade_guard_v1`), modelled from how
`tests/moneyLedgers.postgres.test.ts` and `pantaTrading.postgres.test.ts`
exercise it.

Properties: `EndedNeverBuys`, `OneLiveCall` (of the mirror *and* of every prefix a
crash may keep), `PrivacyKept`, `NoGhosts`, `FillFunds`.

**A hidden fill.** `latestForCall` returns the newest signed attempt of a call, whatever
its wallet (`PantaTradingStore.ts:128-133`). When a person signs with one wallet and,
around a retry, with another (section 14, `money_one_buy`), the first buy may fill with
its hook lost while the second fails. The sweeper then sees the failed one, wants to end
the call, and the store and the trigger refuse, because a FILLED attempt exists
(`backend/money/store.ts:174-176`): the row stays PENDING for ever (unless the person
keeps the call free in time), the money is spent and the call stays private. The
comment at `MoneyCallsService.ts:408-410` promises "FUNDED for every pending call whose
order filled". `NoGhosts` and `FillFunds` except it, by name (`Hidden`); without the
exception the run violates both.

`PrivacyKept` is about rows the index holds. A replay of a key whose first request
is still waiting for its insert, or lost the reply, locks the call without putting
its row in the index (`MoneyCallsService.ts:194`), so that call is public before
it is funded, against `:176`, "Private BEFORE it exists: the call is never public
for an instant". The model has the behaviour (`Replay`, then `Lock`); no run states
the sentence.

**Bounds.** `money` has two wallets, one request at a time next to the sweeper, two
attempts, a clock up to 2 and one fault. One attempt per wallet is what a hidden
fill takes. A quote, the grace and the first window last one tick each, so a second
quote fits before the window of the first closes. Wallets are interchangeable, so the
first attempt is always of the same one. A request may be dropped at any await and
another one started, so two requests overlap in effect only through what the first
left behind; two requests truly in flight have too many states for a routine
run (15.7 million with one wallet and no fault).

## 8. SignedRows and SpendOnce: transfers, buys and claims

`transfers.ts`, the Panta trade sessions and the Panta claim sessions share one
shape: a row is prepared, its review is signed once, the approval is stored, then
broadcast, and a reconciler asks the chain until the row is settled. The model
has one ledger, which of the three is chosen at the start, and the rows of one
slot: one source wallet, one call and wallet, or one position.

| Action | Code |
|---|---|
| `Prepare`, `Replay`, `Reserve`, `Build` | prepare, with the same key again; `Retire` lets expired reviews go |
| `Submit`, `Save`, `Send` | submit: the checks, the approval stored, the broadcast |
| `Reconcile`, `Ask`, `Write` | the questions in the code's order (`Questions`), one await each |
| `Stop` | a request stops at an await for good: a failed call or a restart |
| `Expire`, `Pass`, `Land` | external: the clock, the block height, the chain |

`SpendOnce` is the promise: an intent is signed at most once, one at a time may
still move money, what is called dead never does, and the owner is told an outcome
only when it is certain. `SpendsOnce` says that the detailed ledger implements it,
with `Status` and `Told` as the refinement mapping. `FailedNeverMoves` is its heart:
FAILED frees the slot and invites the person to pay again. It rests on the order of
two questions, the height before the signature; the mutation that swaps them
breaks it.

Assumed: the person's client only signs (the server broadcasts); the height the
venue reports is not more than `DROPPED_SAFETY_BLOCKS` low; the RPC still has the
history it is asked for last. The last one deserves a note: `transfers.ts:172-175`
and `:455-457` say that pruned history is never proof, yet a transaction the RPC
has forgotten reads as "missing" and then as FAILED. `Settles`
assumes that in the end Panta answers for every order and claim it is asked about and
every read of the chain is conclusive: a buy whose order Panta never answers for waits
for ever (`PantaTradingService.ts:207-216`), and so does a claim whose transaction cannot
be verified although it landed (`PantaSettlementChain.ts:98-112`). Not covered: a row
left in PREPARING by a handler that died is never prepared again, though the replay
tells the client to retry the same intent; and the sweeps take the oldest 50 or 100
rows first, so rows that can never be settled could starve newer ones.

**Bounds.** Two rows of a slot, three approvals, two of them of one row, two handlers.
Two rows are what a double payment takes, two approvals of one row a double
tap, two handlers a reconciler against a submit or against another reconciler.

## 9. PublishSaga: creating a market

One proposal, its review, its withdrawal, its deadline, and the paid Panta creates
that publish it. A publish session is one reviewed create.

| Action | Code in `MarketCreationService.ts` |
|---|---|
| `Decide`, `Prepare` | review, withdraw, preparePublish |
| `Submit`, `Commit`, `Retry` | submitPublish: the first time, or the same bytes again |
| `Claim`, `Hold`, `Retire`, `Send` | claimCommitted: claim the proposal or retire the bytes, then broadcast |
| `Refresh`, `Look`, `Answer` | refresh: what Panta and the chain answer, in the code's order |
| `Fail`, `Release`, `Record`, `Verify`, `GoLive` | the writes it concludes with |
| `Stop`, `Deadline`, `Expire`, `Pass`, `Land` | a request dies; the clock; the chain |
| `Refuse` | external: a paid create that Panta's register, or the check of its debit, never accepts |

While neither two submissions nor two refreshes overlap (`overlapped` remembers it):
a session called FAILED moved no money and never will (`FailedNeverPaid`), and a
proposal whose create was or may be paid stays publishing until it is live
(`MoneyIsHeld`). Whatever overlaps, a live proposal has a paid create (`LiveIsPaid`).
A signed create does not leave the proposal publishing for ever (`Publishes`),
unless requests overlapped, a release was torn, or the create was paid and refused.

The restriction is real. With an overlap the code breaks these promises:

- a retry of a session claims the proposal and broadcasts; the first request's
  claimCommitted then sees "publishing" and retires a session whose create was sent.
  `MarketCreationService.ts:257-260` and `:290-297` and
  `docs/panta-market-creation.md:148-152` promise otherwise;
- a delayed second write of one refresh releases the publishing of a newer session;
- a retry takes another session's "publishing" for its own and sends; a retry may
  hold the proposal for a session that a refresh has just failed, which leaves it
  publishing with no active session;
- without any overlap, a refresh that stops between its two writes (`torn`,
  `:332-334`) leaves the proposal publishing with no active session, and refresh
  returns early for ever, against the recovery that `docs/panta-market-creation.md:284-289`
  describes.

A paid create may be refused for good. `docs/panta-market-creation.md:279-289` says so:
register may keep answering TX_MISMATCH or TX_FEE_MISMATCH with the proposal left
publishing, and Panta does not say whether it accepts a register that comes late. So may
our own check be what never succeeds, when the debit is not the reviewed amount
(`PantaChain.ts:108-124`, `Confirmed`). Nothing in the code ends such a proposal, on purpose
(the notes tell the operator to contact Panta); the safety properties hold through it.

**Bounds.** Two creates and two requests: an overlap is two requests, and a
double payment two creates. Each paid create may be refused, at one place.

## 10. Indexer: following the program

`ArenaReconciler` walks the program's transactions forward from a durable cursor.
Passes start on a timer whether or not the last one has ended; each await may fail.

| Action | Code in `ArenaReconciler.ts` |
|---|---|
| `Start`, `Scan` | readCursor, signaturesSince, the oldest `MaxPerPass` |
| `Load`, `ReadPot`, `MissPot`, `Write` | processSignature: fetch, null retries, pot, the status-gated SQL function |
| `Walk`, `Halt`, `Advance` | the contiguous run, and advance_indexer_cursor |
| `Fail`, `Restart`, `Recover` | an await fails; nullRetries is lost; the end of the outage |
| `Mirror`, `Confirm` | the app's own row, and HeliusWebhook |
| `Transact`, `Appear` | external: the chain, the RPC's history |

`CursorCovers`: behind the cursor every transaction is applied, in its order, however
passes overlap, fail and restart. `CatchesUp`: nothing wedges the cursor. Two kinds of
transactions are excepted from the first, because the code walks past them: one
that could not be fetched `MAX_NULL_RETRIES` passes in a row, and one whose pot
could not be read. loadPot catches an RPC error (`:372-381`) and the caller returns
(`:220`, `:258`), against the header (`:18-20`), which says that a transient error
stops the advance.

Simplified: one instruction per transaction, one call per player, one pot; the
pass's cache of pots is folded into the read; what the SQL functions do to a row is
external, they are outside the source tree; a row the app mirrors for a transaction
that then fails is not modelled. Whether advance_indexer_cursor may move the cursor
back is the database's choice, and the model allows both.

**Bounds.** Three transactions (place, settle, claim is a whole life), two passes of
at most two, one null retry: a second pass can overtake the first, and a run
of two can stop in its middle.

## 11. CallResults: from a published result to the calls

A venue publishes a market's result; the worker records it as evidence, derives
the results of the calls, and reports them. Memory runs ahead of Postgres: every
change is queued, written in order, and a write that fails is passed over until
the process restarts from the database.

| Action | Code |
|---|---|
| `Tick`, `Walk`, `WalkFails` | CallResultWorker.runOnce, the catalogue walk of marketSync |
| `SweepRead`, `Swept` | sweepUnlisted: a slice of the markets no longer listed |
| `Flush`, `CalledRead`, `CalledThrows`, `Called` | the barrier, then a slice of the markets with pending calls |
| `FlushAgain`, `Derive`, `Report` | the barrier, ResolutionSync, the report after it is durable |
| `Write`, `WriteFails`, `Crash`, `Quarantine` | WriteQueue; a restart; the restart on a failed write |
| `Call`, `Read`, `Serve` | a call is locked, a market is read, a result is served behind the barrier |
| `Close`, `Publish`, `Accepted`, `Applied`, `Recover` | external: the venue, Postgres, the end of an outage |

`EvidenceAgrees`: a settled result is what the recorded evidence says, in memory and
in Postgres, however the venue restates it and whatever was lost in between.
`ShownStands`: what was reported or served is in Postgres for good. `Settles`: every
call whose result is published gets it, durably, in spite of markets that can never
be read. The last one rests on the rotation of sweepUnlisted, whose cursor moves on
past a refused detail. The called slice does not: a detail whose shape is refused
throws (`CallResultWorker.ts:81`) before the cursor is stored, so every pass starts
at the same market again. If the catalogue also failed for good, calls behind
that market would starve, though a test in `tests/callResultWorker.test.ts` is
called "a broken catalog cannot starve an outstanding call". `index.ts:57`
says that a failed write "quarantines the shared FIFO", while `WriteQueue.push`
(`pgrest.ts:275-290`) goes on with the next one; the barriers and the restart make up
for it, which is what `ShownStands` checks.

Simplified: one call per market, whose result is named after the resolution (void
left out); the ten minutes' rest of unlisted markets and the page cursor of the
walk; prices; one budget for both slices; pass 1 of ResolutionSync, which the repair
sweep of pass 2 subsumes; after a restart the cursors stand anywhere, which covers
every prefix of their queued writes.

**Bounds.** Two markets, of which the first can never be read, and slices of one: the
rotation has to get past the broken one.

## 12. Fairness

| Specification | Fair | Why the code justifies it |
|---|---|---|
| `ArenaPot!FairSpec` | weakly `Tick`, `LockPot`, `VoidPot(FALSE)`, `Claim(p)` | time passes; lock, a void after the timeout and a claim need nobody's permission, and who has money in the pot has the interest. Nothing is assumed of the admin, the oracle or a settler. The backend itself never sends void_pot: the assumption is about the players |
| `ChallengeEscrow!ChallengeFairSpec` | weakly: engine steps per slot, mailboxes, `LockMatch`, `ResolveMatch` | promises settle, the 30 s timer re-drives; create, accept and cancel are people's and are not fair |
| `MatchSettlement!FairSpec` | weakly: tick steps, payments, `LockMatch`, `Finish`, `Root` | the same timer; that a match ends and its score is rooted is external, and assumed |
| `PlayerLedger!FairSpec` | weakly: the steps of a request, `Finalise`, `Recover`, a broadcast lands or dies; strongly: `TakeCredit` or `Debit` of a slot, `Sync` of a player | awaits end; a mailbox is first in, first out, so whoever waits gets its turn; the app syncs whenever its player opens it, and whoever has money waiting comes back |
| `MoneyCalls!MoneyFairSpec` | weakly: sweeper steps, `ClockTick`, `Reconcile` | the reconciler's timer runs both; the chain answers. No request of a person is fair: it may stop anywhere |
| `SignedRows!FairSpec` | strongly `Reconcile` per row; weakly `Pass` and the steps of a handler; from some time on no answer is `Lost` | the sweep comes back to every SUBMITTED row while passes come and go; every fetch has a timeout; blocks are produced; outages end. That Panta answers for every trade and that reads of the chain are conclusive in the end is assumed |
| `PublishSaga!FairSpec` | strongly `Refresh`; weakly `Pass` and the steps of a request; from some time on no answer is `Lost` | followUp and the proposer come back; the rest as above. No submission is fair, and nothing is assumed of what is answered: a paid create may be refused for good |
| `Indexer!FairSpec` | weakly `Recover`, and start or step of each pass | the interval fires, awaits end, outages end for good |
| `CallResults!FairSpec` | weakly `Tick`, the pass, `Write`, `Quarantine`, `Recover` | two timers; the queue drains itself; outages end for good. `Call`, `Read` and `Serve` are not fair |

## 13. What is proved, and how

The proofs are laid out so that they do not depend on the speed of a machine: an action
is opened once, into the few facts its lemma needs, and a leaf cites those facts
(`BY ONLY` where the context is large). Every leaf is proved in a fraction of the
provers' default time limits.

### The pot

`ArenaPotProofs` proves, with TLAPS, for every number of players, stakes, feed,
line, rake up to the 10 % that `init_config` allows, and clock:

| Theorem | States | Also checked by |
|---|---|---|
| `TypeCorrect` | `Spec => []TypeOK`: no money field leaves u64 | |
| `VaultAlwaysReconciles` | `[]VaultReconciles` | |
| `CountersAlwaysAgree` | `[]CountersAgree` | |
| `Solvency` | `[]EveryClaimPayable` | `pot` |
| `SweepAlwaysCovered` | `[]SweepNeverRefused` | |
| `DustStaysSmall` | `[]DustOnly` | `pot` |
| `VoidAlwaysRefunds` | `[]VoidIsRefund` | `pot` |
| `WinnersNeverLose` | `[]WinnersWhole` | |
| `StakesAreUninformed` | `NoInformedStake` | `pot` |
| `DecisionsAreFinal` | `DecisionFinal` | |
| `DebtsAreStable` | `OwedStable` | `pot` |
| `LinesAreFixed` | `LineFixedBeforeStakes` | |
| `LinesAreOneSided` | `[]OneSideProvable`: never both sides; one of them, but for the floor i32::MAX | `pot` |
| `EngineAlwaysAgrees` | `[]EngineAgrees`, in `PotParity` | `pot` |
| `Invariance` | `[]IInv`, the inductive invariant | |

**Assumptions**, all named in `ArenaPot`: `PlayerAssumption` (balances and stakes
are naturals, stakes positive), `ConfigAssumption` (the rake is at most 1000 basis
points, which `init_config` enforces), `TimeAssumption`, `SupplyAssumption` (all
the USDC there is, donations included, fits in a u64, because it is the supply of
one mint), `FeedAssumption` (stats are integers), `SpecAssumption`. TLC evaluates
them in the run `pot`.

**Why solvency needs an invariant of its own.** `EveryClaimPayable` is not
inductive: that the next claim is covered says nothing of the one after it.
What is inductive is `IInv`:

- `Supply`: wallets, vault and treasury together hold what the players and the
  donors brought. Hence every balance stays in u64, and the overflow checks in
  the code never fire;
- `VaultReconciles`: vault + paid out = stakes + gifts;
- `Undecided`: until a decision the counters equal the sums over the positions,
  and nothing was paid;
- `StakesIntact`: while a pot is not settled a player's wallet and stake add up to
  what it came with, through refunds too;
- `VoidShape`: the vault of a void pot is its open stakes and gifts;
- `SettledShape`: with `Live` the winning stakes not yet claimed and `SharePaid`
  the part of the losers' pool already paid out,

      SharePaid * winnersStake <= distributable * (winnersStake - Live)

  The floors so far never overdraw the proportional share of those who claimed.
  A claim of stake s adds floor(distributable * s / winnersStake) on the left
  and s to (winnersStake - Live) on the right, so it is preserved; and it bounds
  what is left from below by the share of everybody still to come. The rake is
  either there in full or swept;
- `WinnersWhole` and `PublishedInPast`.

`ClaimStep` and `SweepRakeStep` carry that argument, one lemma per action
preserves `IInv`, and `NextIInv` puts them together. `DustStaysSmall` needs the
opposite bound, `DustBounded`: each claim loses less than one unit to its floor,
so after k claims SharePaid falls short by less than k units. The action
properties combine `IInv` with a fact per action (`StakeEntersBeforeKickoff`,
`DecisionKept`, `SidesKept`).

`EngineAlwaysAgrees` sets the pot's counters beside an account the engine would
make of the same positions. What the decision read is gone from the counters'
invariant once it is taken, so `AsDecided` keeps it: until the sum of the open stakes
falls below `totalStake`, for good, with the first claim, the winners' stake
and the distributable pool are those the positions give. From there the two payout
rules divide the same numbers: `DustHandedOut` says that the engine gives a winner
its floor and at most one unit, which is claim's payout and the dust, and
`ParimutuelExact` that nothing is left over.

Sums over players are a recursive function (`Sums!PrefixSums`), and `SumLemmas`
proves what the proofs use: how a sum changes when one entry does, that it is at
least each entry, the sum of a constant, of two functions, of one that dominates
another or has one entry more. It also holds what `settleParimutuel` adds up to, for the
pot and the engine. The library's induction theorem takes an
operator as its parameter and cannot be cited with the provers at hand, so
`SumLemmas` goes through least elements of sets of naturals (`LeastElement`,
`SetInduction`).

### Matches and the parimutuel

`MatchSettlementProofs`, for any number of players, markets, overlapping ticks and
restarts, any stakes, minimum and rake up to 100 %:

| Theorem | States | Also checked by |
|---|---|---|
| `SettlementConserves` | `[]MarketConserves`: payouts and rake are exactly the stakes | `match` |
| `SettledAlwaysPaid` | `[]SettledIsPaid` | `match` |
| `AlwaysVerified` | `[]NothingUnverified` | `match` |
| `PaymentsAreFinal` | `PaidIsFinal`: a resolved match keeps its outcomes and calls, a closed call is neither reopened nor paid again | proved only |
| `TypeCorrect`, `Invariance` | `[]TypeOK`, `[]IInv` | `match` (the first) |

`SettlementConserves` rests on two arguments. One is arithmetic: the floors of the
shares fall short of the pool by at most one unit per winner (`FloorsFallShort`,
`DustIsSmall`), so that one unit for each winner in turn uses up the dust
(`DustHandedOut`: the recursion has a closed form), and the payouts telescope to
the stakes less the rake (`ParimutuelExact`); these lemmas are in `SumLemmas`, because
`EngineAlwaysAgrees` needs them too. The other is about ticks: a call
is paid its due when it is closed and only then (`PaidInv`), whichever tick gets to it
first, and its due no longer changes, because the outcomes of a resolved match are
the results of its score (`BookInv`). `TickInv` says that a tick that settles a market
still has every open call of it to pay, which is what makes `SettledIsPaid` inductive.

`PaymentsAreFinal` is about steps. Two ticks may both resolve a match and both settle a
market, and `Project` would replace the outcomes the second time: the invariant of the
next state says that what it writes is the result of the same score
(`ResolvedKept`). A call that is closed stays so (`NeverReopened`), so `PaidInv` gives
its credit before and after the step, and both are its due.

### Challenges

`PlayerProofs`, for any number of players, requests of each kind and restarts, any
stake and any rake:

| Theorem | States | Also checked by |
|---|---|---|
| `NeverTwoStakes` | `[]OneStakeAtRisk`, contested or not | `challenge` |
| `SettledAfterPaid` | `[]SettledIsPaid` | `challenge` |
| `ChallengeConserves` | `[]Conserved` | `challenge` |
| `LifeInOrder` | an uncontested challenge takes the steps of `Life`, each once, and keeps its opponent | proved only |
| `ChallengeTypeCorrect`, `ChallengeInvariance` | `[]ChallengeTypeOK`, `[]ChallengeIInv` | `challenge` (the first) |

`OneStakeAtRisk` bounds what a player has, and says nothing of the commands that are
still in its mailbox. `ChallengeIInv` does. Every command is there because its request
waits for it (`Awaited`, `MailOK`), and a request counts exactly the mailboxes it waits
for (`RequestOK`). No command that locks waits behind one that pays, since a match is
resolved before anything is paid and a create or an accept checks that before it posts
(`MailOK`). So once a player has been paid its stake is closed, and nothing in its
mailbox will open another (`StakeOK`): a second payment does nothing. That is what
makes "at most one pot" inductive.

The uncontested properties need `Calm`, which says of each request where it stands
what it has already closed (`CalmRequest`), what a payment in a mailbox amounts to
(`CalmMail`) and what a player has in each status (`CalmMoney`). Two settlements of one
challenge may overlap freely: both compute the same payments, and whichever command
comes second does nothing. `ChallengeConserves` is then a sum in which two entries
changed, by gains that add up to minus one rake.

`LifeInOrder` is the counterpart of the run `challenge_race`: the replaced opponent it
finds belongs to a contest. Nothing in the escrow's projection refuses an event in any
status, so that the order of events is right rests on the requests alone, and where
they are contested it is not.

### Deposits and withdrawals

`PlayerProofs`, for any number of players, syncs, requests, transactions,
withdrawals and restarts, any fee and any listing:

| Theorem | States | Also checked by |
|---|---|---|
| `AlwaysSolvent` | `[]Solvent` | `ledger` |
| `OneCreditPerSweep` | `[]CreditedOnce` | `ledger` |
| `TypeCorrect`, `Invariance` | `[]TypeOK`, `[]IInv` | `ledger` (the first) |

`Solvent` compares four sums over three lists that grow and change independently:
the float over what landed, the credits, the debits and what is leaving. The
invariant ties them together transaction by transaction. `FloatInv`: the float what the landed sweeps and transfers of USDC moved in (`In`) less what the landed payouts moved out
(`Out`), and the latter is what the withdrawals have paid (`PaidBy`), because a
withdrawal and its payout name each other (`PayoutInv`). `CreditInv`: the credits on
USDC of one player add up to some share of each such transaction, nothing of one not
credited yet, so they never exceed what these moved; a credit takes its share of one of
them, which `CreditedOnce` and the replay guard keep free until then, since it has one
payer. A credit on anything else counts for nothing on both sides. What a withdrawal has paid
and what of it is leaving stay within its debit, whatever its status; the sums
follow (`SumPlus`, `SumMonotone`). The replay guard is read when a command starts and
used after an await: `MailboxInv` says that what a command has read stays true,
because it is alone in its player's mailbox. `BalanceInv` rests on the same fact for
the check of the balance.

### Money calls

`CallsProofs`, for any number of requests, wallets, attempts and restarts, any windows:

| Theorem | States | Also checked by |
|---|---|---|
| `NoMoneyAfterTheEnd` | `[]EndedNeverBuys` | `money` |
| `NeverTwoLiveCalls` | `[]OneLiveCall` | `money` |
| `PrivateUntilFilled` | `PrivacyKept` | `money` |
| `OneBuyPerWallet` | `[]WalletBuysOnce`: two buys going through are never of one wallet | proved only |
| `FillIsFinal` | a FILLED attempt stays FILLED | proved only |
| `FundIsFinal` | a FUNDED row stays FUNDED | proved only |
| `FundedWasBought` | `[]FundedIsFilled`: a FUNDED call has a FILLED attempt | proved only |
| `MoneyTypes`, `MoneyInvariance` | `[]MoneyTypeOK`, `[]MoneyIInv` | `money` (the first) |

A request reads a row, waits, and uses it. The invariant therefore says of every
request what the row it *holds* can be, beside the stored one (`Holds`): it exists, so the
stored one does; it is FUNDED only if the stored one is; at the places that lead to a
new quote or to an end it was PENDING. That is what a late `Put` needs: a row put back
into the index after a restart, or by a request that was overtaken, makes a private
call public only if the fill is stored. Around it, three lemmas bound what one step may do to the stored row
(`RowMoves`), to the trades (`TradeMoves`) and to the index (`IndexMoves`), and the
theorems about steps read them off.

`EndedNeverBuys` is inductive only together with `RowMoves` and `TradeMoves`: a row becomes
EXPIRED in a step that sees no buy and changes no trade, and a buy begins in a step that
sees the row PENDING and leaves it so. The two guards, of the store and of the
trigger, are evaluated with their writes; the proof uses nothing that a request checked
earlier. `OneLiveCall` is proved of all that a crash may keep: each write alone is safe
(`SafeCalls`), because the replacement hides the old call before it shows the free one.

`FillIsFinal` needs one fact more about a request in flight: one that retires a quote
goes on with the state it read, and that was QUOTED or PREPARING (`RetiresUnsigned`), so
its conditional write misses an attempt that filled meanwhile. `OneBuyPerWallet`
says what is left of the disagreement `money_one_buy` shows: only a retry with another
wallet opens a second buy.

### Signed rows

`SignedRowsProofs`, for any rows, approvals and number of concurrent handlers:

| Theorem | States | Also checked by |
|---|---|---|
| `FailedIsFinal` | `[]FailedNeverMoves` | `signed` |
| `LedgersSpendOnce` | `Spec => SpendsOnce`: the refinement, step by step | `signed` |
| `NothingPaidTwice`, `OneApprovalInDoubt` | `[]PaidOnce`, `[]OneInDoubt` | |
| `RowTypes`, `Invariance` | `[]TypeOK`, `[]IInv` | |

`FailedNeverMoves` is not inductive: it says nothing of a handler that is about to
write FAILED. `IInv` says what each handler knows where it stands (`SoundHandler`):
past "height" the transaction can no longer land, past "seen" it has not, so that
what it is going to write stays true however long it waits, because each of these
facts is stable (`HarmlessKept`). Around it: what is sent is stored (`SentIsSigned`)
and one row holds the slot (`OneHolder`). The refinement proof then shows for
each action which step of `SpendOnce` it maps to, or that the mapped variables
stay as they are.

### Market creation

`PublishSagaProofs`, for any number of sessions and concurrent requests:
`FailedIsNeverPaid`, `MoneyAlwaysHeld`, `LiveAlwaysPaid` (all also checked by
`publish`), `OneCreateOnly`, `EndsAreFinal`, `ProposalTypes`, `Invariance` (proved
only). As above, the invariant
says what a request knows where it stands; its part `Orderly`, under `~overlapped`, adds
that at most one request of a kind is under way and that a proposal with money in
doubt is publishing with that session active. `EndsAreFinal` needs none of that part: a
handler that was overtaken writes a row only where it still finds the state it expects,
so whatever overlaps a rejected, withdrawn or live proposal stays so, a publishing
one goes live or is approved again, and no session that failed or was registered is
revived (`Stable`, `StatusKept`).

### Indexer

`IndexerProofs`, for any number of players, passes, transactions and retries:
`CursorNeverAhead` (`[]CursorCovers`, also checked by `indexer`), `RowsNeverGoBack`
(no step takes back a status, or what was walked past; proved only), `IndexerTypes`,
`Invariance`. The invariant says of each pass that everything before its place is
`Covered`, however old the cursor it started from; `Covered` is stable because the
status-gated writes never take a row back (`EffectFacts`, `StepGrows`), so a pass
that was overtaken may still move the cursor.

### Call results

`CallsProofs`, for any number of markets, of broken ones, and any budget:
`EvidenceAlwaysAgrees`, `ShownAlwaysStands` (also checked by `results`),
`ResultTypes`, `Invariance`. `ShownStands` needs to know why a drained queue without
failures means that Postgres has the result: `Waiting` says that a settled result
is in Postgres or in the queue unless a write was passed over, `Behind` that
Postgres never contradicts memory, `Told` that what waits in the queue is what memory
says. `RowSteps` reduces every step to one of seven ways of moving the rows, and
one lemma per way preserves the invariant.

### Assumptions

Beside those of `ArenaPot`: `RequestAssumption` (creates and cancels are the creator's,
and there is one create, because another is a challenge of its own) and
`MoneyAssumption` (the stake is positive, the rake at most the whole) of
`ChallengeEscrow`; `ProcessAssumption` (the sweeper is not a request, the owner has a
wallet) and `WindowAssumption` of `MoneyCalls`; `SettlementAssumption`,
`LedgerAssumption`, `ApprovalAssumption`, `IndexerAssumption` and `ResultsAssumption`,
which type the constants. The runs evaluate all of them.

**Only model-checked**: the liveness properties, since fairness and ENABLED are out of
TLAPS' reach: `StakesReturn`, `MatchedSettles`, `CallsClose`, `SweptIsCredited`,
`WithdrawalEnds`, `NoGhosts`, `FillFunds`, `Settles` (of signed rows and of results),
`Publishes` and `CatchesUp`. What they say of the runs' instances is not extended to
others by anything here.

## 14. Where the code and its comments disagree

Each is a run that expects a violation of one property, taken from a comment.

| Run, property | Comment | What the code does |
|---|---|---|
| `challenge_race`, `AcceptSingleWinner` | `Engine.ts:242-244`: only the first ChallengeAccepted lands | the version is read after the wait in the mailbox (`:266`), so a later accept appends at the fresh version, replaces the opponent, and strands the first stake |
| `match_restart`, `OwedIsPaid` | `PotProjection.ts:215`: the saga's worklist | nobody reads it, and `resolveMatch` returns at once on a RESOLVED match (`Engine.ts:409`): calls interrupted by a restart are never paid |
| `money_one_buy`, `OneBuy` | `MoneyCallsService.ts:222-223, 477-478`: never a second buy while one is going through | `retireQuote` returns silently when its first read is already SUBMITTED (`:484`): a retry with another wallet opens a second buy |

Other disagreements are described where the module is, without a run of their own:
a settler who picks the stats that decide a pot, a line pot's among them, and the line
without an under side (section 3), a deposit of another token or of several players, a
payout that landed and was reversed and a withdrawal nothing reconciles (6), a call that
is public before it is funded and a fill nobody sees behind a newer attempt that failed (7), pruned history taken for proof (8), overlapping submissions and the
torn release (9), an unreadable pot walked past (10), the called slice that stays
where it is (11).

## 15. What is not modelled, and why

- **Data**: HTTP adapters, catalogues, prices, caches and the circuit breaker; the Borsh
  mirror of the oracle's types; decoding of accounts and proofs.
- **Work done in SQL functions kept outside the source tree**: accounts, wallet links,
  account claims. Where such a function matters to a model (the trade guard, the
  indexer's writes, the triggers on results) it is external there.
- **No state, or none that anything reads back**: text generation, memory mirrors, the
  activity list, positions and execution checks, the web application, routing.
- **The keeper**: each of its functions sends one instruction of the arena program and
  keeps nothing. `ArenaPot` allows these instructions in every order, so whatever
  the keeper does, its safety is the program's; what it never does (void_pot) is an
  assumption of section 12 about the players.
- **One row, one writer**: deposit orders and the SOL top-up (in memory, lost by a
  restart), reports and blocks, notifications and push (derived, then pushed at
  most once), sign-up, rating, welcome grants, house seeding.
- **Synchronous rules of one store**: duels, backings, visibility and receipts of
  calls; proposals' limits and text rules.
- **Inside the modelled parts**: the engine's openMatch and market reconciliation, the
  bots of HouseLiquidity, the demo endpoint that resolves a match by hand, the await
  between makeCall's check and its append; Panta sales and provider retries.

## 16. Running it

    tlc -workers 2 -config ArenaPot_safety.cfg MCArenaPot
    tlapm ArenaPotProofs.tla

`PROJECT.json` lists each run with its module and configuration, each property
with a mutation of the model that breaks it, each theorem, each hazard, and for
every definition the source lines it stands for. The longest runs are `money`,
`indexer` and `publish` (two to three minutes each); the proofs take some minutes
from nothing.
