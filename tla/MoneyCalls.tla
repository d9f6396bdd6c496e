------------------------------ MODULE MoneyCalls ------------------------------
(***************************************************************************)
(* A call made with an amount: one row of money_calls, the trade sessions  *)
(* of its attempts, the call itself (with the fresh free call that may     *)
(* replace it) and the index that keeps it private.  The rows are in the   *)
(* database.  The call is in a mirror that is written at once, and durably *)
(* by a queue in the same order: how far the queue got shows only at a     *)
(* flush, which waits for all of it, or at a restart, which keeps some     *)
(* prefix.  The index is in memory only, and read again from the rows on   *)
(* restart.                                                                *)
(*                                                                         *)
(* Requests and the sweeper go through the steps of MoneyCallsService, one *)
(* per await; between two of them anything else may run, and the request   *)
(* goes on with the row it read.  Every row update names the state and     *)
(* attempts it expects.                                                    *)
(***************************************************************************)
EXTENDS Naturals, Sequences, FiniteSets, FiniteSetsExt, Functions

CONSTANTS
  Requests,     \* the person's requests and fill notices that may be in flight at once
  Sweeper,      \* the sweeper of PantaReconciler (one pass at a time)
  Wallets,      \* the owner's proven wallets
  Initial,      \* PENDING_INITIAL_MS, also NOT_CREATED_GRACE_MS
  QuoteLife,    \* how long a Panta quote can be signed
  Grace,        \* PENDING_GRACE_MS
  MaxAttempts,  \* bound on attempts
  MaxNow,       \* bound on the clock
  MaxFaults     \* bound on restarts and failed sweeps

ASSUME ProcessAssumption == Sweeper \notin Requests /\ Wallets # {}
ASSUME WindowAssumption ==
  /\ Initial \in Nat \ {0} /\ QuoteLife \in Nat \ {0} /\ Grace \in Nat
  /\ MaxAttempts \in Nat \ {0} /\ MaxNow \in Nat /\ MaxFaults \in Nat

VARIABLES
  row,     \* the money_calls row
  index,   \* MoneyCallIndex: the private row it holds, if any
  trade,   \* panta_trade_sessions, by attempt
  calls,   \* the calls mirror: this call, its free replacement, who counts on the target
  durable,    \* the same, durable
  unflushed,   \* the mirror after each write no flush has waited for
  open,    \* the market takes calls
  now,
  proc,    \* where each request and the sweeper are
  faults

store == <<calls, durable, unflushed>>
moneyVars == <<row, index, trade, store, open, now, proc, faults>>

Attempts == 1..MaxAttempts
Procs == Requests \union {Sweeper}
Closed == {"EXPIRED", "FREE"}

NoRow == [state |-> "NONE", reason |-> "none", attempts |-> 0, wallet |-> CHOOSE w \in Wallets : TRUE, expires |-> 0]
NoTrade == [state |-> "NONE", wallet |-> NoRow.wallet, expires |-> 0, signed |-> FALSE]
NoCalls == [call |-> "none", free |-> "none", counted |-> "none"]
AtRest == [at |-> "idle", op |-> "none", row |-> NoRow, wallet |-> NoRow.wallet, seen |-> "none", reason |-> "none"]

MoneyInit ==
  /\ row = NoRow /\ index = NoRow
  /\ trade = [a \in Attempts |-> NoTrade]
  /\ calls = NoCalls /\ durable = NoCalls /\ unflushed = <<>>
  /\ open = TRUE /\ now = 0 /\ faults = 0
  /\ proc = [p \in Procs |-> AtRest]

-----------------------------------------------------------------------------
Signed == {a \in Attempts : trade[a].signed}
(* latestForCall: the newest attempt that reached a signature *)
Latest == IF Signed = {} THEN NoTrade ELSE trade[Max(Signed)]
Buying(a) == trade[a].state \in {"SUBMITTED", "FILLED"}
BuyingWith(w) == \E a \in Attempts : Buying(a) /\ trade[a].wallet = w

OwnLastQuote(r) == trade[r.attempts].state = "FILLED" /\ trade[r.attempts].expires <= r.expires

FundsIt_Current(r, a) ==  \* faulty: the current attempt only, a pending call's too
  trade[a].state = "FILLED" /\ r.state # "FUNDED" /\ a = r.attempts
(* fundsIt: does attempt a fund the call, as this row tells it? *)
FundsIt(r, a) ==
  /\ trade[a].state = "FILLED" /\ r.state # "FUNDED"
  /\ r.state \in Closed => r.reason # "discarded" /\ a = r.attempts /\ OwnLastQuote(r)

(* what the store refuses, whatever the caller read *)
GuardFunded(r) ==
  /\ \E a \in Attempts : trade[a].state = "FILLED"
  /\ r.state \in Closed => r.reason # "discarded" /\ OwnLastQuote(r)
GuardExpired_Never == TRUE  \* faulty: EXPIRED while a trade is going through
GuardExpired == ~ \E a \in Attempts : Buying(a)

(* moneyCallRefusal: may attempt a be traded now? *)
Tradable(a) == row.state = "PENDING" /\ row.attempts = a /\ now < row.expires

Put(r) == index' = IF r.state = "FUNDED" THEN NoRow ELSE r

MoveTo(p, place) == proc' = [proc EXCEPT ![p].at = place, ![p].seen = "none"]
Done(p) == proc' = [proc EXCEPT ![p] = AtRest]
Begin(p, place, op, r, w) ==
  proc' = [proc EXCEPT ![p] = [AtRest EXCEPT !.at = place, !.op = op, !.row = r, !.wallet = w]]
At(p, place) == proc[p].at = place
Mine(p) == proc[p].row
Matches(p) == row.state = Mine(p).state /\ row.attempts = Mine(p).attempts

(* insertCall, hideCall, unhideCall, insertResponse: the mirror now, the disk in order *)
WriteCalls(cs) == calls' = cs[Len(cs)] /\ unflushed' = unflushed \o cs /\ durable' = durable

-----------------------------------------------------------------------------
(* prepareCall, and the replay of its key *)

Insert(p, w) ==
  /\ At(p, "idle") /\ row.state = "NONE" /\ open
  /\ w = NoRow.wallet  \* bound: wallets are interchangeable, so the first may be this one
  /\ row' = [state |-> "PENDING", reason |-> "none", attempts |-> 1, wallet |-> w, expires |-> now + Initial]
  /\ Begin(p, "inserted", "quote", row', w)
  /\ UNCHANGED <<index, trade, store, open, now, faults>>

LockOr(p, place) ==
  IF open /\ calls.call = "none" /\ calls.free = "none"
  THEN WriteCalls(<<[calls EXCEPT !.call = "live"]>>) /\ proc' = [proc EXCEPT ![p].at = "flush", ![p].seen = "latest"]
  ELSE UNCHANGED store /\ proc' = [proc EXCEPT ![p].at = place, ![p].reason = "ended"]

(* private before it exists; a call that cannot be locked ends *)
Lock(p) ==
  /\ At(p, "inserted")
  /\ Put(Mine(p)) /\ LockOr(p, "end")
  /\ UNCHANGED <<row, trade, open, now, faults>>

(* replay, retry: a row still PENDING is quoted again, its call locked first if it was lost *)
Retry(p, w) ==
  /\ At(p, "idle") /\ row.state = "PENDING"
  /\ Begin(p, IF calls.call = "none" THEN "replay" ELSE "latest", "quote", row, w)
  /\ UNCHANGED <<row, index, trade, store, open, now, faults>>

Replay(p) ==
  /\ At(p, "replay")
  /\ LockOr(p, "end")
  /\ UNCHANGED <<row, index, trade, open, now, faults>>

Flushed(p) ==
  /\ At(p, "flush")
  /\ durable' = calls /\ unflushed' = <<>> /\ calls' = calls
  /\ IF proc[p].seen \in {"latest", "free"} THEN MoveTo(p, proc[p].seen) ELSE Done(p)
  /\ UNCHANGED <<row, index, trade, open, now, faults>>

-----------------------------------------------------------------------------
(* The newest signed trade, read by every operation first *)

Choose(p) ==
  /\ At(p, "idle") /\ row.state = "PENDING"
  /\ \E op \in {"keepFree", "discard"} : Begin(p, "latest", op, row, row.wallet)
  /\ UNCHANGED <<row, index, trade, store, open, now, faults>>

Sweep ==
  /\ At(Sweeper, "idle") /\ index.state # "NONE"
  /\ Begin(Sweeper, "latest", "sweep", index, index.wallet)
  /\ UNCHANGED <<row, index, trade, store, open, now, faults>>

SweepDue_Created(r) == calls.call # "none" /\ (~open \/ now >= r.expires)  \* faulty: waits for a call that never comes
(* a call that never appeared, whose market closed, or whose window did *)
SweepDue(r) ==
  \/ calls.call = "none" /\ now > r.expires
  \/ calls.call # "none" /\ (~open \/ now >= r.expires)

MayReplace == open /\ calls.call = "live" /\ calls.free = "none"

ReadLatest(p) ==
  /\ At(p, "latest")
  /\ LET op == proc[p].op
         late == now >= Mine(p).expires
     IN \/ /\ Latest.state = "FILLED"
           /\ IF FundsIt(Mine(p), Max(Signed)) THEN MoveTo(p, "fund") ELSE Done(p)
        \/ Latest.state = "SUBMITTED" /\ Done(p)
        \/ /\ Latest.state \notin {"FILLED", "SUBMITTED"}
           /\ \/ op \in {"quote", "keepFree"} /\ late
                 /\ proc' = [proc EXCEPT ![p].at = "end", ![p].reason = "ended"]
              \/ op = "quote" /\ ~late /\ MoveTo(p, "current")
              \/ op = "keepFree" /\ ~late /\ IF MayReplace THEN MoveTo(p, "retire") ELSE Done(p)
              \/ op = "discard" /\ proc' = [proc EXCEPT ![p].at = "retire", ![p].reason = "discarded"]
              \/ /\ op = "sweep"
                 /\ IF Mine(p).state = "PENDING" /\ SweepDue(Mine(p))
                    THEN proc' = [proc EXCEPT ![p].at = "retire", ![p].reason = "ended"]
                    ELSE Done(p)
  /\ UNCHANGED <<row, index, trade, store, open, now, faults>>

-----------------------------------------------------------------------------
(* retireQuote: the current attempt's unsigned quote can no longer be signed *)

AfterRetire(p) ==
  CASE proc[p].op = "quote" -> MoveTo(p, "bump")
    [] proc[p].op = "keepFree" -> MoveTo(p, "replace")
    [] proc[p].op \in {"discard", "sweep"} -> MoveTo(p, "end")
    [] proc[p].op = "refuse" -> Done(p)

Session(p) == trade[Mine(p).attempts]

Retire(p) ==
  /\ At(p, "retire")
  /\ IF Session(p).state \in {"QUOTED", "PREPARING"}
     THEN proc' = [proc EXCEPT ![p].at = "retiring", ![p].seen = Session(p).state]
     ELSE AfterRetire(p)
  /\ UNCHANGED <<row, index, trade, store, open, now, faults>>

Retiring(p) ==
  /\ At(p, "retiring")
  /\ IF Session(p).state = proc[p].seen
     THEN trade' = [trade EXCEPT ![Mine(p).attempts].state = "FAILED"] /\ AfterRetire(p)
     ELSE /\ IF Buying(Mine(p).attempts) THEN Done(p) ELSE AfterRetire(p)
          /\ trade' = trade
  /\ UNCHANGED <<row, index, store, open, now, faults>>

-----------------------------------------------------------------------------
(* quote, and the trade service's prepare *)

ReadCurrent(p) ==
  /\ At(p, "current")
  /\ LET live == Session(p).state = "QUOTED" /\ Session(p).wallet = proc[p].wallet /\ Session(p).expires > now
     IN IF Session(p).state = "PREPARING" \/ live \/ ~open THEN Done(p)
        ELSE MoveTo(p, IF Session(p).state # "NONE" \/ proc[p].wallet # Mine(p).wallet THEN "retire" ELSE "reserve")
  /\ UNCHANGED <<row, index, trade, store, open, now, faults>>

Bump(p) ==
  /\ At(p, "bump") /\ row.attempts < MaxAttempts
  /\ IF Matches(p)
     THEN /\ row' = [row EXCEPT !.attempts = @ + 1, !.wallet = proc[p].wallet]
          /\ Put(row') /\ proc' = [proc EXCEPT ![p].at = "reserve", ![p].row = row']
     ELSE row' = row /\ index' = index /\ Done(p)
  /\ UNCHANGED <<trade, store, open, now, faults>>

Reserve(p) ==
  /\ At(p, "reserve")
  /\ LET a == Mine(p).attempts IN
     \/ /\ trade[a].state = "NONE" /\ Tradable(a) /\ open /\ ~BuyingWith(proc[p].wallet)
        /\ trade' = [trade EXCEPT ![a].state = "PREPARING", ![a].wallet = proc[p].wallet]
        /\ MoveTo(p, "build")
     \/ /\ trade[a].state = "QUOTED" /\ trade[a].wallet = proc[p].wallet /\ now < trade[a].expires
        /\ MoveTo(p, "window") /\ trade' = trade
     \/ /\ trade[a].state # "NONE" \/ ~Tradable(a) \/ ~open \/ BuyingWith(proc[p].wallet)
        /\ ~ (trade[a].state = "QUOTED" /\ trade[a].wallet = proc[p].wallet /\ now < trade[a].expires)
        /\ Done(p) /\ trade' = trade
  /\ UNCHANGED <<row, index, store, open, now, faults>>

(* the window is the first quote's life plus the grace, set once *)
SetsWindow(p) == Mine(p).attempts = 1

Build(p) ==
  /\ At(p, "build")
  /\ LET a == Mine(p).attempts IN
     IF trade[a].state # "PREPARING" THEN trade' = trade /\ Done(p)
     ELSE \/ /\ now + QuoteLife + (IF SetsWindow(p) THEN Grace ELSE 0) <= MaxNow  \* bound: a window ends in time
             /\ trade' = [trade EXCEPT ![a].state = "QUOTED", ![a].expires = now + QuoteLife]
             /\ MoveTo(p, "window")
          \/ trade' = [trade EXCEPT ![a].state = "FAILED"] /\ Done(p)
  /\ UNCHANGED <<row, index, store, open, now, faults>>

Window(p) ==
  /\ At(p, "window")
  /\ IF SetsWindow(p)
     THEN IF Matches(p)
          THEN row' = [row EXCEPT !.expires = Session(p).expires + Grace] /\ Put(row') /\ Done(p)
          ELSE row' = row /\ index' = index /\ Done(p)
     ELSE /\ row' = row /\ index' = index
          /\ IF Session(p).expires > Mine(p).expires
             THEN proc' = [proc EXCEPT ![p].at = "retire", ![p].op = "refuse"]
             ELSE Done(p)
  /\ UNCHANGED <<trade, store, open, now, faults>>

-----------------------------------------------------------------------------
(* Ending: the row first, the call after *)

End(p) ==
  /\ At(p, "end")
  /\ IF Matches(p) /\ row.state = "PENDING"
     THEN IF GuardExpired
          THEN /\ row' = [row EXCEPT !.state = "EXPIRED", !.reason = proc[p].reason]
               /\ proc' = [proc EXCEPT ![p].at = "ended", ![p].row = row', ![p].seen = "saved"]
          ELSE row' = row /\ Done(p)
     ELSE row' = row /\ proc' = [proc EXCEPT ![p].at = "ended", ![p].row = row, ![p].seen = "lost"]
  /\ UNCHANGED <<index, trade, store, open, now, faults>>

Ended(p) ==
  /\ At(p, "ended")
  /\ Put(Mine(p))
  /\ IF proc[p].seen = "saved" /\ calls.call = "live"
     THEN WriteCalls(<<[calls EXCEPT !.call = "expired"]>>) /\ MoveTo(p, "flush")
     ELSE UNCHANGED store /\ Done(p)
  /\ UNCHANGED <<row, trade, open, now, faults>>

(* keepFree: the calls first, the row after *)
ReplaceWrites_Created(cs) ==  \* faulty: the free call is queued before the other is hidden
  <<[cs EXCEPT !.free = "live"], [cs EXCEPT !.call = "kept", !.free = "live", !.counted = "free"]>>
ReplaceWrites(cs) ==
  <<[cs EXCEPT !.call = "kept"], [cs EXCEPT !.call = "kept", !.free = "live", !.counted = "free"]>>

Replace(p) ==
  /\ At(p, "replace")
  /\ IF MayReplace
     THEN WriteCalls(ReplaceWrites(calls)) /\ proc' = [proc EXCEPT ![p].at = "flush", ![p].seen = "free"]
     ELSE UNCHANGED store /\ Done(p)
  /\ UNCHANGED <<row, index, trade, open, now, faults>>

Free(p) ==
  /\ At(p, "free")
  /\ row' = IF Matches(p) THEN [row EXCEPT !.state = "FREE", !.reason = "kept_free"] ELSE row
  /\ Put(row') /\ Done(p)
  /\ UNCHANGED <<trade, store, open, now, faults>>

-----------------------------------------------------------------------------
(* The fill: signed by the owner, decided by the chain, funding the call *)

(* the trade ledger's trigger and its one buy per call and wallet *)
TradeGuard(a) == Tradable(a) /\ ~BuyingWith(trade[a].wallet)

(* submit: what it checks before the write the ledger checks again with it *)
Submit(a) ==
  /\ trade[a].state = "QUOTED" /\ now < trade[a].expires /\ TradeGuard(a)
  /\ trade' = [trade EXCEPT ![a].state = "SUBMITTED", ![a].signed = TRUE]
  /\ UNCHANGED <<row, index, store, open, now, proc, faults>>

(* PantaTradingService.reconcile, once the chain has the answer *)
Reconcile(a) ==
  /\ trade[a].state = "SUBMITTED"
  /\ \E outcome \in {"FILLED", "FAILED"} : trade' = [trade EXCEPT ![a].state = outcome]
  /\ UNCHANGED <<row, index, store, open, now, proc, faults>>

(* onFilled and callStatus, with the row the index holds or the stored one *)
Notice(p, a) ==
  /\ At(p, "idle")
  /\ \E r \in {index, row} :
       /\ r.state # "NONE" /\ FundsIt(r, a)
       /\ Begin(p, "fund", "notice", r, r.wallet)
  /\ UNCHANGED <<row, index, trade, store, open, now, faults>>

Fund(p) ==
  /\ At(p, "fund")
  /\ IF Matches(p) /\ row.state # "FUNDED"
     THEN IF GuardFunded(row)
          THEN /\ row' = [row EXCEPT !.state = "FUNDED", !.reason = "filled"]
               /\ proc' = [proc EXCEPT ![p].at = "funded", ![p].row = row', ![p].seen = Mine(p).state]
          ELSE row' = row /\ Done(p)
     ELSE row' = row /\ proc' = [proc EXCEPT ![p].at = "funded", ![p].row = row, ![p].seen = Mine(p).state]
  /\ UNCHANGED <<index, trade, store, open, now, faults>>

(* restoreFundedCall, publishFundedCall *)
Published(was) ==
  LET shown == IF was = "EXPIRED" /\ calls.call \in {"expired", "kept"} /\ calls.free = "none"
               THEN [calls EXCEPT !.call = "live"] ELSE calls
  IN IF shown.call # "none" /\ shown.counted = "none" THEN [shown EXCEPT !.counted = "funded"] ELSE shown

Funded(p) ==
  /\ At(p, "funded")
  /\ Put(Mine(p))
  /\ IF Mine(p).state = "FUNDED"
     THEN /\ IF Published(proc[p].seen) # calls THEN WriteCalls(<<Published(proc[p].seen)>>) ELSE UNCHANGED store
          /\ proc' = [proc EXCEPT ![p].at = "flush", ![p].seen = "done"]
     ELSE UNCHANGED store /\ Done(p)
  /\ UNCHANGED <<row, trade, open, now, faults>>

-----------------------------------------------------------------------------
(* The clock, the market, and what fails *)

(* The clock counts from the intent.  Once the row is closed neither it nor *)
(* the market decides anything more, and both are left where they are. *)
ClockTick ==
  /\ row.state = "PENDING"
  /\ now < MaxNow /\ now' = now + 1
  /\ UNCHANGED <<row, index, trade, store, open, proc, faults>>

CloseMarket ==
  /\ row.state = "PENDING"
  /\ open /\ open' = FALSE
  /\ UNCHANGED <<row, index, trade, store, now, proc, faults>>

(* a read refused, a reply lost, a person who never answers; of the sweeper's, MaxFaults *)
Drop(p) ==
  /\ proc[p].at \notin {"idle", "build", "flush"}
  /\ Done(p)
  /\ IF p = Sweeper THEN faults < MaxFaults /\ faults' = faults + 1 ELSE faults' = faults
  /\ UNCHANGED <<row, index, trade, store, open, now>>

Hydrated_Pending == IF row.state = "PENDING" THEN row ELSE NoRow  \* faulty: closed rows are not read again
(* privateRows *)
Hydrated == IF row.state \in {"PENDING", "EXPIRED", "FREE"} THEN row ELSE NoRow

Restart ==
  /\ faults < MaxFaults /\ faults' = faults + 1
  /\ \E kept \in {durable} \union Range(unflushed) : calls' = kept /\ durable' = kept
  /\ unflushed' = <<>>
  /\ index' = Hydrated
  /\ proc' = [p \in Procs |-> AtRest]
  /\ UNCHANGED <<row, trade, open, now>>

Step(p) ==
  \/ Lock(p) \/ Replay(p) \/ Flushed(p) \/ ReadLatest(p) \/ Retire(p) \/ Retiring(p)
  \/ ReadCurrent(p) \/ Bump(p) \/ Reserve(p) \/ Build(p) \/ Window(p)
  \/ End(p) \/ Ended(p) \/ Replace(p) \/ Free(p) \/ Fund(p) \/ Funded(p)

MoneyNext ==
  \/ \E p \in Requests :
       \/ \E w \in Wallets : Insert(p, w) \/ Retry(p, w)
       \/ Choose(p)
       \/ \E a \in Attempts : Notice(p, a)
  \/ Sweep
  \/ \E p \in Procs : Step(p) \/ Drop(p)
  \/ \E a \in Attempts : Submit(a) \/ Reconcile(a)
  \/ ClockTick \/ CloseMarket \/ Restart

MoneySpec == MoneyInit /\ [][MoneyNext]_moneyVars

(* timers keep running the reconciler and its sweep; nothing is promised of a person *)
MoneyFairSpec ==
  /\ MoneySpec
  /\ WF_moneyVars(Sweep \/ Step(Sweeper)) /\ WF_moneyVars(ClockTick)
  /\ WF_moneyVars(\E a \in Attempts : Reconcile(a))

-----------------------------------------------------------------------------
RowType == [state : {"NONE", "PENDING", "FUNDED", "FREE", "EXPIRED"},
            reason : {"none", "filled", "kept_free", "discarded", "ended"},
            attempts : 0..MaxAttempts, wallet : Wallets, expires : Nat]
CallsType == [call : {"none", "live", "expired", "kept"}, free : {"none", "live"},
              counted : {"none", "funded", "free"}]

(* every variable keeps the shape of the rows and mirrors it stands for *)
MoneyTypeOK ==
  /\ row \in RowType /\ index \in RowType /\ index.state # "FUNDED"
  /\ trade \in [Attempts -> [state : {"NONE", "PREPARING", "QUOTED", "SUBMITTED", "FILLED", "FAILED"},
                              wallet : Wallets, expires : Nat, signed : BOOLEAN]]
  /\ calls \in CallsType /\ durable \in CallsType /\ unflushed \in Seq(CallsType)
  /\ open \in BOOLEAN /\ now \in 0..MaxNow /\ faults \in 0..MaxFaults
  /\ \A p \in Procs : proc[p].row \in RowType /\ proc[p].wallet \in Wallets

(* A call that expired or was discarded has no buy going through and never *)
(* gets one: the money of an ended call is never spent *)
(* (MoneyCallsService.sweep, discard; retireQuote, the stores' guards). *)
EndedNeverBuys == row.state = "EXPIRED" => \A a \in Attempts : ~Buying(a)

(* The person never has two live calls on the market, in the mirror or in any *)
(* prefix of the writes a crash may keep (replaceFundedCallWithFree). *)
OneLiveCall ==
  \A c \in {calls, durable} \union Range(unflushed) : ~ (c.call = "live" /\ c.free = "live")

(* Once private, a call is private until its fill is durable: no end of it, no *)
(* restart, no stale row put back makes it public (MoneyCallIndex). *)
PrivacyKept == [][index.state # "NONE" /\ index'.state = "NONE" => row'.state = "FUNDED"]_moneyVars

(* A fill behind a newer attempt that failed, of another wallet: the sweeper sees *)
(* the newer one and ends the call, which the store refuses for the older one.    *)
Hidden == Latest.state = "FAILED" /\ \E a \in Attempts : trade[a].state = "FILLED"

(* No ghosts: a pending call that the index holds is funded, replaced or expired *)
(* in the end, whatever its requests left undone, unless a fill of it is hidden   *)
(* (sweep).                                                                       *)
NoGhosts == []<>(index.state = "PENDING" => row.state # "PENDING" \/ Hidden)

(* A fill reaches the person: a pending call whose newest signed buy filled *)
(* becomes FUNDED and public, even if the hook was missed, unless a buy with  *)
(* another wallet fails after it (onFilled, sweep). *)
FillFunds == row.state = "PENDING" /\ index.state # "NONE" /\ Latest.state = "FILLED"
               ~> (row.state = "FUNDED" /\ index.state = "NONE") \/ Hidden

(* MoneyCallsService.ts:222: "never a second buy while one is going through" *)
OneBuy == Cardinality({a \in Attempts : Buying(a)}) <= 1
=============================================================================
