--------------------------- MODULE MatchSettlement ---------------------------
(***************************************************************************)
(* One match of the play-money engine: the calls players make on its       *)
(* markets, and the timer's ticks that lock it, wait for its result to be  *)
(* corroborated, resolve it and settle its markets one after the other.    *)
(*                                                                         *)
(* Ticks are started every 30 s whether or not the last one has ended, so  *)
(* several may be under way.  A tick is a sequence of steps with an await  *)
(* between them: the verifier, a player's mailbox, an append to the        *)
(* match's stream at the version the engine has cached.                    *)
(***************************************************************************)
EXTENDS Parimutuel

CONSTANTS
  N,                \* players are numbered 1..N, in the order of their call ids
  Markets,          \* markets are numbered 1..Markets, in the order of the book
  Amounts,          \* stakes a player may place
  RakeBps, MinParticipants,
  Ticks,            \* ticks that may be under way at once
  None,             \* no version, no outcome yet
  VOID,             \* the outcome that refunds a market
  MaxCrashes        \* bound on process restarts

Player == 1..N
Market == 1..Markets
Bucket == 0..1
Outcome == Bucket \cup {VOID}

ASSUME SettlementAssumption ==
  /\ N \in Nat /\ Markets \in Nat /\ Amounts \subseteq Nat \ {0}
  /\ RakeBps \in 0..10000 /\ MinParticipants \in Nat /\ MaxCrashes \in Nat
  /\ None \notin Int /\ VOID \notin Int /\ None # VOID

VARIABLES
  status,       \* MatchState.status
  finished,     \* the feed reports the match as finished
  rooted,       \* the verifier corroborates its score
  result,       \* what the final score means for each market
  outcome,      \* winningBucket of each market, None until resolved
  settled,      \* MarketState.settled
  stake, bucket,\* the call of each player on each market; stake 0: none
  open,         \* whether that call is in the player's openCalls
  credit,       \* what the call has paid its player
  managersPot,  \* rakes counted from PotSettled events
  stored,       \* length of the match's stream
  cached,       \* Engine.matchVersions, None after a restart
  pc,           \* where each tick is
  todo,         \* markets a tick still has to settle
  current,      \* market a tick is settling; 0: it is resolving the match
  unpaid,       \* callers of that market a tick still has to pay
  expected,     \* the version a tick read from the stream itself, if any
  crashes

book == <<status, outcome, settled, managersPot, stored>>
calls == <<stake, bucket>>
ledger == <<open, credit>>
feed == <<finished, rooted, result>>
saga == <<pc, todo, current, unpaid, expected>>
vars == <<book, cached, calls, ledger, feed, saga, crashes>>

Init ==
  /\ status = "OPEN" /\ finished = FALSE /\ rooted = FALSE
  /\ result \in [Market -> Outcome]
  /\ outcome = [m \in Market |-> None] /\ settled = [m \in Market |-> FALSE]
  /\ stake = [m \in Market |-> [p \in Player |-> 0]]
  /\ bucket = [m \in Market |-> [p \in Player |-> 0]]
  /\ open = [m \in Market |-> [p \in Player |-> FALSE]]
  /\ credit = [m \in Market |-> [p \in Player |-> 0]]
  /\ managersPot = 0 /\ stored = 1 /\ cached = 1
  /\ pc = [t \in Ticks |-> "idle"] /\ todo = [t \in Ticks |-> {}]
  /\ current = [t \in Ticks |-> 0] /\ unpaid = [t \in Ticks |-> {}]
  /\ expected = [t \in Ticks |-> None]
  /\ crashes = 0

(* getMarketCalls: every call ever made on the market, settled or not *)
MarketCalls(m) == [stake |-> stake[m], bucket |-> bucket[m], n |-> N]

Refunds(m) ==
  outcome[m] = VOID \/ Voids(MarketCalls(m), outcome[m], MinParticipants)

Due(m, p) ==
  IF Refunds(m) THEN stake[m][p] ELSE Payout(MarketCalls(m), outcome[m], RakeBps, p)

MarketRake(m) == IF Refunds(m) THEN 0 ELSE RakeOf(MarketCalls(m), outcome[m], RakeBps)

Goto(t, place) == pc' = [pc EXCEPT ![t] = place]

-----------------------------------------------------------------------------
(* Players and the feed *)

MakeCall(m, p, b, a) ==
  /\ status = "OPEN"
  /\ stake[m][p] = 0
  /\ stake' = [stake EXCEPT ![m][p] = a]
  /\ bucket' = [bucket EXCEPT ![m][p] = b]
  /\ open' = [open EXCEPT ![m][p] = TRUE]
  /\ UNCHANGED <<book, cached, credit, feed, saga, crashes>>

Finish ==
  /\ ~finished /\ status # "OPEN" /\ finished' = TRUE
  /\ UNCHANGED <<book, cached, calls, ledger, rooted, result, saga, crashes>>

Root ==
  /\ finished /\ ~rooted /\ rooted' = TRUE
  /\ UNCHANGED <<book, cached, calls, ledger, finished, result, saga, crashes>>

-----------------------------------------------------------------------------
(* A tick *)

(* lockMatch, at kickoff; only later ticks have anything to append *)
LockMatch ==
  /\ status = "OPEN" /\ status' = "LOCKED"
  /\ stored' = stored + 1 /\ cached' = stored + 1
  /\ UNCHANGED <<outcome, settled, managersPot, calls, ledger, feed, saga, crashes>>

ResolveStart(t) ==
  /\ pc[t] = "idle"
  /\ finished /\ status = "LOCKED"
  /\ Goto(t, "verifying")
  /\ UNCHANGED <<book, cached, calls, ledger, feed, todo, current, unpaid, expected, crashes>>

VerifyGate_Open == TRUE  \* faulty: the verdict is not looked at
VerifyGate == rooted

(* unverified: the tick leaves the match as it is, for a later one *)
Verify(t) ==
  /\ pc[t] = "verifying"
  /\ Goto(t, IF VerifyGate THEN "appending" ELSE "idle")
  /\ current' = [current EXCEPT ![t] = 0]
  /\ UNCHANGED <<book, cached, calls, ledger, feed, todo, unpaid, expected, crashes>>

(* settleMarket, on the next market of the book *)
SettleMarket(t) ==
  /\ pc[t] = "settling" /\ todo[t] # {}
  /\ LET m == CHOOSE m \in todo[t] : \A o \in todo[t] : m <= o IN
     /\ current' = [current EXCEPT ![t] = m]
     /\ todo' = [todo EXCEPT ![t] = @ \ {m}]
     /\ unpaid' = [unpaid EXCEPT ![t] = Callers(MarketCalls(m))]
  /\ Goto(t, "appending")
  /\ UNCHANGED <<book, cached, calls, ledger, feed, expected, crashes>>

StillOpen_Always(m, p) == TRUE  \* faulty: pays a call that is no longer open
StillOpen(m, p) == open[m][p]

(* settleCall and voidCall, when the player's mailbox gets to it *)
PayCall(t, p) ==
  /\ pc[t] = "appending" /\ p \in unpaid[t]
  /\ LET m == current[t] IN
     IF StillOpen(m, p)
     THEN /\ open' = [open EXCEPT ![m][p] = FALSE]
          /\ credit' = [credit EXCEPT ![m][p] = @ + Due(m, p)]
     ELSE UNCHANGED ledger
  /\ unpaid' = [unpaid EXCEPT ![t] = @ \ {p}]
  /\ UNCHANGED <<book, cached, calls, feed, pc, todo, current, expected, crashes>>

AllPaid_Ignored(t) == TRUE  \* faulty: PotSettled is appended without awaiting the players
AllPaid(t) == unpaid[t] = {}

(* readStream, when the version is not cached *)
ReadVersion(t) ==
  /\ pc[t] = "appending" /\ AllPaid(t) /\ cached = None /\ expected[t] = None
  /\ expected' = [expected EXCEPT ![t] = stored]
  /\ UNCHANGED <<book, cached, calls, ledger, feed, pc, todo, current, unpaid, crashes>>

Version(t) == IF expected[t] # None THEN expected[t] ELSE cached

(* PotProjection and ReadModel.apply on MatchResolved or PotSettled *)
Project(t) ==
  IF current[t] = 0
  THEN status' = "RESOLVED" /\ outcome' = result /\ UNCHANGED <<settled, managersPot>>
  ELSE /\ settled' = [settled EXCEPT ![current[t]] = TRUE]
       /\ managersPot' = managersPot + MarketRake(current[t])
       /\ UNCHANGED <<status, outcome>>

AppendEvent(t) ==
  /\ pc[t] = "appending" /\ AllPaid(t) /\ Version(t) = stored
  /\ Project(t)
  /\ stored' = stored + 1
  /\ expected' = [expected EXCEPT ![t] = stored]
  /\ Goto(t, "publishing")
  /\ UNCHANGED <<cached, calls, ledger, feed, todo, current, unpaid, crashes>>

(* CONFLICT is thrown out of the tick: it is over *)
Conflict(t) ==
  /\ pc[t] = "appending" /\ AllPaid(t) /\ Version(t) # None /\ Version(t) # stored
  /\ expected' = [expected EXCEPT ![t] = None]
  /\ todo' = [todo EXCEPT ![t] = {}]
  /\ Goto(t, "idle")
  /\ UNCHANGED <<book, cached, calls, ledger, feed, current, unpaid, crashes>>

Worklist_FromZero == 0..Markets  \* faulty: off by one
Worklist_LinesOnly == Market \ {1}  \* faulty: the RESULT market is skipped
(* a tick that resolves the match settles all its markets *)
Worklist == Market

(* in the order of the appends: see ChallengeEscrow.Publish *)
Publish(t) ==
  /\ pc[t] = "publishing"
  /\ \A u \in Ticks : pc[u] = "publishing" => expected[t] <= expected[u]
  /\ cached' = expected[t] + 1
  /\ expected' = [expected EXCEPT ![t] = None]
  /\ todo' = IF current[t] = 0 THEN [todo EXCEPT ![t] = Worklist] ELSE todo
  /\ Goto(t, IF todo'[t] = {} THEN "idle" ELSE "settling")
  /\ UNCHANGED <<book, calls, ledger, feed, current, unpaid, crashes>>

(* a restart loses every tick under way, nothing stored *)
Crash ==
  /\ crashes < MaxCrashes /\ crashes' = crashes + 1
  /\ cached' = None
  /\ pc' = [t \in Ticks |-> "idle"] /\ todo' = [t \in Ticks |-> {}]
  /\ current' = [t \in Ticks |-> 0] /\ unpaid' = [t \in Ticks |-> {}]
  /\ expected' = [t \in Ticks |-> None]
  /\ UNCHANGED <<book, calls, ledger, feed>>

TickStep(t) ==
  \/ ResolveStart(t) \/ Verify(t) \/ SettleMarket(t)
  \/ ReadVersion(t) \/ AppendEvent(t) \/ Conflict(t) \/ Publish(t)

Next ==
  \/ \E m \in Market, p \in Player, b \in Bucket, a \in Amounts : MakeCall(m, p, b, a)
  \/ Finish \/ Root \/ LockMatch
  \/ \E t \in Ticks : TickStep(t) \/ \E p \in Player : PayCall(t, p)
  \/ Crash

Spec == Init /\ [][Next]_vars

(* Timers fire and mailboxes advance; matches end and their roots are       *)
(* posted in the end, which is external.                                    *)
Fairness ==
  /\ WF_vars(LockMatch) /\ WF_vars(Finish) /\ WF_vars(Root)
  /\ \A t \in Ticks : WF_vars(TickStep(t)) /\ \A p \in Player : WF_vars(PayCall(t, p))

FairSpec == Spec /\ Fairness

-----------------------------------------------------------------------------
(* Properties *)

\* Every field stays in its range.
TypeOK ==
  /\ status \in {"OPEN", "LOCKED", "RESOLVED"}
  /\ finished \in BOOLEAN /\ rooted \in BOOLEAN /\ result \in [Market -> Outcome]
  /\ outcome \in [Market -> Outcome \cup {None}] /\ settled \in [Market -> BOOLEAN]
  /\ stake \in [Market -> [Player -> {0} \cup Amounts]]
  /\ bucket \in [Market -> [Player -> Bucket]]
  /\ open \in [Market -> [Player -> BOOLEAN]]
  /\ credit \in [Market -> [Player -> Nat]]
  /\ managersPot \in Nat /\ stored \in Nat /\ cached \in Nat \cup {None}
  /\ pc \in [Ticks -> {"idle", "verifying", "settling", "appending", "publishing"}]
  /\ todo \in [Ticks -> SUBSET Market] /\ current \in [Ticks -> 0..Markets]
  /\ unpaid \in [Ticks -> SUBSET Player]
  /\ expected \in [Ticks -> Nat \cup {None}]
  /\ crashes \in 0..MaxCrashes

\* Once the calls of a market are closed, by whichever ticks and across
\* restarts, its payouts and its rake are exactly the stakes placed on it.
MarketConserves ==
  \A m \in Market :
    (status = "RESOLVED" /\ \A p \in Player : ~open[m][p]) =>
      SumTo(credit[m], N) + MarketRake(m) = SumTo(stake[m], N)

\* A market reads as settled only when none of its calls is still open.
SettledIsPaid == \A m \in Market : settled[m] => \A p \in Player : ~open[m][p]

\* Nothing is paid, resolved or settled on a score nobody has corroborated
\* (resolveMatch: no state is mutated before this check).
NothingUnverified ==
  ~rooted => /\ status # "RESOLVED"
             /\ \A m \in Market, p \in Player : stake[m][p] > 0 => open[m][p]

\* Unless the process restarts, every call is closed in the end, even when ticks
\* overlap and abandon each other's settlement.
AllClosed == \A m \in Market, p \in Player : ~open[m][p]
CallsClose == ~AllClosed ~> AllClosed \/ crashes > 0

-----------------------------------------------------------------------------
(* What comments of the engine say and the engine does not ensure *)

\* PotProjection: a worklist of the resolved markets that still owe payouts, so
\* that those payouts are made.
OwedIsPaid ==
  status = "RESOLVED" ~> \A m \in Market : settled[m]

=============================================================================
