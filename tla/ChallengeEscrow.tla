--------------------------- MODULE ChallengeEscrow ---------------------------
(***************************************************************************)
(* One 1-v-1 challenge of the play-money engine: the stakes its players    *)
(* lock on their own event streams, the escrow's stream, and the engine's  *)
(* requests that touch both (create, accept, cancel, settle).              *)
(*                                                                         *)
(* A request is a sequence of steps with an await between them.  A command *)
(* on a player waits its turn in that player's mailbox, behind commands    *)
(* that may take seconds.  An append to the escrow's stream names the      *)
(* version it expects, taken from an in-memory cache that is refreshed a   *)
(* step after each append.  The projections (view, free, locked) follow    *)
(* the log within the append itself, and are rebuilt from it on restart.   *)
(***************************************************************************)
EXTENDS Sums, Sequences, FiniteSets

CONSTANTS
  N,            \* players are numbered 1..N
  Reqs,         \* requests that may be in flight at once
  Op,           \* what each slot asks for: create, accept, cancel or settle
  Who,          \* the player who asks (any player for a settle)
  Initial,      \* free balance every player starts with
  Stake,        \* what each side stakes
  RakeBps,      \* config.rakeBps
  None,         \* no version, no player
  MaxCrashes    \* bound on process restarts

Player == 1..N
Creator == 1

\* A second create is a challenge of its own, so one slot creates this one.
ASSUME RequestAssumption ==
  /\ N \in Nat \ {0} /\ None \notin Int
  /\ Op \in [Reqs -> {"create", "accept", "cancel", "settle"}]
  /\ Who \in [Reqs -> Player]
  /\ \A s \in Reqs : Op[s] \in {"create", "cancel"} => Who[s] = Creator
  /\ \A s, t \in Reqs : Op[s] = "create" /\ Op[t] = "create" => s = t
ASSUME MoneyAssumption ==
  Initial \in Nat /\ Stake \in Nat \ {0} /\ RakeBps \in 0..10000 /\ MaxCrashes \in Nat

VARIABLES
  match,        \* status of the match's RESULT market
  result,       \* who the final score favours: the creator's side, the other, neither
  view,         \* ChallengeView: its status and its opponent
  stored,       \* length of the escrow's stream
  cached,       \* Engine.challengeVersions, None after a restart
  free,         \* dossier.balance + dossier.bonus of each player
  locked,       \* each player's open stake on this challenge
  managersPot,  \* rakes counted from ChallengeSettled events
  mail,         \* mailbox of each player: commands waiting their turn
  pc,           \* where each request is
  expected,     \* the version a request read from the stream itself, if any
  waiting,      \* mailbox commands a request is awaiting
  contested,    \* history: an accept or a cancel started while another was in flight,
                \* or a restart interrupted a cancel
  crashes

money == <<free, locked>>
escrow == <<view, stored, managersPot>>
request == <<pc, expected, waiting>>
challengeVars == <<match, result, escrow, cached, money, mail, request, contested, crashes>>

ChallengeInit ==
  /\ match = "OPEN" /\ result = "NONE"
  /\ view = [status |-> "NONE", opponent |-> None] /\ stored = 0 /\ cached = None
  /\ free = [p \in Player |-> Initial] /\ locked = [p \in Player |-> 0]
  /\ managersPot = 0
  /\ mail = [p \in Player |-> <<>>]
  /\ pc = [s \in Reqs |-> "idle"] /\ expected = [s \in Reqs |-> None]
  /\ waiting = [s \in Reqs |-> 0]
  /\ contested = FALSE /\ crashes = 0

Rake == (Stake * RakeBps) \div 10000
WinnerPayout_Unraked == 2 * Stake  \* faulty: the rake is counted but not withheld
(* settleParimutuel on two equal stakes, one of them on the result *)
WinnerPayout == 2 * Stake - Rake

Command(s, kind, amount) == [slot |-> s, kind |-> kind, amount |-> amount]

(* Slot s posts the given command to each player in the domain of cmds. *)
Post(s, cmds) ==
  /\ mail' = [p \in Player |-> IF p \in DOMAIN cmds THEN Append(mail[p], cmds[p]) ELSE mail[p]]
  /\ waiting' = [waiting EXCEPT ![s] = Cardinality(DOMAIN cmds)]

PostTo(s, p, kind) == Post(s, [q \in {p} |-> Command(s, kind, 0)])

MoveTo(s, place) == pc' = [pc EXCEPT ![s] = place]

-----------------------------------------------------------------------------
(* Requests: the checks, made before the first await *)

Contenders == {t \in Reqs : Op[t] \in {"accept", "cancel"} /\ pc[t] # "idle"}

CreateStart(s) ==
  /\ pc[s] = "idle" /\ Op[s] = "create"
  /\ match = "OPEN" /\ view.status = "NONE" /\ locked[Creator] = 0
  /\ PostTo(s, Creator, "LOCK")
  /\ MoveTo(s, "locking")
  /\ UNCHANGED <<match, result, escrow, cached, money, expected, contested, crashes>>

AcceptStart(s) ==
  /\ pc[s] = "idle" /\ Op[s] = "accept"
  /\ view.status = "OPEN" /\ Who[s] # Creator /\ match = "OPEN"
  /\ PostTo(s, Who[s], "LOCK")
  /\ MoveTo(s, "locking")
  /\ contested' = (contested \/ Contenders # {})
  /\ UNCHANGED <<match, result, escrow, cached, money, expected, crashes>>

(* refunds first; the event comes after *)
CancelStart(s) ==
  /\ pc[s] = "idle" /\ Op[s] = "cancel"
  /\ view.status = "OPEN"
  /\ PostTo(s, Creator, "REFUND")
  /\ MoveTo(s, "cancelling")
  /\ contested' = (contested \/ Contenders # {})
  /\ UNCHANGED <<match, result, escrow, cached, money, expected, crashes>>

SettleDue_NoBackstop == match = "RESOLVED" /\ view.status = "MATCHED" /\ crashes = 0  \* faulty: tick does not re-drive
(* matchedFor, on a resolved match: from resolveMatch and from every later tick *)
SettleDue == match = "RESOLVED" /\ view.status = "MATCHED"

Winner(opponent) ==
  CASE result = "CREATOR" -> Creator [] result = "OPPONENT" -> opponent [] OTHER -> None

(* A decided challenge pays both players at once; a void one refunds first  *)
(* the creator, then whoever is the opponent by then (the view is live).    *)
SettleStart(s) ==
  /\ pc[s] = "idle" /\ Op[s] = "settle"
  /\ SettleDue
  /\ LET w == Winner(view.opponent) IN
     IF w = None
     THEN /\ PostTo(s, Creator, "REFUND")
          /\ MoveTo(s, "refunding")
     ELSE /\ Post(s, [p \in {Creator, view.opponent} |->
                        Command(s, "PAY", IF p = w THEN WinnerPayout ELSE 0)])
          /\ MoveTo(s, "paying")
  /\ UNCHANGED <<match, result, escrow, cached, money, expected, contested, crashes>>

RefundOpponent(s) ==
  /\ pc[s] = "refunding" /\ waiting[s] = 0
  /\ PostTo(s, view.opponent, "REFUND")
  /\ MoveTo(s, "voiding")
  /\ UNCHANGED <<match, result, escrow, cached, money, expected, contested, crashes>>

-----------------------------------------------------------------------------
(* Commands: PlayerActor, one at a time per player *)

AlreadyLocked_Never(p) == FALSE  \* faulty: a retry locks again
(* lockChallengeStake is idempotent per challenge *)
AlreadyLocked(p) == locked[p] > 0

StakeOpen_Always(p) == TRUE  \* faulty: credits without an open stake
(* settleChallengeStake and refundChallengeStake do nothing without an open stake *)
StakeOpen(p) == locked[p] > 0

Broke(p) == free[p] < Stake

Lock(p) ==
  IF Broke(p) \/ AlreadyLocked(p) THEN UNCHANGED money
  ELSE /\ free' = [free EXCEPT ![p] = @ - Stake]
       /\ locked' = [locked EXCEPT ![p] = @ + Stake]

(* closes the open stake of p and credits p *)
Close(p, credit) ==
  IF ~StakeOpen(p) THEN UNCHANGED money
  ELSE /\ free' = [free EXCEPT ![p] = @ + credit]
       /\ locked' = [locked EXCEPT ![p] = 0]

RunCommand(p) ==
  /\ mail[p] # <<>>
  /\ LET c == Head(mail[p]) IN
     /\ CASE c.kind = "LOCK"   -> Lock(p)
          [] c.kind = "REFUND" -> Close(p, locked[p])
          [] c.kind = "PAY"    -> Close(p, c.amount)
     /\ mail' = [mail EXCEPT ![p] = Tail(@)]
     /\ waiting' = [waiting EXCEPT ![c.slot] = @ - 1]
     /\ pc' = IF c.kind = "LOCK" /\ Broke(p) THEN [pc EXCEPT ![c.slot] = "idle"] ELSE pc
  /\ UNCHANGED <<match, result, escrow, cached, expected, contested, crashes>>

-----------------------------------------------------------------------------
(* The escrow's stream: challengeAppend *)

Appending_BeforePaid(s) == pc[s] \in {"locking", "cancelling", "paying", "voiding"}  \* faulty: does not await the players
Appending(s) == pc[s] \in {"locking", "cancelling", "paying", "voiding"} /\ waiting[s] = 0

(* readStream, when the version is not cached: another await before the append *)
ReadVersion(s) ==
  /\ Appending(s) /\ cached = None /\ expected[s] = None
  /\ expected' = [expected EXCEPT ![s] = stored]
  /\ UNCHANGED <<match, result, escrow, cached, money, mail, pc, waiting, contested, crashes>>

Version(s) == IF expected[s] # None THEN expected[s] ELSE cached

(* ChallengeProjection and ReadModel.apply on the event of slot s; no event *)
(* is refused in any status *)
Project(s) ==
  CASE pc[s] = "locking" /\ Op[s] = "create" ->
         view' = [status |-> "OPEN", opponent |-> None] /\ UNCHANGED managersPot
    [] pc[s] = "locking" /\ Op[s] = "accept" ->
         view' = [status |-> "MATCHED", opponent |-> Who[s]] /\ UNCHANGED managersPot
    [] pc[s] = "cancelling" ->
         view' = [view EXCEPT !.status = "CANCELLED"] /\ UNCHANGED managersPot
    [] pc[s] = "voiding" ->
         view' = [view EXCEPT !.status = "VOID"] /\ UNCHANGED managersPot
    [] pc[s] = "paying" ->
         view' = [view EXCEPT !.status = "SETTLED"] /\ managersPot' = managersPot + Rake

AppendEvent(s) ==
  /\ Appending(s) /\ Version(s) = stored
  /\ Project(s)
  /\ stored' = stored + 1
  /\ expected' = [expected EXCEPT ![s] = stored]
  /\ MoveTo(s, "publishing")
  /\ UNCHANGED <<match, result, cached, money, mail, waiting, contested, crashes>>

(* CONFLICT: a create or an accept hands its stake back, a cancel or a      *)
(* settle is abandoned as it stands                                         *)
Conflict(s) ==
  /\ Appending(s) /\ Version(s) # None /\ Version(s) # stored
  /\ expected' = [expected EXCEPT ![s] = None]
  /\ IF pc[s] = "locking"
     THEN PostTo(s, Who[s], "REFUND") /\ MoveTo(s, "undoing")
     ELSE MoveTo(s, "idle") /\ UNCHANGED <<mail, waiting>>
  /\ UNCHANGED <<match, result, escrow, cached, money, contested, crashes>>

Undone(s) ==
  /\ pc[s] = "undoing" /\ waiting[s] = 0
  /\ MoveTo(s, "idle")
  /\ UNCHANGED <<match, result, escrow, cached, money, mail, expected, waiting, contested, crashes>>

(* The cache is set once append has awaited its listeners, the same ones    *)
(* for every append: so in the order of the appends.                        *)
Publish(s) ==
  /\ pc[s] = "publishing"
  /\ \A t \in Reqs : pc[t] = "publishing" => expected[s] <= expected[t]
  /\ cached' = expected[s] + 1
  /\ expected' = [expected EXCEPT ![s] = None]
  /\ MoveTo(s, "idle")
  /\ UNCHANGED <<match, result, escrow, money, mail, waiting, contested, crashes>>

-----------------------------------------------------------------------------
(* The match, and the process *)

LockMatch ==
  /\ match = "OPEN" /\ match' = "LOCKED"
  /\ UNCHANGED <<result, escrow, cached, money, mail, request, contested, crashes>>

ResolveMatch ==
  /\ match = "LOCKED" /\ match' = "RESOLVED"
  /\ result' \in {"CREATOR", "OPPONENT", "NEITHER"}
  /\ UNCHANGED <<escrow, cached, money, mail, request, contested, crashes>>

(* a restart loses every request, mailbox and cached version, nothing stored *)
Crash ==
  /\ crashes < MaxCrashes /\ crashes' = crashes + 1
  /\ cached' = None
  /\ mail' = [p \in Player |-> <<>>]
  /\ pc' = [s \in Reqs |-> "idle"] /\ expected' = [s \in Reqs |-> None]
  /\ waiting' = [s \in Reqs |-> 0]
  /\ contested' = (contested \/ \E s \in Reqs : Op[s] = "cancel" /\ pc[s] # "idle")
  /\ UNCHANGED <<match, result, escrow, money>>

EngineStep(s) ==
  \/ SettleStart(s) \/ RefundOpponent(s)
  \/ ReadVersion(s) \/ AppendEvent(s) \/ Conflict(s) \/ Undone(s) \/ Publish(s)

ChallengeNext ==
  \/ \E s \in Reqs : CreateStart(s) \/ AcceptStart(s) \/ CancelStart(s) \/ EngineStep(s)
  \/ \E p \in Player : RunCommand(p)
  \/ LockMatch \/ ResolveMatch \/ Crash

ChallengeSpec == ChallengeInit /\ [][ChallengeNext]_challengeVars

(* The process runs what is due: the timer fires, promises and mailboxes    *)
(* advance, matches end.  Nobody has to create, accept or cancel.           *)
Fairness ==
  /\ \A s \in Reqs : WF_challengeVars(EngineStep(s))
  /\ \A p \in Player : WF_challengeVars(RunCommand(p))
  /\ WF_challengeVars(LockMatch) /\ WF_challengeVars(ResolveMatch)

ChallengeFairSpec == ChallengeSpec /\ Fairness

-----------------------------------------------------------------------------
(* Properties *)

\* Every field stays in its range.
ChallengeTypeOK ==
  /\ match \in {"OPEN", "LOCKED", "RESOLVED"}
  /\ result \in {"NONE", "CREATOR", "OPPONENT", "NEITHER"}
  /\ view \in [status : {"NONE", "OPEN", "MATCHED", "SETTLED", "VOID", "CANCELLED"},
               opponent : (Player \ {Creator}) \cup {None}]
  /\ stored \in Nat /\ cached \in Nat \cup {None}
  /\ free \in [Player -> Nat] /\ locked \in [Player -> {0, Stake}]
  /\ managersPot \in Nat
  /\ pc \in [Reqs -> {"idle", "locking", "undoing", "cancelling", "refunding", "voiding",
                       "paying", "publishing"}]
  /\ expected \in [Reqs -> Nat \cup {None}]
  /\ waiting \in [Reqs -> 0..2]
  /\ contested \in BOOLEAN /\ crashes \in 0..MaxCrashes

\* However requests race and restarts re-drive them, a challenge costs a player
\* at most one stake and wins at most one pot (lockChallengeStake,
\* settleChallengeStake: a retry never double-locks, never double-credits).
OneStakeAtRisk ==
  \A p \in Player :
    /\ free[p] + locked[p] >= Initial - Stake
    /\ free[p] + locked[p] <= Initial + Stake - Rake

\* An uncontested challenge reads SETTLED or VOID only once the stakes of its
\* two players are closed (settleChallengesForMatch pays before it appends).
SettledIsPaid ==
  view.status \in {"SETTLED", "VOID"} /\ ~contested =>
    locked[Creator] = 0 /\ locked[view.opponent] = 0

Total == SumTo([p \in Player |-> free[p] + locked[p]], N)

\* Outside of a settlement an uncontested challenge makes and loses no money: the
\* players hold what they brought, less one rake once it is settled, however
\* often ticks and restarts re-drive the settlement.
Conserved ==
  view.status # "MATCHED" /\ ~contested =>
    Total = N * Initial - (IF view.status = "SETTLED" THEN Rake ELSE 0)

\* An uncontested challenge matched on a resolved match is settled or voided in the end,
\* whatever step a restart interrupts (tick's backstop).
MatchedSettles ==
  match = "RESOLVED" /\ view.status = "MATCHED" ~> view.status \in {"SETTLED", "VOID"} \/ contested

-----------------------------------------------------------------------------
(* What comments of the engine say and the engine does not ensure *)

\* acceptChallenge: accept is single-winner, so the opponent never changes.
AcceptSingleWinner == [][view.opponent # None => view'.opponent = view.opponent]_challengeVars

=============================================================================
