----------------------------- MODULE PlayerLedger -----------------------------
(***************************************************************************)
(* Where a player's balance meets real USDC.  Money that reached a player's *)
(* wallet is swept into the Sessions wallet (the float) and credited to the *)
(* ledger against the signature of the sweep; a withdrawal debits the       *)
(* ledger, then pays from the float.  Players may also pay the Sessions     *)
(* wallet themselves, in this token or another, several in one transaction, *)
(* and present its signature.  Commands on one player's ledger run one at a *)
(* time; syncs, the chain and other players do not wait for them.           *)
(*                                                                          *)
(* The chain is a list of transactions and the order they landed in; reads  *)
(* of the code see its finalised part, a send is confirmed earlier.  Bets   *)
(* move money between ledgers only, and are left out.                       *)
(***************************************************************************)
EXTENDS Sums, Sequences, FiniteSets

CONSTANTS
  Players,
  Custodial,        \* those whose wallet the service sweeps
  Syncs, Requests,  \* syncs and direct requests under way at once
  Amounts,          \* what arrives, and what is asked to be deposited or paid out
  Transfers,        \* what may be sent to the Sessions wallet past the sweeps
  Outside,          \* not a swept wallet
  Fee,              \* withdrawFeeMin
  Limit,            \* transactions of a wallet that a sync looks back on
  MaxTxs, MaxTransfers, MaxWithdrawals, MaxRestarts  \* bounds

ASSUME LedgerAssumption ==
  /\ Custodial \subseteq Players /\ Syncs \intersect Requests = {}
  /\ Amounts \subseteq Nat \ {0} /\ Fee \in Nat /\ Outside \notin Players
  /\ Transfers \subseteq [kind : {"direct", "foreign"}, payers : SUBSET Players, amount : Nat]
  /\ {Limit, MaxTxs, MaxTransfers, MaxWithdrawals, MaxRestarts} \subseteq Nat

VARIABLES
  txs,       \* transactions sent: [kind, who, payers, amount, state], where payers
             \* are those whose first listed token balance it lowers
  landed,    \* those that landed, in order
  final,     \* how many of these are finalised
  credits,   \* Deposited events: [who, proof, amount]
  wds,       \* withdrawals: [who, amount, status, tx]
  job,       \* where each request is
  troubled,  \* an await may fail although nothing is wrong with what it asks
  restarts

Slots == Syncs \union Requests
chain == <<txs, landed, final>>
streams == <<credits, wds>>
vars == <<chain, streams, job, troubled, restarts>>

Idle == [at |-> "idle"]
Init ==
  /\ txs = <<>> /\ landed = <<>> /\ final = 0
  /\ credits = <<>> /\ wds = <<>>
  /\ job = [s \in Slots |-> Idle]
  /\ troubled = TRUE /\ restarts = 0

-----------------------------------------------------------------------------
(* What the chain holds after its first n landings *)

WalletAt(p, n) ==
  SumTo([k \in 1..n |-> LET t == txs[landed[k]] IN
          IF t.who # p THEN 0 ELSE IF t.kind = "sweep" THEN -t.amount ELSE t.amount], n)
FloatAt(n) ==
  SumTo([k \in 1..n |-> LET t == txs[landed[k]] IN
          CASE t.kind \in {"sweep", "direct"} -> t.amount [] t.kind = "payout" -> -t.amount [] OTHER -> 0], n)

Landed(i) == i \in DOMAIN txs /\ txs[i].state = "landed"
Final(i) == \E k \in 1..final : landed[k] = i

(* the latest finalised transactions of a player's wallet *)
Recent(p) ==
  {landed[k] : k \in {k \in 1..final :
     /\ txs[landed[k]].who = p
     /\ Cardinality({j \in k..final : txs[landed[j]].who = p}) <= Limit}}

(* the dossier's balance, folded from the events *)
Debited(p, statuses) ==
  SumTo([w \in DOMAIN wds |->
           IF wds[w].who = p /\ wds[w].status \in statuses THEN wds[w].amount ELSE 0], Len(wds))
Deposited(p) ==
  SumTo([k \in DOMAIN credits |-> IF credits[k].who = p THEN credits[k].amount ELSE 0], Len(credits))
Balance_Late(p) == Deposited(p) - Debited(p, {"settled"})  \* faulty: debited by the outcome
Balance(p) == Deposited(p) - Debited(p, {"initiated", "settled"})
Net(w) == wds[w].amount - Fee

-----------------------------------------------------------------------------
(* The chain *)

Sent(kind, p, a) ==
  Append(txs, [kind |-> kind, who |-> p, payers |-> IF kind = "sweep" THEN {p} ELSE {},
               amount |-> a, state |-> "flying"])

Arrive(p, a) ==
  /\ Len(txs) < MaxTxs
  /\ txs' = Append(txs, [kind |-> "arrival", who |-> p, payers |-> {}, amount |-> a,
                         state |-> "landed"])
  /\ landed' = Append(landed, Len(txs) + 1)
  /\ UNCHANGED <<final, streams, job, troubled, restarts>>

(* USDC, or another token, sent to the Sessions wallet from wallets nobody sweeps *)
Pay(t) ==
  /\ Len(txs) < MaxTxs
  /\ Cardinality({i \in DOMAIN txs : txs[i].who = Outside}) < MaxTransfers
  /\ txs' = Append(txs, [kind |-> t.kind, who |-> Outside, payers |-> t.payers,
                         amount |-> t.amount, state |-> "landed"])
  /\ landed' = Append(landed, Len(txs) + 1)
  /\ UNCHANGED <<final, streams, job, troubled, restarts>>

Land(i) ==
  LET n == Len(landed) IN
  /\ txs[i].state = "flying"
  /\ txs[i].amount <= IF txs[i].kind = "sweep" THEN WalletAt(txs[i].who, n) ELSE FloatAt(n)
  /\ txs' = [txs EXCEPT ![i].state = "landed"]
  /\ landed' = Append(landed, i)
  /\ UNCHANGED <<final, streams, job, troubled, restarts>>

(* refused, or its blockhash expired *)
Die(i) ==
  /\ txs[i].state = "flying"
  /\ txs' = [txs EXCEPT ![i].state = "dead"]
  /\ UNCHANGED <<landed, final, streams, job, troubled, restarts>>

Finalise ==
  /\ final < Len(landed) /\ final' = final + 1
  /\ UNCHANGED <<txs, landed, streams, job, troubled, restarts>>

-----------------------------------------------------------------------------
(* Requests *)

At(s, place) == job[s].at = place
Goto(s, j) == job' = [job EXCEPT ![s] = j]
(* one command at a time per player *)
Busy(p) == \E s \in Slots : job[s].at \in {"confirm", "float", "send", "await"} /\ job[s].who = p

Crediting(p, todo) == IF todo = {} THEN Idle ELSE [at |-> "credit", who |-> p, todo |-> todo]

(* syncDeposits: collect the recent sweeps and a fresh one, then credit them *)
Sync(s, p) ==
  /\ At(s, "idle") /\ Goto(s, [at |-> "list", who |-> p])
  /\ UNCHANGED <<chain, streams, troubled, restarts>>

Collected_None(p) == {}  \* faulty: only the fresh sweep is credited
Collected(p) == {[proof |-> i, amount |-> txs[i].amount] :
                   i \in {i \in Recent(p) : txs[i].kind = "sweep"}}

List(s) ==
  /\ At(s, "list")
  /\ Goto(s, [at |-> "balance", who |-> job[s].who, todo |-> Collected(job[s].who)])
  /\ UNCHANGED <<chain, streams, troubled, restarts>>
(* some of the transactions could not be fetched, or none *)
ListFails(s) ==
  /\ troubled /\ At(s, "list")
  /\ \E part \in SUBSET Collected(job[s].who) :
       Goto(s, [at |-> "balance", who |-> job[s].who, todo |-> part])
  /\ UNCHANGED <<chain, streams, troubled, restarts>>

Sweep(s) ==
  LET p == job[s].who
      a == WalletAt(p, final) IN
  /\ At(s, "balance") /\ a > 0 /\ Len(txs) < MaxTxs
  /\ txs' = Sent("sweep", p, a)
  /\ Goto(s, [at |-> "sweep", who |-> p, todo |-> job[s].todo, tx |-> Len(txs) + 1])
  /\ UNCHANGED <<landed, final, streams, troubled, restarts>>
(* nothing there, or the read or the top-up for gas failed *)
NoSweep(s) ==
  /\ At(s, "balance") /\ (troubled \/ WalletAt(job[s].who, final) = 0 \/ Len(txs) = MaxTxs)
  /\ Goto(s, Crediting(job[s].who, job[s].todo))
  /\ UNCHANGED <<chain, streams, troubled, restarts>>

Swept(s) ==
  /\ At(s, "sweep") /\ Landed(job[s].tx)
  /\ Goto(s, Crediting(job[s].who,
               job[s].todo \union {[proof |-> job[s].tx, amount |-> txs[job[s].tx].amount]}))
  /\ UNCHANGED <<chain, streams, troubled, restarts>>
(* the send or its confirmation failed, landed or not *)
SweepThrows(s) ==
  /\ At(s, "sweep") /\ (troubled \/ txs[job[s].tx].state = "dead")
  /\ Goto(s, Crediting(job[s].who, job[s].todo))
  /\ UNCHANGED <<chain, streams, troubled, restarts>>

(* deposit, asked for directly: any signature, any amount *)
Deposit(s, p, i, a) ==
  /\ At(s, "idle") /\ i \in DOMAIN txs
  /\ Goto(s, Crediting(p, {[proof |-> i, amount |-> a]}))
  /\ UNCHANGED <<chain, streams, troubled, restarts>>

(* PlayerActor.deposit, in the player's mailbox *)
DepositRefSeen_Never(p, i) == FALSE  \* faulty: no replay guard
DepositRefSeen(p, i) == \E k \in DOMAIN credits : credits[k].who = p /\ credits[k].proof = i

TakeCredit(s) ==
  LET p == job[s].who IN
  /\ At(s, "credit") /\ ~Busy(p)
  /\ \E c \in job[s].todo :
       Goto(s, IF DepositRefSeen(p, c.proof) THEN Crediting(p, job[s].todo \ {c})
               ELSE [at |-> "confirm", who |-> p, todo |-> job[s].todo \ {c}, item |-> c])
  /\ UNCHANGED <<chain, streams, troubled, restarts>>

(* confirmDeposit: the first balance listed for Sessions rose by that much, the *)
(* first one listed for this player fell.  Neither its token nor its account is *)
(* compared, and who else paid is not asked.                                    *)
MovedToSessions(p, c) ==
  /\ Final(c.proof)
  /\ p \in txs[c.proof].payers
  /\ c.amount <= txs[c.proof].amount
Confirm(s) ==
  LET p == job[s].who
      c == job[s].item IN
  /\ At(s, "confirm") /\ MovedToSessions(p, c)
  /\ credits' = Append(credits, [who |-> p, proof |-> c.proof, amount |-> c.amount])
  /\ Goto(s, Crediting(p, job[s].todo))
  /\ UNCHANGED <<chain, wds, troubled, restarts>>
ConfirmFails(s) ==
  /\ At(s, "confirm") /\ (troubled \/ ~MovedToSessions(job[s].who, job[s].item))
  /\ Goto(s, Crediting(job[s].who, job[s].todo))
  /\ UNCHANGED <<chain, streams, troubled, restarts>>

-----------------------------------------------------------------------------
(* PlayerActor.withdraw, in the player's mailbox *)

Withdraw(s, p, a) ==
  /\ At(s, "idle") /\ Len(wds) < MaxWithdrawals
  /\ Goto(s, [at |-> "debit", who |-> p, amount |-> a])
  /\ UNCHANGED <<chain, streams, troubled, restarts>>

Refused_Small(p, a) == a <= Fee  \* faulty: the balance is not looked at
Refused(p, a) == Balance(p) < a \/ a <= Fee

Debit(s) ==
  LET p == job[s].who
      a == job[s].amount IN
  /\ At(s, "debit") /\ ~Busy(p)
  /\ IF Refused(p, a)
     THEN Goto(s, Idle) /\ UNCHANGED wds
     ELSE /\ wds' = Append(wds, [who |-> p, amount |-> a, status |-> "initiated", tx |-> 0])
          /\ Goto(s, [at |-> "float", who |-> p, wd |-> Len(wds) + 1])
  /\ UNCHANGED <<chain, credits, troubled, restarts>>

ReadFloat(s) ==
  /\ At(s, "float") /\ FloatAt(final) >= Net(job[s].wd)
  /\ Goto(s, [job[s] EXCEPT !.at = "send"])
  /\ UNCHANGED <<chain, streams, troubled, restarts>>

Send(s) ==
  /\ At(s, "send") /\ Len(txs) < MaxTxs
  /\ txs' = Sent("payout", job[s].who, Net(job[s].wd))
  /\ wds' = [wds EXCEPT ![job[s].wd].tx = Len(txs) + 1]
  /\ Goto(s, [job[s] EXCEPT !.at = "await"])
  /\ UNCHANGED <<landed, final, credits, troubled, restarts>>

Settle(s) ==
  /\ At(s, "await") /\ Landed(wds[job[s].wd].tx)
  /\ wds' = [wds EXCEPT ![job[s].wd].status = "settled"]
  /\ Goto(s, Idle)
  /\ UNCHANGED <<chain, credits, troubled, restarts>>

Reversed_Sent(w) ==  \* faulty: what fails before the send is not given back
  IF wds[w].tx = 0 THEN wds ELSE [wds EXCEPT ![w].status = "reversed"]
Reversed(w) == [wds EXCEPT ![w].status = "reversed"]
(* custody.withdraw throws: the float is short, a call failed, or the send did *)
Reverse(s) ==
  /\ job[s].at \in {"float", "send", "await"}
  /\ wds' = Reversed(job[s].wd)
  /\ Goto(s, Idle)
  /\ UNCHANGED <<chain, credits, troubled, restarts>>

Restart ==
  /\ restarts < MaxRestarts /\ restarts' = restarts + 1
  /\ job' = [s \in Slots |-> Idle]
  /\ UNCHANGED <<chain, streams, troubled>>

(* the RPC and the signer are back for good *)
Recover ==
  /\ troubled /\ troubled' = FALSE
  /\ UNCHANGED <<chain, streams, job, restarts>>

Step(s) ==
  \/ List(s) \/ ListFails(s) \/ Sweep(s) \/ NoSweep(s) \/ Swept(s) \/ SweepThrows(s)
  \/ TakeCredit(s) \/ Confirm(s) \/ ConfirmFails(s)
  \/ Debit(s) \/ ReadFloat(s) \/ Send(s) \/ Settle(s) \/ Reverse(s)

Next ==
  \/ \E p \in Custodial, a \in Amounts : Arrive(p, a)
  \/ \E t \in Transfers : Pay(t)
  \/ \E i \in DOMAIN txs : Land(i) \/ Die(i)
  \/ Finalise
  \/ \E s \in Syncs, p \in Custodial : Sync(s, p)
  \/ \E s \in Requests, p \in Players, a \in Amounts :
       Withdraw(s, p, a) \/ \E i \in DOMAIN txs : Deposit(s, p, i, a)
  \/ \E s \in Slots : Step(s)
  \/ Restart \/ Recover

Spec == Init /\ [][Next]_vars

(* Awaits end, a mailbox is first in, first out, the chain moves on, outages *)
(* end, and who has a wallet with the service checks for a deposit again.      *)
FairSpec ==
  /\ Spec /\ WF_vars(Finalise) /\ WF_vars(Recover)
  /\ \A s \in Slots : WF_vars(Step(s)) /\ SF_vars(TakeCredit(s) \/ Debit(s))
  /\ WF_vars(\E i \in DOMAIN txs : Land(i) \/ Die(i))
  /\ \A p \in Custodial : SF_vars(\E s \in Syncs : Sync(s, p))

-----------------------------------------------------------------------------
(* Every field keeps its range; no wallet and no balance is ever overdrawn.     *)
TypeOK ==
  /\ \A i \in DOMAIN txs : txs[i] \in
       [kind : {"arrival", "sweep", "payout", "direct", "foreign"}, who : Players \union {Outside},
        payers : SUBSET Players, amount : Nat, state : {"flying", "landed", "dead"}]
  /\ \A k \in DOMAIN landed : landed[k] \in DOMAIN txs
  /\ final \in 0..Len(landed)
  /\ \A k \in DOMAIN credits : credits[k] \in [who : Players, proof : DOMAIN txs, amount : Nat]
  /\ \A w \in DOMAIN wds : wds[w] \in
       [who : Players, amount : Nat, status : {"initiated", "settled", "reversed"}, tx : 0..Len(txs)]
  /\ \A s \in Slots : At(s, "idle") \/ job[s].who \in Players
  /\ \A p \in Players : Balance(p) >= 0 /\ WalletAt(p, Len(landed)) >= 0
  /\ FloatAt(Len(landed)) >= 0

(* However often, by whomever and across whatever restarts a transaction is      *)
(* presented, each player is credited for it at most once, only if it paid, and  *)
(* for no more than the Sessions wallet received of some token; a sweep is        *)
(* credited at most once in all, to the player it came from.                     *)
CreditedOnce ==
  \A k \in DOMAIN credits :
    LET c == credits[k]
        t == txs[c.proof] IN
    /\ Landed(c.proof) /\ c.who \in t.payers /\ c.amount <= t.amount
    /\ \A j \in DOMAIN credits :
         credits[j].proof = c.proof /\ (t.kind = "sweep" \/ credits[j].who = c.who) => j = k

(* What the events make the service owe a player. *)
Owed(p) == Deposited(p) - Debited(p, {"initiated", "settled"})
(* A payout under way, or one that landed although its debit was given back. *)
Leaving(w) ==
  IF wds[w].status = "initiated" /\ ~Landed(wds[w].tx) THEN Net(w)
  ELSE IF wds[w].status = "reversed" /\ Landed(wds[w].tx) THEN -Net(w) ELSE 0
(* USDC of one player: what confirmDeposit takes every transfer for *)
Ordinary(t) == t.kind \in {"sweep", "direct"} /\ \A p, q \in t.payers : p = q
(* a credit, if what it rests on was such a transfer *)
Backed(k) == IF Ordinary(txs[credits[k].proof]) THEN credits[k].amount ELSE 0
(* Nobody is paid beyond its deposits, by two withdrawals around a restart for *)
(* example, and the float covers every balance and every payout under way, but *)
(* for the payouts that landed after custody had thrown and for the credits on *)
(* a transfer of another token or of several players.                          *)
Solvent ==
  /\ \A p \in Players : Owed(p) >= 0
  /\ FloatAt(Len(landed)) >=
       SumTo([k \in DOMAIN credits |-> Backed(k)], Len(credits))
       - SumTo([w \in DOMAIN wds |-> IF wds[w].status = "reversed" THEN 0 ELSE wds[w].amount], Len(wds))
       + SumTo([w \in DOMAIN wds |-> Leaving(w)], Len(wds))

Credited(i) == \E k \in DOMAIN credits : credits[k].proof = i
(* out of what a sync looks back on *)
Buried(i) == Final(i) /\ i \notin Recent(txs[i].who)
(* A sweep that landed is credited in the end, whatever failed or restarted *)
(* after it, unless newer transactions push it out of the listing first.    *)
SweptIsCredited ==
  []<>(\A i \in DOMAIN txs :
         Landed(i) /\ txs[i].kind = "sweep" => Credited(i) \/ Buried(i))

(* Without a restart every withdrawal is settled or its debit given back. *)
WithdrawalEnds ==
  []<>(restarts > 0 \/ \A w \in DOMAIN wds : wds[w].status # "initiated")

===============================================================================
