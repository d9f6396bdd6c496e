------------------------------- MODULE SignedRows -------------------------------
(***************************************************************************)
(* The three ledgers of transactions a person's own wallet signs: transfers *)
(* (wallet_transfers), Panta buys (panta_trade_sessions) and Panta win      *)
(* claims (panta_claim_sessions).  A row is prepared, signed once, sent and *)
(* then settled from what the chain answers.  The rows of the model share   *)
(* one slot: one source wallet, one call and wallet, or one position.       *)
(*                                                                          *)
(* A handler is a sequence of awaits; between two of them other handlers    *)
(* run, and it may stop there for good (its process restarted, the call it  *)
(* awaits failed).  A row update names the state it expects.                *)
(***************************************************************************)
EXTENDS Naturals, Sequences, FiniteSets

CONSTANTS
  Rows,       \* idempotency keys: the rows of one slot
  Approvals,  \* the signed transactions wallets may return
  Review,     \* the row whose review each of them signs
  Handlers    \* requests in flight at once, the reconciler's pass among them

ASSUME ApprovalAssumption == "none" \notin Approvals /\ Review \in [Approvals -> Rows]

VARIABLES
  ledger,   \* which of the three ledgers this is
  row,      \* the state of each row; QUOTED is BUILT, FILLED is CONFIRMED
  sig,      \* the approval stored with it
  expired,  \* its review is past expiresAt (kept while it is BUILT)
  dead,     \* the chain has passed the height its transaction can land at
  tx,       \* each approval on its way to the chain
  proc      \* where each handler is

vars == <<ledger, row, sig, expired, dead, tx, proc>>

Ledgers == {"transfer", "trade", "claim"}
States == {"NONE", "PREPARING", "BUILT", "SUBMITTED", "CONFIRMED", "FAILED"}
Idle == [at |-> "idle"]

Init ==
  /\ ledger \in Ledgers
  /\ row = [r \in Rows |-> "NONE"]
  /\ sig = [r \in Rows |-> "none"]
  /\ expired = [r \in Rows |-> FALSE]
  /\ dead = [r \in Rows |-> FALSE]
  /\ tx = [s \in Approvals |-> "unsent"]
  /\ proc = [p \in Handlers |-> Idle]

-----------------------------------------------------------------------------
(* The states that hold the slot: the unique index of each table.            *)
Holding_Pending ==  \* faulty: a filled buy or a paid claim lets go of it
  IF ledger = "transfer" THEN {"BUILT", "SUBMITTED"} ELSE {"SUBMITTED"}
Holding == IF ledger = "transfer" THEN {"BUILT", "SUBMITTED"} ELSE {"SUBMITTED", "CONFIRMED"}
Holders == {r \in Rows : row[r] \in Holding}
Free(r) == Holders \subseteq {r}

At(p, place) == proc[p].at = place
Mine(p) == proc[p].row
Done(p) == proc' = [proc EXCEPT ![p] = Idle]
Goto(p, place) == proc' = [proc EXCEPT ![p] = place]
SetRow(r, state) == row' = [row EXCEPT ![r] = state]

-----------------------------------------------------------------------------
(* assertNothingInFlight: an expired review is retired, anything else waits *)
Retire(rs) ==
  /\ row' = [r \in Rows |-> IF r \in rs THEN "FAILED" ELSE row[r]]
  /\ expired' = [r \in Rows |-> expired[r] /\ r \notin rs]
Retirable(r) == ledger = "transfer" /\ row[r] = "BUILT" /\ expired[r]

Prepare(q, r) ==
  /\ At(q, "idle") /\ row[r] = "NONE"
  /\ \A h \in Holders : Retirable(h)
  /\ Retire(Holders)
  /\ Goto(q, [at |-> "reserve", row |-> r])
  /\ UNCHANGED <<ledger, sig, dead, tx>>

(* the same tap again, after its review expired *)
Replay(r) ==
  /\ Retirable(r)
  /\ Retire({r})
  /\ UNCHANGED <<ledger, sig, dead, tx, proc>>

(* insert: the key and, for transfers, the slot must still be free *)
Reserve(q) ==
  LET r == Mine(q) IN
  /\ At(q, "reserve")
  /\ \/ /\ row[r] # "NONE"
        /\ UNCHANGED <<row, expired>> /\ Done(q)
     \/ /\ row[r] = "NONE" /\ ledger # "transfer"
        /\ SetRow(r, "PREPARING") /\ UNCHANGED expired
        /\ Goto(q, [at |-> "build", row |-> r])
     \/ /\ row[r] = "NONE" /\ ledger = "transfer"
        /\ IF Holders = {} THEN SetRow(r, "BUILT") /\ UNCHANGED expired
                           ELSE Retire({h \in Holders : Retirable(h)})
        /\ Done(q)
  /\ UNCHANGED <<ledger, sig, dead, tx>>

Build(q) ==
  /\ At(q, "build") /\ row[Mine(q)] = "PREPARING"
  /\ \E state \in {"BUILT", "FAILED"} : SetRow(Mine(q), state)
  /\ Done(q)
  /\ UNCHANGED <<ledger, sig, expired, dead, tx>>

-----------------------------------------------------------------------------
Approved(r, s) == sig[r] = s

(* submit: the checks, then the approval is stored before it is broadcast *)
Submit(q, s) ==
  LET r == Review[s] IN
  /\ At(q, "idle")
  /\ row[r] \in {"BUILT", "SUBMITTED"} /\ (sig[r] = "none" \/ Approved(r, s))
  /\ row[r] = "BUILT" => ~expired[r]
  /\ Goto(q, [at |-> IF row[r] = "BUILT" THEN "save" ELSE "send", sig |-> s])
  /\ UNCHANGED <<ledger, row, sig, expired, dead, tx>>

Save(q) ==
  LET s == proc[q].sig r == Review[s] IN
  /\ At(q, "save")
  /\ IF row[r] = "BUILT" /\ Free(r)
     THEN /\ SetRow(r, "SUBMITTED")
          /\ sig' = [sig EXCEPT ![r] = s]
          /\ expired' = [expired EXCEPT ![r] = FALSE]
     ELSE UNCHANGED <<row, sig, expired>>
  /\ IF IF row[r] = "BUILT" THEN ~Free(r) ELSE ~Approved(r, s)
     THEN Done(q)
     ELSE Goto(q, [at |-> "send", sig |-> s])
  /\ UNCHANGED <<ledger, dead, tx>>

(* broadcast: it reached the network, whatever was answered *)
Send(q) ==
  /\ At(q, "send")
  /\ tx' = [tx EXCEPT ![proc[q].sig] = IF @ = "unsent" THEN "sent" ELSE @]
  /\ Done(q)
  /\ UNCHANGED <<ledger, row, sig, expired, dead>>

-----------------------------------------------------------------------------
(* reconcile: the questions, in their order, until one settles the row *)
Questions_SeenFirst ==  \* faulty: the signature is looked up before the height
  <<"proof", "failed", "seen", "height">>
Questions ==
  IF ledger = "transfer"
  THEN <<"proof", "failed", "height", "seen">>
  ELSE <<"proof", "failed", "seen", "height", "seen">>

Reconcile(p, r) ==
  /\ At(p, "idle") /\ row[r] = "SUBMITTED"
  /\ Goto(p, [at |-> "ask", row |-> r, question |-> 1, clear |-> FALSE])
  /\ UNCHANGED <<ledger, row, sig, expired, dead, tx>>

Landed_Sent(r) == tx[sig[r]] # "unsent"  \* faulty: what was broadcast counts as seen
Landed(r) == tx[sig[r]] \in {"paid", "erred"}

(* May the row still fail without an error on chain?  A transfer must be      *)
(* missing, and Panta must have answered that a buy is not confirmed.         *)
Clear(r) == IF ledger = "claim" THEN {TRUE} ELSE BOOLEAN

Ask(p) ==
  LET r == Mine(p)
      question == Questions[proc[p].question]
      Conclude(state) == Goto(p, [at |-> "write", row |-> r, state |-> state])
      NextQuestion(clear) ==
        IF proc[p].question = Len(Questions)
        THEN Conclude("FAILED")
        ELSE Goto(p, [at |-> "ask", row |-> r, question |-> proc[p].question + 1, clear |-> clear])
  IN
  /\ At(p, "ask")
  /\ \/ question = "proof" /\ tx[sig[r]] = "paid" /\ Conclude("CONFIRMED")
     \/ question = "proof" /\ \E clear \in Clear(r) : NextQuestion(clear)
     \/ question = "failed" /\ tx[sig[r]] = "erred" /\ Conclude("FAILED")
     \/ question = "failed" /\ proc[p].clear /\ NextQuestion(TRUE)
     \/ question = "height" /\ dead[r] /\ NextQuestion(TRUE)
     \/ question = "seen" /\ ~Landed(r) /\ NextQuestion(TRUE)
  /\ UNCHANGED <<ledger, row, sig, expired, dead, tx>>

Write(p) ==
  /\ At(p, "write")
  /\ IF row[Mine(p)] = "SUBMITTED" THEN SetRow(Mine(p), proc[p].state) ELSE UNCHANGED row
  /\ Done(p)
  /\ UNCHANGED <<ledger, sig, expired, dead, tx>>

(* the call it awaits failed, its process restarted, or the answer settles nothing *)
Stop(p) ==
  /\ ~At(p, "idle")
  /\ Done(p)
  /\ UNCHANGED <<ledger, row, sig, expired, dead, tx>>

-----------------------------------------------------------------------------
(* time, and the chain *)
Expire(r) ==
  /\ row[r] = "BUILT" /\ ~expired[r]
  /\ expired' = [expired EXCEPT ![r] = TRUE]
  /\ UNCHANGED <<ledger, row, sig, dead, tx, proc>>

Pass(r) ==
  /\ row[r] \in {"BUILT", "SUBMITTED"} /\ ~dead[r]
  /\ dead' = [dead EXCEPT ![r] = TRUE]
  /\ UNCHANGED <<ledger, row, sig, expired, tx, proc>>

Land(s) ==
  /\ tx[s] = "sent" /\ ~dead[Review[s]]
  /\ \E outcome \in {"paid", "erred"} : tx' = [tx EXCEPT ![s] = outcome]
  /\ UNCHANGED <<ledger, row, sig, expired, dead, proc>>

Next ==
  \/ \E q \in Handlers :
       \/ \E r \in Rows : Prepare(q, r)
       \/ \E s \in Approvals : Submit(q, s)
       \/ Reserve(q) \/ Build(q) \/ Save(q) \/ Send(q)
  \/ \E p \in Handlers : Ask(p) \/ Write(p) \/ Stop(p) \/ \E r \in Rows : Reconcile(p, r)
  \/ \E r \in Rows : Replay(r) \/ Expire(r) \/ Pass(r)
  \/ \E s \in Approvals : Land(s)

Spec == Init /\ [][Next]_vars

(* Blocks are produced, the reconciler comes back to every SUBMITTED row, no  *)
(* await lasts for ever (fetch is given 10 s), and the time comes when the    *)
(* RPC, Panta and the store answer whatever reconcile asks them.              *)
Mute(p) ==  \* the true answer leaves the row as it is
  LET question == Questions[proc[p].question]
      t == tx[sig[Mine(p)]] IN
  \/ question = "failed" /\ t # "erred" /\ ~proc[p].clear
  \/ question = "height" /\ ~dead[Mine(p)]
  \/ question = "seen" /\ Landed(Mine(p))
Lost(p) ==  \* a step of p that made less of an answer than it could
  LET question == Questions[proc[p].question]
      t == tx[sig[Mine(p)]] IN
  \/ At(p, "write") /\ Stop(p)
  \/ /\ At(p, "ask")
     /\ \/ proc'[p] = Idle /\ ~Mute(p)
        \/ <<question, t>> \in {<<"proof", "paid">>, <<"failed", "erred">>} /\ proc'[p].at = "ask"
        \/ question = "proof" /\ t \in {"unsent", "sent"} /\ proc'[p].at = "ask" /\ ~proc'[p].clear
Step(p) == Reserve(p) \/ Build(p) \/ Save(p) \/ Send(p) \/ Ask(p) \/ Write(p) \/ Stop(p)
FairSpec ==
  /\ Spec
  /\ \A r \in Rows : SF_vars(\E p \in Handlers : Reconcile(p, r))
  /\ WF_vars(\E r \in Rows : Pass(r))
  /\ \A p \in Handlers : WF_vars(Step(p))
  /\ <>[][\A p \in Handlers : proc'[p] # proc[p] => ~Lost(p)]_vars

-----------------------------------------------------------------------------
Places ==
  {Idle}
  \union [at : {"reserve", "build"}, row : Rows]
  \union [at : {"save", "send"}, sig : Approvals]
  \union [at : {"ask"}, row : Rows, question : 1..5, clear : BOOLEAN]
  \union [at : {"write"}, row : Rows, state : {"CONFIRMED", "FAILED"}]
(* Every field keeps its range; the rows only ever hold the ledger's states.  *)
TypeOK ==
  /\ ledger \in Ledgers
  /\ row \in [Rows -> States]
  /\ sig \in [Rows -> Approvals \union {"none"}]
  /\ expired \in [Rows -> BOOLEAN] /\ dead \in [Rows -> BOOLEAN]
  /\ tx \in [Approvals -> {"unsent", "sent", "paid", "erred"}]
  /\ proc \in [Handlers -> Places]

(* A row is called FAILED, which frees its slot and invites the person to pay *)
(* again, only if no approval of it ever moves money: not one that was lost,   *)
(* not one that lands between two of the questions reconcile asks.             *)
FailedNeverMoves == \A s \in Approvals : row[Review[s]] = "FAILED" => tx[s] # "paid"

InDoubt == {s \in Approvals : tx[s] = "sent" /\ ~dead[Review[s]]}
Paid == {s \in Approvals : tx[s] = "paid"}
(* One wallet, call or position never has two approvals that can both still   *)
(* move money, whatever was retried, replayed or signed twice at once.         *)
OneInDoubt == \A s, t \in InDoubt : s = t
(* A review is paid at most once, and of all buys of a call by a wallet, and   *)
(* all claims of a position, at most one: a fill keeps the slot for ever.      *)
PaidOnce ==
  \A s, t \in Paid : (Review[s] = Review[t] \/ ledger # "transfer") => s = t

(* What the rows tell and what the chain did, seen as SpendOnce.               *)
StatusOf(r) ==
  IF \E s \in Paid : Review[s] = r THEN "moved"
  ELSE IF row[r] = "FAILED" THEN "dead"
  ELSE IF row[r] \in {"SUBMITTED", "CONFIRMED"} THEN "live" ELSE "unsigned"
ToldOf(r) ==
  IF row[r] = "CONFIRMED" THEN "moved" ELSE IF row[r] = "FAILED" THEN "dead" ELSE "nothing"
Forever == ledger # "transfer"
Status == [r \in Rows |-> StatusOf(r)]
Told == [r \in Rows |-> ToldOf(r)]
Spends == INSTANCE SpendOnce WITH
  Intents <- Rows, forever <- Forever, status <- Status, told <- Told
(* The ledger implements SpendOnce: every step of every handler, of the chain *)
(* and of the clock is one of its steps or changes nothing it promises.        *)
SpendsOnce == Spends!Spec

(* A signed row is settled in the end: an approval nobody broadcast, one that  *)
(* was lost and one that landed unnoticed are all found out.                   *)
Settles == \A r \in Rows : row[r] = "SUBMITTED" ~> row[r] \in {"CONFIRMED", "FAILED"}
================================================================================
