----------------------------- MODULE PlayerProofs -----------------------------
(***************************************************************************)
(* Proofs about the two components in which commands on a player move      *)
(* money: PlayerLedger, for any number of players, syncs, requests,        *)
(* transactions, withdrawals and restarts, and any fee and listing; and    *)
(* ChallengeEscrow, for any number of players, requests and restarts, any  *)
(* stake and any rake.                                                     *)
(***************************************************************************)
EXTENDS PlayerLedger, ChallengeEscrow, SumLemmas

-----------------------------------------------------------------------------
(* PlayerLedger: the inductive invariant *)

Kinds == {"arrival", "sweep", "payout", "direct", "foreign"}
Tx == {t \in [kind : Kinds, who : Players \union {Outside}, payers : SUBSET Players,
               amount : Nat, state : {"flying", "landed", "dead"}] :
         t.kind = "sweep" => t.payers = {t.who}}
Credit == [who : Players, proof : Nat, amount : Nat]
Wd == [who : Players, amount : Nat, status : {"initiated", "settled", "reversed"}, tx : Nat]

TypeInv ==
  /\ txs \in Seq(Tx) /\ landed \in Seq(Nat) /\ credits \in Seq(Credit) /\ wds \in Seq(Wd)
  /\ final \in 0..Len(landed)
  /\ \A k \in 1..Len(landed) : landed[k] \in 1..Len(txs) /\ txs[landed[k]].state = "landed"

(* A withdrawal and its payout name each other. *)
PayoutInv ==
  /\ \A w \in 1..Len(wds) :
       /\ wds[w].amount > Fee
       /\ wds[w].tx # 0 =>
            /\ wds[w].tx \in 1..Len(txs)
            /\ txs[wds[w].tx].kind = "payout" /\ txs[wds[w].tx].amount = Net(w)
       /\ wds[w].status = "settled" => Landed(wds[w].tx)
  /\ \A v, w \in 1..Len(wds) : wds[v].tx = wds[w].tx /\ wds[v].tx # 0 => v = w
  /\ \A i \in 1..Len(txs) : txs[i].kind = "payout" => \E w \in 1..Len(wds) : wds[w].tx = i

(* What each landed transaction moved into the float and out of it, and what *)
(* each withdrawal has paid.                                                  *)
Brings(t) == IF t.state = "landed" /\ t.kind \in {"sweep", "direct"} THEN t.amount ELSE 0
In(i)  == Brings(txs[i])
Out(i) == IF txs[i].state = "landed" /\ txs[i].kind = "payout" THEN txs[i].amount ELSE 0
PaidBy(w) == IF Landed(wds[w].tx) THEN Net(w) ELSE 0
Ins == [i \in 1..Len(txs) |-> In(i)]
Outs == [i \in 1..Len(txs) |-> Out(i)]
Paids == [w \in 1..Len(wds) |-> PaidBy(w)]
Amts == [k \in 1..Len(credits) |-> Backed(k)]

FloatInv ==
  /\ FloatAt(Len(landed)) = SumTo(Ins, Len(txs)) - SumTo(Outs, Len(txs))
  /\ SumTo(Outs, Len(txs)) = SumTo(Paids, Len(wds))
  /\ FloatAt(Len(landed)) >= 0
  /\ \A p \in Players : WalletAt(p, Len(landed)) >= 0

(* The credits on the USDC of one player are part of what these transactions *)
(* moved, each transaction counted once.                                      *)
CreditInv ==
  \E part \in [1..Len(txs) -> Nat] :
    /\ SumTo(Amts, Len(credits)) = SumTo(part, Len(txs))
    /\ \A i \in 1..Len(txs) : part[i] <= In(i) /\ (~Credited(i) => part[i] = 0)

BalanceInv == \A p \in Players : Balance(p) >= 0

(* What a request knows where it is, and who is alone in its mailbox. *)
Item(c) == c.proof \in 1..Len(txs) /\ c.amount \in Nat
InMailbox == {"confirm", "float", "send", "await"}
JobOK(j) ==
  /\ j.at \in {"idle", "list", "balance", "sweep", "credit", "debit"} \union InMailbox
  /\ j.at # "idle" => j.who \in Players
  /\ j.at \in {"balance", "sweep", "credit", "confirm"} => \A c \in j.todo : Item(c)
  /\ j.at = "sweep" => j.tx \in 1..Len(txs)
  /\ j.at = "confirm" => Item(j.item) /\ ~DepositRefSeen(j.who, j.item.proof)
  /\ j.at = "debit" => j.amount \in Nat
  /\ j.at \in {"float", "send", "await"} =>
       /\ j.wd \in 1..Len(wds)
       /\ wds[j.wd].who = j.who /\ wds[j.wd].status = "initiated"
       /\ (j.at = "await") = (wds[j.wd].tx # 0)
Alone(s, p) == \A r \in Slots : r # s /\ job[r].at \in InMailbox => job[r].who # p
MailboxInv ==
  /\ job = [s \in Slots |-> job[s]]
  /\ \A s \in Slots : JobOK(job[s])
  /\ \A s \in Slots : job[s].at \in InMailbox => Alone(s, job[s].who)

MoneyInv == TypeInv /\ PayoutInv /\ FloatInv /\ CreditInv /\ BalanceInv /\ CreditedOnce
IInv == MoneyInv /\ MailboxInv

-----------------------------------------------------------------------------
(* Sequences *)

\* A sequence with one more element.
LEMMA Appended ==
  ASSUME NEW S, NEW s \in Seq(S), NEW e \in S, NEW t, t = Append(s, e)
  PROVE  /\ t \in Seq(S) /\ Len(s) \in Nat /\ Len(t) = Len(s) + 1
         /\ DOMAIN s = 1..Len(s) /\ DOMAIN t = 1..(Len(s) + 1)
         /\ \A i \in 1..Len(s) : t[i] = s[i] /\ s[i] \in S
         /\ t[Len(s) + 1] = e
OBVIOUS

\* A sequence with one element replaced.
LEMMA Replaced ==
  ASSUME NEW S, NEW s \in Seq(S), NEW e \in S, NEW i \in 1..Len(s), NEW t, t = [s EXCEPT ![i] = e]
  PROVE  /\ t \in Seq(S) /\ Len(s) \in Nat /\ Len(t) = Len(s)
         /\ DOMAIN s = 1..Len(s) /\ DOMAIN t = 1..Len(s)
         /\ \A k \in 1..Len(s) : t[k] = (IF k = i THEN e ELSE s[k]) /\ s[k] \in S
OBVIOUS

-----------------------------------------------------------------------------
(* What the types give *)

LEMMA TxFacts ==
  ASSUME TypeInv
  PROVE  /\ Len(txs) \in Nat /\ DOMAIN txs = 1..Len(txs)
         /\ \A i \in 1..Len(txs) :
              /\ txs[i] \in Tx /\ txs[i].amount \in Nat /\ txs[i].kind \in Kinds
              /\ txs[i].state \in {"flying", "landed", "dead"}
              /\ In(i) \in Nat /\ Out(i) \in Nat
         /\ Ins \in [1..Len(txs) -> Nat] /\ Outs \in [1..Len(txs) -> Nat]
<1>1. txs \in Seq(Tx)
  BY DEF TypeInv
<1>2. Len(txs) \in Nat /\ DOMAIN txs = 1..Len(txs) /\ \A i \in 1..Len(txs) : txs[i] \in Tx
  BY <1>1
<1>3. \A i \in 1..Len(txs) :
        /\ txs[i].amount \in Nat /\ txs[i].kind \in Kinds
        /\ txs[i].state \in {"flying", "landed", "dead"}
  BY <1>2 DEF Tx
<1>4. \A i \in 1..Len(txs) : In(i) \in Nat /\ Out(i) \in Nat
  BY <1>3 DEF In, Brings, Out
<1> QED BY <1>2, <1>3, <1>4 DEF Ins, Outs

LEMMA LedgerFacts ==
  ASSUME TypeInv
  PROVE  /\ Len(wds) \in Nat /\ DOMAIN wds = 1..Len(wds)
         /\ \A w \in 1..Len(wds) :
              /\ wds[w] \in Wd /\ wds[w].amount \in Nat /\ wds[w].who \in Players
              /\ wds[w].status \in {"initiated", "settled", "reversed"} /\ wds[w].tx \in Nat
              /\ Net(w) \in Int
         /\ Len(credits) \in Nat /\ DOMAIN credits = 1..Len(credits)
         /\ \A k \in 1..Len(credits) :
              /\ credits[k] \in Credit /\ credits[k].amount \in Nat
              /\ credits[k].who \in Players /\ credits[k].proof \in Nat
         /\ Amts \in [1..Len(credits) -> Nat]
         /\ Paids \in [1..Len(wds) -> Int]
<1>1. wds \in Seq(Wd) /\ credits \in Seq(Credit)
  BY DEF TypeInv
<1>2. /\ Len(wds) \in Nat /\ DOMAIN wds = 1..Len(wds) /\ \A w \in 1..Len(wds) : wds[w] \in Wd
      /\ Len(credits) \in Nat /\ DOMAIN credits = 1..Len(credits)
      /\ \A k \in 1..Len(credits) : credits[k] \in Credit
  BY <1>1
<1>3. \A w \in 1..Len(wds) :
        /\ wds[w].amount \in Nat /\ wds[w].who \in Players
        /\ wds[w].status \in {"initiated", "settled", "reversed"} /\ wds[w].tx \in Nat
  BY <1>2 DEF Wd
<1>4. \A k \in 1..Len(credits) :
        credits[k].amount \in Nat /\ credits[k].who \in Players /\ credits[k].proof \in Nat
  BY <1>2 DEF Credit
<1>5. \A w \in 1..Len(wds) : Net(w) \in Int /\ PaidBy(w) \in Int
  BY <1>3, LedgerAssumption DEF Net, PaidBy
<1>6. \A k \in 1..Len(credits) : Backed(k) \in Nat
  BY <1>4 DEF Backed
<1> QED BY <1>2, <1>3, <1>4, <1>5, <1>6 DEF Amts, Paids

(* The float and the wallets as sums over the landings *)
FloatMove(k) == LET t == txs[landed[k]] IN
  CASE t.kind \in {"sweep", "direct"} -> t.amount [] t.kind = "payout" -> -t.amount [] OTHER -> 0
WalletMove(p, k) == LET t == txs[landed[k]] IN
  IF t.who # p THEN 0 ELSE IF t.kind = "sweep" THEN -t.amount ELSE t.amount
FloatMoves == [k \in 1..Len(landed) |-> FloatMove(k)]
WalletMoves(p) == [k \in 1..Len(landed) |-> WalletMove(p, k)]

LEMMA MoveFacts ==
  ASSUME TypeInv
  PROVE  /\ Len(landed) \in Nat /\ DOMAIN landed = 1..Len(landed)
         /\ \A k \in 1..Len(landed) : landed[k] \in 1..Len(txs)
         /\ FloatMoves \in [1..Len(landed) -> Int]
         /\ FloatAt(Len(landed)) = SumTo(FloatMoves, Len(landed))
         /\ \A p : /\ WalletMoves(p) \in [1..Len(landed) -> Int]
                  /\ WalletAt(p, Len(landed)) = SumTo(WalletMoves(p), Len(landed))
<1>1. landed \in Seq(Nat)
  BY DEF TypeInv
<1>2. Len(landed) \in Nat /\ DOMAIN landed = 1..Len(landed)
  BY <1>1
<1>3. \A k \in 1..Len(landed) : landed[k] \in 1..Len(txs)
  BY DEF TypeInv
<1>4. \A k \in 1..Len(landed) : FloatMove(k) \in Int
  BY <1>3, TxFacts DEF FloatMove
<1>5. \A p : \A k \in 1..Len(landed) : WalletMove(p, k) \in Int
  BY <1>3, TxFacts DEF WalletMove
<1>6. FloatAt(Len(landed)) = SumTo(FloatMoves, Len(landed))
  BY DEF FloatAt, FloatMoves, FloatMove
<1>7. \A p : WalletAt(p, Len(landed)) = SumTo(WalletMoves(p), Len(landed))
  BY DEF WalletAt, WalletMoves, WalletMove
<1> QED BY <1>2, <1>3, <1>4, <1>5, <1>6, <1>7 DEF FloatMoves, WalletMoves

\* The same after a step.
MovesAreSums ==
  /\ FloatMoves \in [1..Len(landed) -> Int]
  /\ FloatAt(Len(landed)) = SumTo(FloatMoves, Len(landed))
  /\ \A p : /\ WalletMoves(p) \in [1..Len(landed) -> Int]
           /\ WalletAt(p, Len(landed)) = SumTo(WalletMoves(p), Len(landed))
LEMMA MovesNext == TypeInv' => MovesAreSums'
<1>1. TypeInv => MovesAreSums
  BY MoveFacts DEF MovesAreSums
<1> QED BY <1>1, PTL

\* What a landed transaction moved depends on its kind, its owner and its amount only.
LEMMA MovesKept ==
  ASSUME NEW k, landed'[k] = landed[k],
         txs'[landed[k]].kind = txs[landed[k]].kind,
         txs'[landed[k]].who = txs[landed[k]].who,
         txs'[landed[k]].amount = txs[landed[k]].amount
  PROVE  FloatMove(k)' = FloatMove(k) /\ \A p : WalletMove(p, k)' = WalletMove(p, k)
<1>1. FloatMove(k)' = FloatMove(k)
  BY DEF FloatMove
<1>2. ASSUME NEW p PROVE WalletMove(p, k)' = WalletMove(p, k)
  BY DEF WalletMove
<1> QED BY <1>1, <1>2

\* A step that lands nothing leaves the movements as they are.
LEMMA NothingLanded ==
  ASSUME TypeInv, landed' = landed,
         \A i \in 1..Len(txs) : /\ txs'[i].kind = txs[i].kind /\ txs'[i].who = txs[i].who
                               /\ txs'[i].amount = txs[i].amount
  PROVE  FloatMoves' = FloatMoves /\ \A p : WalletMoves(p)' = WalletMoves(p)
<1>1. ASSUME NEW k \in 1..Len(landed)
      PROVE  FloatMove(k)' = FloatMove(k) /\ \A p : WalletMove(p, k)' = WalletMove(p, k)
  <2>1. landed[k] \in 1..Len(txs)
    BY MoveFacts
  <2>2. /\ landed'[k] = landed[k] /\ txs'[landed[k]].kind = txs[landed[k]].kind
        /\ txs'[landed[k]].who = txs[landed[k]].who
        /\ txs'[landed[k]].amount = txs[landed[k]].amount
    BY <2>1
  <2> QED BY ONLY <2>2, MovesKept
<1>2. FloatMoves' = FloatMoves
  BY <1>1 DEF FloatMoves
<1>3. ASSUME NEW p PROVE WalletMoves(p)' = WalletMoves(p)
  BY <1>1 DEF WalletMoves
<1> QED BY <1>2, <1>3

LEMMA BoxTypes ==
  ASSUME TypeInv
  PROVE  /\ FloatAt(Len(landed)) \in Int
         /\ \A p : WalletAt(p, Len(landed)) \in Int
         /\ SumTo(Ins, Len(txs)) \in Int /\ SumTo(Outs, Len(txs)) \in Int
         /\ SumTo(Paids, Len(wds)) \in Int /\ SumTo(Amts, Len(credits)) \in Int
<1>1. FloatAt(Len(landed)) \in Int
  BY MoveFacts, SumType
<1>2. \A p : WalletAt(p, Len(landed)) \in Int
  BY MoveFacts, SumType
<1>3. Len(txs) \in Nat /\ Ins \in [1..Len(txs) -> Int] /\ Outs \in [1..Len(txs) -> Int]
  BY TxFacts
<1>4. SumTo(Ins, Len(txs)) \in Int /\ SumTo(Outs, Len(txs)) \in Int
  BY <1>3, SumType
<1>5. /\ Len(wds) \in Nat /\ Paids \in [1..Len(wds) -> Int]
      /\ Len(credits) \in Nat /\ Amts \in [1..Len(credits) -> Int]
  BY LedgerFacts
<1>6. SumTo(Paids, Len(wds)) \in Int /\ SumTo(Amts, Len(credits)) \in Int
  BY <1>5, SumType
<1> QED BY <1>1, <1>2, <1>4, <1>6

\* What a credit rests on does not change under it.
LEMMA AmtsKept ==
  ASSUME TypeInv, CreditedOnce, credits' = credits,
         \A i \in 1..Len(txs) : txs'[i].kind = txs[i].kind /\ txs'[i].payers = txs[i].payers
  PROVE  Amts' = Amts
<1>1. ASSUME NEW k \in 1..Len(credits) PROVE Backed(k)' = Backed(k)
  <2>1. credits[k].proof \in 1..Len(txs)
    BY LedgerFacts, TxFacts DEF CreditedOnce, Landed
  <2>2. Ordinary(txs[credits[k].proof])' <=> Ordinary(txs[credits[k].proof])
    BY <2>1 DEF Ordinary
  <2> QED BY <2>2 DEF Backed
<1> QED BY <1>1 DEF Amts

-----------------------------------------------------------------------------
(* Steps that keep the money where it is *)

LEMMA MoneyKept ==
  ASSUME MoneyInv, UNCHANGED <<chain, streams>>
  PROVE  MoneyInv'
<1>1. txs' = txs /\ landed' = landed /\ final' = final /\ credits' = credits /\ wds' = wds
  BY DEF chain, streams
<1>2. TypeInv' /\ PayoutInv'
  BY <1>1 DEF MoneyInv, TypeInv, PayoutInv, Landed, Net
<1>3. Ins' = Ins /\ Outs' = Outs /\ Paids' = Paids /\ Amts' = Amts
  BY <1>1, AmtsKept DEF MoneyInv, Ins, Outs, Paids, In, Brings, Out, PaidBy, Landed, Net
<1>4. FloatInv'
  BY <1>1, <1>3 DEF MoneyInv, FloatInv, FloatAt, WalletAt
<1>5. \A i : In(i)' = In(i) /\ Credited(i)' = Credited(i)
  BY <1>1 DEF In, Brings, Credited
<1>6. CreditInv'
  BY <1>1, <1>3, <1>5 DEF MoneyInv, CreditInv
<1>7. BalanceInv' /\ CreditedOnce'
  BY <1>1 DEF MoneyInv, BalanceInv, CreditedOnce, Balance, Deposited, Debited, Landed
<1> QED BY <1>2, <1>4, <1>6, <1>7 DEF MoneyInv

-----------------------------------------------------------------------------
(* A new transaction that moves nothing out of the float *)

LEMMA GrowTxs ==
  ASSUME TypeInv, NEW e \in Tx, e.state = "landed" => e.kind # "payout", txs' = Append(txs, e)
  PROVE  /\ txs' \in Seq(Tx) /\ Len(txs) \in Nat /\ Len(txs') = Len(txs) + 1
         /\ DOMAIN txs = 1..Len(txs) /\ DOMAIN txs' = 1..(Len(txs) + 1)
         /\ \A i \in 1..Len(txs) : txs'[i] = txs[i] /\ In(i)' = In(i)
         /\ txs'[Len(txs) + 1] = e /\ Brings(e) \in Nat
         /\ SumTo(Ins, Len(txs))' = SumTo(Ins, Len(txs)) + Brings(e)
         /\ SumTo(Outs, Len(txs))' = SumTo(Outs, Len(txs))
         /\ e.state # "landed" => SumTo(Ins, Len(txs))' = SumTo(Ins, Len(txs))
<1> DEFINE n == Len(txs)
<1>1. txs \in Seq(Tx)
  BY DEF TypeInv
<1>2. /\ txs' \in Seq(Tx) /\ n \in Nat /\ Len(txs') = n + 1
      /\ DOMAIN txs = 1..n /\ DOMAIN txs' = 1..(n + 1)
      /\ \A i \in 1..n : txs'[i] = txs[i]
      /\ txs'[n + 1] = e
  BY <1>1, Appended
<1>3. Ins \in [1..n -> Int] /\ Outs \in [1..n -> Int]
  BY TxFacts
<1> HIDE DEF n
<1>4. Ins' = [i \in 1..(n+1) |-> In(i)'] /\ Outs' = [i \in 1..(n+1) |-> Out(i)']
  BY <1>2 DEF Ins, Outs
<1>5. \A i \in 1..n : In(i)' = In(i) /\ Out(i)' = Out(i)
  BY <1>2 DEF In, Brings, Out
<1>6. n + 1 \in 1..(n+1) /\ 1..n \subseteq 1..(n+1) /\ \A i \in 1..(n+1) : i \in 1..n \/ i = n + 1
  BY <1>2
<1>7. /\ Ins'[n+1] = Brings(e) /\ Brings(e) \in Nat /\ Outs'[n+1] = 0
      /\ e.state # "landed" => Brings(e) = 0
  BY <1>2, <1>4, <1>6 DEF In, Brings, Out, Tx
<1>8. \A i \in 1..n : Ins'[i] = Ins[i] /\ Outs'[i] = Outs[i]
  <2> TAKE i \in 1..n
  <2>1. Ins'[i] = In(i)' /\ Outs'[i] = Out(i)'
    BY <1>4, <1>6
  <2>2. Ins[i] = In(i) /\ Outs[i] = Out(i)
    BY DEF Ins, Outs, n
  <2> QED BY <2>1, <2>2, <1>5
<1>9. Ins' \in [1..(n+1) -> Int] /\ Outs' \in [1..(n+1) -> Int]
  <2>1. \A i \in 1..n : txs[i].amount \in Int
    BY TxFacts DEF n
  <2>2. e.amount \in Int
    BY DEF Tx
  <2>3. \A i \in 1..(n+1) : txs'[i].amount \in Int
    BY <1>2, <1>6, <2>1, <2>2
  <2>4. ASSUME NEW i \in 1..(n+1) PROVE In(i)' \in Int /\ Out(i)' \in Int
    <3>1. (In(i)' = txs'[i].amount \/ In(i)' = 0) /\ (Out(i)' = txs'[i].amount \/ Out(i)' = 0)
      BY Zenon DEF In, Brings, Out
    <3>2. txs'[i].amount \in Int
      BY <2>3, Zenon
    <3> QED BY <3>1, <3>2, 0 \in Int, Zenon
  <2> QED BY <1>4, <2>4
<1>10. SumTo(Ins', n + 1) = SumTo(Ins, n) + Ins'[n+1]
  BY <1>2, <1>3, <1>8, <1>9, SumAppend
<1>11. SumTo(Outs', n + 1) = SumTo(Outs, n) + Outs'[n+1]
  BY <1>2, <1>3, <1>8, <1>9, SumAppend
<1>12. SumTo(Ins, n) \in Int /\ SumTo(Outs, n) \in Int
  BY BoxTypes DEF n
<1>13. /\ SumTo(Ins', n + 1) = SumTo(Ins, n) + Brings(e) /\ SumTo(Outs', n + 1) = SumTo(Outs, n)
       /\ e.state # "landed" => SumTo(Ins', n + 1) = SumTo(Ins, n)
  BY <1>7, <1>10, <1>11, <1>12
<1> QED BY <1>2, <1>5, <1>7, <1>13 DEF n

LEMMA GrowCredit ==
  ASSUME TypeInv, CreditInv, CreditedOnce, NEW e \in Tx, e.state = "landed" => e.kind # "payout",
         txs' = Append(txs, e), credits' = credits
  PROVE  CreditInv'
<1> DEFINE n == Len(txs)
<1>1. PICK part \in [1..n -> Nat] :
        /\ SumTo(Amts, Len(credits)) = SumTo(part, n)
        /\ \A i \in 1..n : part[i] <= In(i) /\ (~Credited(i) => part[i] = 0)
  BY DEF CreditInv
<1>2. /\ txs' \in Seq(Tx) /\ n \in Nat /\ Len(txs') = n + 1
      /\ \A i \in 1..n : txs'[i] = txs[i] /\ In(i)' = In(i)
      /\ txs'[n + 1] = e /\ Brings(e) \in Nat
  BY GrowTxs
<1>9. Amts' = Amts
  BY <1>2, AmtsKept
<1> HIDE DEF n
<1> DEFINE new == [i \in 1..(n+1) |-> IF i = n + 1 THEN 0 ELSE part[i]]
<1>3. \A i \in 1..(n+1) : i \in 1..n \/ i = n + 1
  BY <1>2
<1>4. new \in [1..(n+1) -> Nat] /\ \A i \in 1..n : new[i] = part[i]
  BY <1>1, <1>2, <1>3
<1>5. new[n+1] = 0
  BY <1>2
<1> HIDE DEF new
<1>6. part \in [1..n -> Int] /\ new \in [1..(n+1) -> Int]
  BY <1>1, <1>4
<1>7. SumTo(new, n+1) = SumTo(part, n) + new[n+1] /\ SumTo(part, n) \in Int
  BY <1>2, <1>4, <1>6, SumAppend, SumType
<1>8. SumTo(new, n+1) = SumTo(part, n)
  BY <1>5, <1>7
<1>10. \A i : Credited(i)' = Credited(i)
  BY DEF Credited
<1>11. \A i \in 1..(n+1) : new[i] <= In(i)' /\ (~Credited(i)' => new[i] = 0)
  <2> TAKE i \in 1..(n+1)
  <2>1. CASE i \in 1..n
    BY <2>1, <1>1, <1>2, <1>4, <1>10
  <2>2. CASE i = n + 1
    <3>1. In(i)' = Brings(e)
      BY <2>2, <1>2 DEF In, Brings
    <3> QED BY <2>2, <3>1, <1>2, <1>5
  <2> QED BY <2>1, <2>2, <1>3
<1>12. SumTo(Amts, Len(credits))' = SumTo(new, n + 1)
  BY <1>1, <1>8, <1>9
<1> QED BY <1>2, <1>4, <1>11, <1>12 DEF CreditInv

LEMMA GrowPayouts ==
  ASSUME TypeInv, PayoutInv, NEW e \in Tx, e.kind # "payout", txs' = Append(txs, e), wds' = wds
  PROVE  PayoutInv' /\ Paids' = Paids
<1>1. /\ Len(txs) \in Nat /\ Len(txs') = Len(txs) + 1
      /\ DOMAIN txs = 1..Len(txs) /\ DOMAIN txs' = 1..(Len(txs) + 1)
      /\ \A i \in 1..Len(txs) : txs'[i] = txs[i]
      /\ txs'[Len(txs) + 1] = e
  BY GrowTxs
<1>2. \A i : i \in Nat /\ i <= Len(txs) => (Landed(i)' <=> Landed(i))
  BY <1>1 DEF Landed
<1>3. \A w \in 1..Len(wds) : wds[w].tx \in Nat /\ wds[w].tx <= Len(txs)
  BY <1>1, LedgerFacts DEF PayoutInv
<1>4. \A w \in 1..Len(wds) : Landed(wds[w].tx)' <=> Landed(wds[w].tx)
  BY <1>2, <1>3
<1>5. Paids' = Paids
  BY <1>4 DEF Paids, PaidBy, Net
<1>6. \A w \in 1..Len(wds)' :
       /\ wds[w].amount' > Fee
       /\ wds[w].tx' # 0 =>
            /\ wds[w].tx' \in 1..Len(txs)'
            /\ (txs[wds[w].tx].kind = "payout" /\ txs[wds[w].tx].amount = Net(w))'
       /\ wds[w].status' = "settled" => Landed(wds[w].tx)'
  BY <1>1, <1>4 DEF PayoutInv, Net
<1>7. \A i \in 1..Len(txs)' : txs'[i].kind = "payout" => i \in 1..Len(txs) /\ txs[i].kind = "payout"
  BY <1>1
<1>8. \A i \in 1..Len(txs)' : txs'[i].kind = "payout" => \E w \in 1..Len(wds)' : wds'[w].tx = i
  BY <1>7 DEF PayoutInv
<1>9. \A v, w \in 1..Len(wds)' : wds'[v].tx = wds'[w].tx /\ wds'[v].tx # 0 => v = w
  BY DEF PayoutInv
<1> QED BY <1>5, <1>6, <1>8, <1>9 DEF PayoutInv

LEMMA GrowOnce ==
  ASSUME TypeInv, CreditedOnce, NEW e \in Tx, e.state = "landed" => e.kind # "payout",
         txs' = Append(txs, e), credits' = credits
  PROVE  CreditedOnce'
<1>1. /\ Len(txs) \in Nat /\ DOMAIN txs = 1..Len(txs) /\ DOMAIN txs' = 1..(Len(txs) + 1)
      /\ \A i \in 1..Len(txs) : txs'[i] = txs[i]
  BY GrowTxs
<1>2. \A i : Landed(i) => Landed(i)' /\ txs'[i] = txs[i]
  BY <1>1 DEF Landed
<1>3. ASSUME NEW k \in DOMAIN credits
      PROVE  Landed(credits[k].proof)' /\ txs'[credits[k].proof] = txs[credits[k].proof]
  BY <1>2 DEF CreditedOnce
<1>4. ASSUME NEW k \in DOMAIN credits
      PROVE  LET c == credits[k]
                 t == txs'[c.proof]
             IN  /\ Landed(c.proof)' /\ c.who \in t.payers /\ c.amount <= t.amount
                 /\ \A j \in DOMAIN credits :
                      credits[j].proof = c.proof /\ (t.kind = "sweep" \/ credits[j].who = c.who) => j = k
  BY <1>3 DEF CreditedOnce
<1> QED BY <1>4 DEF CreditedOnce

LEMMA SweepMoney ==
  ASSUME MoneyInv, NEW e \in Tx, e.state = "flying", e.kind # "payout",
         txs' = Append(txs, e), UNCHANGED <<landed, final, streams>>
  PROVE  MoneyInv'
<1>1. TypeInv /\ PayoutInv /\ FloatInv /\ CreditInv /\ BalanceInv /\ CreditedOnce
  BY DEF MoneyInv
<1>2. landed' = landed /\ final' = final /\ credits' = credits /\ wds' = wds
  BY DEF streams
<1>3. /\ txs' \in Seq(Tx) /\ Len(txs) \in Nat /\ Len(txs') = Len(txs) + 1
      /\ \A i \in 1..Len(txs) : txs'[i] = txs[i]
      /\ SumTo(Ins, Len(txs))' = SumTo(Ins, Len(txs))
      /\ SumTo(Outs, Len(txs))' = SumTo(Outs, Len(txs))
  BY <1>1, GrowTxs
<1>4. TypeInv'
  <2>1. /\ landed \in Seq(Nat) /\ credits \in Seq(Credit) /\ wds \in Seq(Wd) /\ final \in 0..Len(landed)
        /\ \A k \in 1..Len(landed) : landed[k] \in 1..Len(txs) /\ txs[landed[k]].state = "landed"
    BY <1>1 DEF TypeInv
  <2>2. \A k \in 1..Len(landed) : landed[k] \in 1..Len(txs') /\ txs'[landed[k]].state = "landed"
    BY <1>3, <2>1
  <2> QED BY ONLY <1>2, <1>3, <2>1, <2>2 DEF TypeInv
<1>5. PayoutInv' /\ Paids' = Paids
  BY <1>1, <1>2, GrowPayouts
<1>6. FloatMoves' = FloatMoves /\ \A p : WalletMoves(p)' = WalletMoves(p)
  BY <1>1, <1>2, <1>3, MoveFacts DEF FloatMoves, WalletMoves, FloatMove, WalletMove
<1>7. /\ FloatAt(Len(landed))' = FloatAt(Len(landed))
      /\ \A p : WalletAt(p, Len(landed))' = WalletAt(p, Len(landed))
  <2>1. /\ FloatAt(Len(landed)) = SumTo(FloatMoves, Len(landed))
        /\ \A p : WalletAt(p, Len(landed)) = SumTo(WalletMoves(p), Len(landed))
    BY DEF FloatAt, FloatMoves, FloatMove, WalletAt, WalletMoves, WalletMove
  <2>2. /\ FloatAt(Len(landed))' = SumTo(FloatMoves', Len(landed'))
        /\ \A p : WalletAt(p, Len(landed))' = SumTo(WalletMoves(p)', Len(landed'))
    BY DEF FloatAt, FloatMoves, FloatMove, WalletAt, WalletMoves, WalletMove
  <2> QED BY <1>2, <1>6, <2>1, <2>2
<1>8. FloatInv'
  BY <1>1, <1>2, <1>3, <1>5, <1>7 DEF FloatInv
<1>9. CreditInv' /\ CreditedOnce'
  BY <1>1, <1>2, GrowCredit, GrowOnce
<1>10. BalanceInv'
  BY <1>1, <1>2 DEF BalanceInv, Balance, Deposited, Debited
<1> QED BY <1>4, <1>5, <1>8, <1>9, <1>10 DEF MoneyInv

LEMMA ArriveMoney ==
  ASSUME MoneyInv, NEW e \in Tx, e.state = "landed", e.kind \in {"arrival", "direct", "foreign"},
         txs' = Append(txs, e), landed' = Append(landed, Len(txs) + 1),
         UNCHANGED <<final, streams>>
  PROVE  MoneyInv'
<1> DEFINE m == Len(landed)
<1>1. TypeInv /\ PayoutInv /\ FloatInv /\ CreditInv /\ BalanceInv /\ CreditedOnce
  BY DEF MoneyInv
<1>2. final' = final /\ credits' = credits /\ wds' = wds
  BY DEF streams
<1>3. /\ txs' \in Seq(Tx) /\ Len(txs) \in Nat /\ Len(txs') = Len(txs) + 1
      /\ \A i \in 1..Len(txs) : txs'[i] = txs[i]
      /\ txs'[Len(txs) + 1] = e /\ Brings(e) \in Nat
      /\ SumTo(Ins, Len(txs))' = SumTo(Ins, Len(txs)) + Brings(e)
      /\ SumTo(Outs, Len(txs))' = SumTo(Outs, Len(txs))
  BY <1>1, GrowTxs
<1>4. landed \in Seq(Nat) /\ Len(txs) + 1 \in Nat
  BY <1>1, <1>3 DEF TypeInv
<1>5. /\ landed' \in Seq(Nat) /\ m \in Nat /\ Len(landed') = m + 1
      /\ \A k \in 1..m : landed'[k] = landed[k]
      /\ landed'[m + 1] = Len(txs) + 1
  BY <1>4, Appended
<1>6. /\ \A k \in 1..m : landed[k] \in 1..Len(txs) /\ txs[landed[k]].state = "landed"
      /\ final \in 0..m
      /\ credits \in Seq(Credit) /\ wds \in Seq(Wd)
  BY <1>1 DEF TypeInv
<1> HIDE DEF m
<1>7. \A k \in 1..(m+1) : k \in 1..m \/ k = m + 1
  BY <1>5
<1>8. TypeInv'
  <2>1. \A k \in 1..(m+1) : landed'[k] \in 1..(Len(txs) + 1) /\ txs'[landed'[k]].state = "landed"
    BY <1>3, <1>5, <1>6, <1>7
  <2>2. final' \in 0..(m+1)
    BY <1>2, <1>5, <1>6
  <2> QED BY <1>2, <1>3, <1>5, <1>6, <2>1, <2>2 DEF TypeInv
<1>9. PayoutInv' /\ Paids' = Paids
  BY <1>1, <1>2, GrowPayouts
<1>10. /\ FloatAt(Len(landed))' = SumTo(FloatMoves', m + 1)
       /\ \A p : WalletAt(p, Len(landed))' = SumTo(WalletMoves(p)', m + 1)
       /\ FloatMoves' \in [1..(m+1) -> Int]
       /\ \A p : WalletMoves(p)' \in [1..(m+1) -> Int]
  <2>1. MovesAreSums'
    BY <1>8, MovesNext
  <2> QED BY <1>5, <2>1 DEF MovesAreSums
<1>11. /\ FloatAt(Len(landed)) = SumTo(FloatMoves, m)
       /\ \A p : WalletAt(p, Len(landed)) = SumTo(WalletMoves(p), m)
       /\ FloatMoves \in [1..m -> Int]
       /\ \A p : WalletMoves(p) \in [1..m -> Int]
  BY <1>1, MoveFacts DEF m
<1>12. FloatMoves' = [k \in 1..(m+1) |-> FloatMove(k)']
  BY <1>5 DEF FloatMoves
<1>13. \A p : WalletMoves(p)' = [k \in 1..(m+1) |-> WalletMove(p, k)']
  BY <1>5 DEF WalletMoves
<1>24. ASSUME NEW k \in 1..m
       PROVE  FloatMove(k)' = FloatMove(k) /\ \A p : WalletMove(p, k)' = WalletMove(p, k)
  <2>1. landed'[k] = landed[k] /\ landed[k] \in 1..Len(txs)
    BY <1>5, <1>6
  <2>2. txs'[landed[k]] = txs[landed[k]]
    BY <1>3, <2>1
  <2> QED BY ONLY <2>1, <2>2, MovesKept
<1>25. \A k \in 1..m : k \in 1..(m+1) /\ k \in 1..Len(landed)
  BY <1>5 DEF m
<1>14. \A k \in 1..m : FloatMoves'[k] = FloatMoves[k]
  BY ONLY <1>12, <1>24, <1>25 DEF FloatMoves
<1>15. \A p : \A k \in 1..m : WalletMoves(p)'[k] = WalletMoves(p)[k]
  <2> SUFFICES ASSUME NEW p, NEW k \in 1..m PROVE WalletMoves(p)'[k] = WalletMoves(p)[k]
    OBVIOUS
  <2>1. k \in 1..(m+1) /\ k \in 1..Len(landed)
    BY <1>25
  <2>2. WalletMoves(p)'[k] = WalletMove(p, k)' /\ WalletMoves(p)[k] = WalletMove(p, k)
    BY ONLY <1>13, <2>1 DEF WalletMoves
  <2> QED BY <2>2, <1>24
<1>16. FloatMoves'[m+1] = Brings(e)
  <2>1. m + 1 \in 1..(m+1)
    BY <1>5
  <2>2. landed'[m + 1] = Len(txs) + 1 /\ txs'[Len(txs) + 1] = e
    BY <1>3, <1>5
  <2>3. ASSUME NEW k, k = m + 1 PROVE FloatMove(k)' = Brings(e)
    <3>1. FloatMove(k)' = (CASE e.kind \in {"sweep", "direct"} -> e.amount
                             [] e.kind = "payout" -> -e.amount [] OTHER -> 0)
      BY ONLY <2>2, <2>3 DEF FloatMove
    <3>2. CASE e.kind = "direct"
      BY <3>1, <3>2 DEF Brings
    <3>3. CASE e.kind \in {"arrival", "foreign"}
      BY <3>1, <3>3 DEF Brings
    <3> QED BY <3>2, <3>3
  <2> QED BY ONLY <1>12, <2>1, <2>3
<1>17. ASSUME NEW p PROVE WalletMoves(p)'[m+1] \in Nat
  <2>1. e.amount \in Nat
    BY DEF Tx
  <2>2. m + 1 \in 1..(m+1)
    BY <1>5
  <2>3. WalletMoves(p)'[m+1] =
          (IF e.who # p THEN 0 ELSE IF e.kind = "sweep" THEN -e.amount ELSE e.amount)
    BY <1>3, <1>5, <1>13, <2>2 DEF WalletMove
  <2> QED BY <2>1, <2>3
<1>18. SumTo(FloatMoves', m + 1) = SumTo(FloatMoves, m) + FloatMoves'[m+1]
  BY <1>5, <1>10, <1>11, <1>14, SumAppend
<1>19. ASSUME NEW p \in Players PROVE WalletAt(p, Len(landed))' >= 0
  <2>1. WalletMoves(p) \in [1..m -> Int] /\ WalletMoves(p)' \in [1..(m+1) -> Int]
    BY <1>10, <1>11
  <2>2. \A k \in 1..m : WalletMoves(p)'[k] = WalletMoves(p)[k]
    BY <1>15
  <2>3. SumTo(WalletMoves(p)', m + 1) = SumTo(WalletMoves(p), m) + WalletMoves(p)'[m+1]
    BY <1>5, <2>1, <2>2, SumAppend
  <2>4. SumTo(WalletMoves(p), m) \in Int /\ SumTo(WalletMoves(p), m) >= 0
    BY <1>1, <1>5, <1>11, <2>1, SumType DEF FloatInv
  <2>5. WalletMoves(p)'[m+1] \in Nat
    BY <1>17
  <2>6. WalletAt(p, Len(landed))' = SumTo(WalletMoves(p)', m + 1)
    BY <1>10
  <2> QED BY <2>3, <2>4, <2>5, <2>6
<1>20. FloatAt(Len(landed))' = FloatAt(Len(landed)) + Brings(e)
  BY <1>10, <1>11, <1>16, <1>18
<1>21. FloatInv'
  <2>1. /\ FloatAt(Len(landed)) \in Int
        /\ SumTo(Ins, Len(txs)) \in Int /\ SumTo(Outs, Len(txs)) \in Int
    BY <1>1, BoxTypes
  <2>2. /\ FloatAt(Len(landed)) = SumTo(Ins, Len(txs)) - SumTo(Outs, Len(txs))
        /\ FloatAt(Len(landed)) >= 0 /\ SumTo(Outs, Len(txs)) = SumTo(Paids, Len(wds))
    BY <1>1 DEF FloatInv
  <2>3. /\ FloatAt(Len(landed))' >= 0
        /\ FloatAt(Len(landed))' = SumTo(Ins, Len(txs))' - SumTo(Outs, Len(txs))'
    BY <1>3, <1>20, <2>1, <2>2
  <2> QED BY <1>2, <1>3, <1>9, <1>19, <2>2, <2>3 DEF FloatInv
<1>22. CreditInv' /\ CreditedOnce'
  BY <1>1, <1>2, GrowCredit, GrowOnce
<1>23. BalanceInv'
  BY <1>1, <1>2 DEF BalanceInv, Balance, Deposited, Debited
<1> QED BY <1>8, <1>9, <1>21, <1>22, <1>23 DEF MoneyInv

-----------------------------------------------------------------------------
(* A transaction under way lands or dies *)

LEMMA Resolve ==
  ASSUME TypeInv, NEW i \in 1..Len(txs), txs[i].state = "flying",
         NEW st \in {"landed", "dead"}, txs' = [txs EXCEPT ![i].state = st]
  PROVE  /\ txs' \in Seq(Tx) /\ Len(txs') = Len(txs) /\ DOMAIN txs' = DOMAIN txs
         /\ \A k \in 1..Len(txs) :
              /\ txs'[k].kind = txs[k].kind /\ txs'[k].who = txs[k].who
              /\ txs'[k].amount = txs[k].amount /\ txs'[k].payers = txs[k].payers
              /\ k # i => txs'[k].state = txs[k].state
         /\ txs'[i].state = st
         /\ \A k \in 1..Len(txs) : In(k) <= In(k)'
         /\ SumTo(Ins, Len(txs))' = SumTo(Ins, Len(txs)) + In(i)'
         /\ SumTo(Outs, Len(txs))' = SumTo(Outs, Len(txs)) + Out(i)'
         /\ In(i)' \in Nat /\ Out(i)' \in Nat
<1> DEFINE n == Len(txs)
           e == [kind |-> txs[i].kind, who |-> txs[i].who, payers |-> txs[i].payers,
                 amount |-> txs[i].amount, state |-> st]
<1>1. txs \in Seq(Tx) /\ n \in Nat /\ txs[i] \in Tx /\ \A k \in 1..n : In(k) \in Nat /\ Out(k) \in Nat
  BY TxFacts DEF TypeInv
<1>2. e \in Tx /\ [txs[i] EXCEPT !.state = st] = e
  BY <1>1 DEF Tx
<1>3. txs' = [txs EXCEPT ![i] = e]
  BY <1>1, <1>2
<1>4. /\ e.kind = txs[i].kind /\ e.who = txs[i].who /\ e.payers = txs[i].payers
      /\ e.amount = txs[i].amount /\ e.state = st
  OBVIOUS
<1> HIDE DEF e
<1>5. /\ txs' \in Seq(Tx) /\ Len(txs') = n /\ DOMAIN txs = 1..n /\ DOMAIN txs' = 1..n
      /\ \A k \in 1..n : txs'[k] = (IF k = i THEN e ELSE txs[k])
  <2>1. txs \in Seq(Tx) /\ e \in Tx /\ i \in 1..Len(txs)
    BY <1>1, <1>2
  <2> QED BY <2>1, <1>3, Replaced
<1> HIDE DEF n
<1>6. i \in 1..n
  BY DEF n
<1>7. txs'[i] = e /\ \A k \in 1..n : k # i => txs'[k] = txs[k]
  BY <1>5, <1>6
<1>8. \A k \in 1..n : k # i => In(k)' = In(k) /\ Out(k)' = Out(k)
  BY <1>7 DEF In, Brings, Out
<1>9. In(i) = 0 /\ Out(i) = 0
  BY DEF In, Brings, Out
<1>10. In(i)' \in Nat /\ Out(i)' \in Nat
  BY <1>2, <1>7 DEF In, Brings, Out, Tx
<1>11. \A k \in 1..n : In(k)' \in Nat /\ Out(k)' \in Nat
  BY <1>1, <1>8, <1>10
<1>12. Ins' = [k \in 1..n |-> In(k)'] /\ Outs' = [k \in 1..n |-> Out(k)']
  BY <1>5 DEF Ins, Outs
<1>13. Ins = [k \in 1..n |-> In(k)] /\ Outs = [k \in 1..n |-> Out(k)]
  BY DEF Ins, Outs, n
<1>14. /\ Ins \in [1..n -> Int] /\ Ins' \in [1..n -> Int]
       /\ Outs \in [1..n -> Int] /\ Outs' \in [1..n -> Int]
  BY <1>1, <1>11, <1>12, <1>13
<1>15. /\ \A k \in 1..n : k # i => Ins'[k] = Ins[k]
       /\ \A k \in 1..n : k # i => Outs'[k] = Outs[k]
       /\ Ins'[i] = In(i)' /\ Ins[i] = 0 /\ Outs'[i] = Out(i)' /\ Outs[i] = 0
  BY <1>6, <1>8, <1>9, <1>12, <1>13
<1>16. SumTo(Ins', n) = SumTo(Ins, n) + (Ins'[i] - Ins[i])
  BY <1>1, <1>6, <1>14, <1>15, SumUpdate
<1>17. SumTo(Outs', n) = SumTo(Outs, n) + (Outs'[i] - Outs[i])
  BY <1>1, <1>6, <1>14, <1>15, SumUpdate
<1>18. SumTo(Ins', n) = SumTo(Ins, n) + In(i)' /\ SumTo(Outs', n) = SumTo(Outs, n) + Out(i)'
  BY <1>10, <1>15, <1>16, <1>17
<1>19. \A k \in 1..n : In(k) <= In(k)'
  <2> TAKE k \in 1..n
  <2>1. CASE k = i
    BY <2>1, <1>9, <1>10
  <2>2. CASE k # i
    BY <2>2, <1>1, <1>8
  <2> QED BY <2>1, <2>2
<1> QED BY <1>4, <1>5, <1>7, <1>10, <1>18, <1>19 DEF n

LEMMA ResolveMoney ==
  ASSUME MoneyInv, NEW i \in 1..Len(txs), txs[i].state = "flying",
         NEW st \in {"landed", "dead"}, txs' = [txs EXCEPT ![i].state = st],
         UNCHANGED streams
  PROVE  /\ PayoutInv' /\ CreditInv' /\ CreditedOnce' /\ BalanceInv'
         /\ SumTo(Outs, Len(txs))' = SumTo(Paids, Len(wds))'
<1>1. TypeInv /\ PayoutInv /\ FloatInv /\ CreditInv /\ BalanceInv /\ CreditedOnce
  BY DEF MoneyInv
<1>2. credits' = credits /\ wds' = wds
  BY DEF streams
<1>3. /\ Len(txs') = Len(txs) /\ DOMAIN txs' = DOMAIN txs
      /\ \A k \in 1..Len(txs) :
              /\ txs'[k].kind = txs[k].kind /\ txs'[k].who = txs[k].who
              /\ txs'[k].amount = txs[k].amount /\ txs'[k].payers = txs[k].payers
              /\ k # i => txs'[k].state = txs[k].state
      /\ txs'[i].state = st
      /\ \A k \in 1..Len(txs) : In(k) <= In(k)'
      /\ SumTo(Outs, Len(txs))' = SumTo(Outs, Len(txs)) + Out(i)'
      /\ In(i)' \in Nat /\ Out(i)' \in Nat
  BY <1>1, Resolve
<1>4. /\ Len(txs) \in Nat /\ DOMAIN txs = 1..Len(txs)
      /\ \A k \in 1..Len(txs) : In(k) \in Nat /\ txs[k].amount \in Nat
  BY <1>1, TxFacts
<1>5. \A k : k # i => (Landed(k)' <=> Landed(k))
  BY <1>3, <1>4 DEF Landed
<1>6. \A k : Landed(k) => Landed(k)'
  BY <1>3, <1>4, <1>5 DEF Landed
<1>7. ~Landed(i) /\ (Landed(i)' <=> st = "landed")
  BY <1>3, <1>4 DEF Landed
<1>8. PayoutInv'
  <2>1. \A w \in 1..Len(wds) :
       /\ wds[w].amount > Fee
       /\ wds[w].tx # 0 =>
            /\ wds[w].tx \in 1..Len(txs)'
            /\ (txs[wds[w].tx].kind = "payout")' /\ txs[wds[w].tx].amount' = Net(w)
       /\ wds[w].status = "settled" => Landed(wds[w].tx)'
    BY <1>1, <1>2, <1>3, <1>6 DEF PayoutInv
  <2>2. \A k \in 1..Len(txs)' : txs[k].kind' = "payout" => \E w \in 1..Len(wds) : wds[w].tx = k
    BY <1>1, <1>3 DEF PayoutInv
  <2>3. \A v, w \in 1..Len(wds) : wds[v].tx = wds[w].tx /\ wds[v].tx # 0 => v = w
    BY <1>1 DEF PayoutInv
  <2>4. \A w : Net(w)' = Net(w)
    BY <1>2 DEF Net
  <2> QED BY <1>2, <2>1, <2>2, <2>3, <2>4 DEF PayoutInv
<1>9. CreditInv'
  <2>1. PICK part \in [1..Len(txs) -> Nat] :
        /\ SumTo(Amts, Len(credits)) = SumTo(part, Len(txs))
        /\ \A k \in 1..Len(txs) : part[k] <= In(k) /\ (~Credited(k) => part[k] = 0)
    BY <1>1 DEF CreditInv
  <2>2. \A k : Credited(k)' = Credited(k)
    BY <1>2 DEF Credited
  <2>3. \A k \in 1..Len(txs) : In(k)' \in Int
    BY <1>3, <1>4 DEF In, Brings
  <2>4. \A k \in 1..Len(txs) : part[k] <= In(k)'
    BY <1>3, <1>4, <2>1, <2>3
  <2>5. Amts' = Amts
    BY <1>1, <1>2, <1>3, AmtsKept
  <2>6. SumTo(Amts, Len(credits))' = SumTo(part, Len(txs))
    BY <1>2, <2>1, <2>5
  <2> QED BY <1>3, <2>1, <2>2, <2>4, <2>6 DEF CreditInv
<1>10. CreditedOnce'
  <2>1. \A k : Landed(k) => /\ txs'[k].kind = txs[k].kind /\ txs'[k].payers = txs[k].payers
                             /\ txs'[k].amount = txs[k].amount
    BY <1>3, <1>4 DEF Landed
  <2> QED BY <1>1, <1>2, <1>6, <2>1 DEF CreditedOnce
<1>11. BalanceInv'
  BY <1>1, <1>2 DEF BalanceInv, Balance, Deposited, Debited
<1>12. SumTo(Outs, Len(txs)) = SumTo(Paids, Len(wds)) /\ SumTo(Outs, Len(txs)) \in Int
  BY <1>1, BoxTypes DEF FloatInv
<1>13. CASE st = "landed" /\ txs[i].kind = "payout"
  <2>1. PICK w \in 1..Len(wds) : wds[w].tx = i
    BY <1>1, <1>13 DEF PayoutInv
  <2>2. i # 0
    BY <1>4
  <2>3. \A v \in 1..Len(wds) : v # w => wds[v].tx # i
    BY <1>1, <2>1, <2>2 DEF PayoutInv
  <2>4. \A v \in 1..Len(wds) : v # w => PaidBy(v)' = PaidBy(v)
    BY <1>2, <1>5, <2>3 DEF PaidBy, Net
  <2>5. PaidBy(w) = 0 /\ PaidBy(w)' = Net(w)
    BY <1>2, <1>7, <1>13, <2>1 DEF PaidBy, Net
  <2>6. Out(i)' = Net(w)
    <3>1. txs[i].amount = Net(w)
      BY <1>1, <2>1, <2>2 DEF PayoutInv
    <3>2. Out(i)' = txs'[i].amount
      BY <1>3, <1>13 DEF Out
    <3> QED BY <1>3, <3>1, <3>2
  <2>7. Len(wds) \in Nat /\ Paids \in [1..Len(wds) -> Int]
    BY <1>1, LedgerFacts
  <2>8. Paids' = [v \in 1..Len(wds) |-> PaidBy(v)'] /\ Paids = [v \in 1..Len(wds) |-> PaidBy(v)]
    BY <1>2 DEF Paids
  <2>9. Net(w) \in Int
    BY <1>3, <2>6
  <2>10. \A v \in 1..Len(wds) : PaidBy(v) \in Int
    BY <2>7, <2>8
  <2>11. \A v \in 1..Len(wds) : PaidBy(v)' \in Int
    BY <2>4, <2>5, <2>9, <2>10
  <2>12. Paids' \in [1..Len(wds) -> Int]
    BY <2>8, <2>11
  <2>13. \A v \in 1..Len(wds) : v # w => Paids'[v] = Paids[v]
    BY <2>4, <2>8
  <2>14. Paids'[w] = Net(w) /\ Paids[w] = 0
    BY <2>5, <2>8
  <2>15. SumTo(Paids', Len(wds)) = SumTo(Paids, Len(wds)) + (Paids'[w] - Paids[w])
    BY <2>7, <2>12, <2>13, SumUpdate
  <2>16. SumTo(Paids', Len(wds)) = SumTo(Paids, Len(wds)) + Out(i)'
    BY <2>6, <2>9, <2>14, <2>15
  <2>17. SumTo(Paids, Len(wds))' = SumTo(Paids', Len(wds))
    BY <1>2
  <2>18. SumTo(Outs, Len(txs))' = SumTo(Paids, Len(wds))'
    BY <1>3, <1>12, <2>16, <2>17
  <2> QED BY <1>8, <1>9, <1>10, <1>11, <2>18
<1>14. CASE ~(st = "landed" /\ txs[i].kind = "payout")
  <2>1. Out(i)' = 0
    BY <1>3, <1>14 DEF Out
  <2>2. ASSUME NEW w \in 1..Len(wds) PROVE Landed(wds[w].tx)' <=> Landed(wds[w].tx)
    <3>1. CASE wds[w].tx # i
      BY <3>1, <1>2, <1>5 DEF Landed
    <3>2. CASE wds[w].tx = i
      <4>1. txs[i].kind = "payout"
        BY <3>2, <1>1, <1>4 DEF PayoutInv
      <4> QED BY <3>2, <4>1, <1>2, <1>7, <1>14 DEF Landed
    <3> QED BY <3>1, <3>2
  <2>3. Paids' = Paids
    BY <1>2, <2>2 DEF Paids, PaidBy, Net
  <2>4. SumTo(Outs, Len(txs))' = SumTo(Paids, Len(wds))'
    BY <1>2, <1>3, <1>12, <2>1, <2>3
  <2> QED BY <1>8, <1>9, <1>10, <1>11, <2>4
<1> QED BY <1>13, <1>14

LEMMA DieMoney ==
  ASSUME MoneyInv, NEW i \in DOMAIN txs, Die(i)
  PROVE  MoneyInv'
<1>1. TypeInv /\ PayoutInv /\ FloatInv
  BY DEF MoneyInv
<1>2. /\ i \in 1..Len(txs) /\ txs[i].state = "flying" /\ txs' = [txs EXCEPT ![i].state = "dead"]
      /\ landed' = landed /\ final' = final /\ credits' = credits /\ wds' = wds
      /\ UNCHANGED streams
  BY <1>1, TxFacts DEF Die, streams
<1>3. /\ PayoutInv' /\ CreditInv' /\ CreditedOnce' /\ BalanceInv'
      /\ SumTo(Outs, Len(txs))' = SumTo(Paids, Len(wds))'
  BY <1>2, ResolveMoney
<1>4. /\ txs' \in Seq(Tx) /\ Len(txs') = Len(txs)
      /\ \A k \in 1..Len(txs) :
           /\ txs'[k].kind = txs[k].kind /\ txs'[k].who = txs[k].who
           /\ txs'[k].amount = txs[k].amount
           /\ k # i => txs'[k].state = txs[k].state
      /\ txs'[i].state = "dead"
      /\ SumTo(Ins, Len(txs))' = SumTo(Ins, Len(txs)) + In(i)'
      /\ SumTo(Outs, Len(txs))' = SumTo(Outs, Len(txs)) + Out(i)'
  BY <1>1, <1>2, Resolve
<1>5. In(i)' = 0 /\ Out(i)' = 0
  BY <1>4 DEF In, Brings, Out
<1>6. TypeInv'
  BY <1>1, <1>2, <1>4 DEF TypeInv
<1>7. FloatMoves' = FloatMoves /\ \A p : WalletMoves(p)' = WalletMoves(p)
  BY <1>1, <1>2, <1>4, NothingLanded
<1>8. /\ FloatAt(Len(landed))' = FloatAt(Len(landed))
      /\ \A p : WalletAt(p, Len(landed))' = WalletAt(p, Len(landed))
  BY <1>1, <1>2, <1>6, <1>7, MoveFacts, MovesNext DEF MovesAreSums
<1>9. FloatInv'
  BY <1>1, <1>2, <1>3, <1>4, <1>5, <1>8, BoxTypes DEF FloatInv
<1> QED BY <1>3, <1>6, <1>9 DEF MoneyInv

LEMMA LandMoney ==
  ASSUME MoneyInv, NEW i \in DOMAIN txs, Land(i)
  PROVE  MoneyInv'
<1> DEFINE m == Len(landed)
<1>1. TypeInv /\ PayoutInv /\ FloatInv
  BY DEF MoneyInv
<1>2. /\ i \in 1..Len(txs) /\ txs[i].state = "flying" /\ txs' = [txs EXCEPT ![i].state = "landed"]
      /\ landed' = Append(landed, i) /\ final' = final /\ credits' = credits /\ wds' = wds
      /\ UNCHANGED streams
  BY <1>1, TxFacts DEF Land, streams
<1>3. txs[i].amount <= IF txs[i].kind = "sweep" THEN WalletAt(txs[i].who, m) ELSE FloatAt(m)
  BY DEF Land
<1>4. /\ PayoutInv' /\ CreditInv' /\ CreditedOnce' /\ BalanceInv'
      /\ SumTo(Outs, Len(txs))' = SumTo(Paids, Len(wds))'
  BY <1>2, ResolveMoney
<1>5. /\ txs' \in Seq(Tx) /\ Len(txs') = Len(txs)
      /\ \A k \in 1..Len(txs) :
           /\ txs'[k].kind = txs[k].kind /\ txs'[k].who = txs[k].who
           /\ txs'[k].amount = txs[k].amount
           /\ k # i => txs'[k].state = txs[k].state
      /\ txs'[i].state = "landed"
      /\ SumTo(Ins, Len(txs))' = SumTo(Ins, Len(txs)) + In(i)'
      /\ SumTo(Outs, Len(txs))' = SumTo(Outs, Len(txs)) + Out(i)'
      /\ In(i)' \in Nat /\ Out(i)' \in Nat
  BY <1>1, <1>2, Resolve
<1>6. /\ landed \in Seq(Nat) /\ i \in Nat /\ final \in 0..m
      /\ \A k \in 1..m : landed[k] \in 1..Len(txs) /\ txs[landed[k]].state = "landed"
  BY <1>1, <1>2, TxFacts DEF TypeInv
<1>7. /\ landed' \in Seq(Nat) /\ m \in Nat /\ Len(landed') = m + 1
      /\ \A k \in 1..m : landed'[k] = landed[k]
      /\ landed'[m + 1] = i
  BY <1>2, <1>6, Appended
<1>8. \A k \in 1..Len(txs) : txs[k].amount \in Nat /\ txs[k].kind \in Kinds
  BY <1>1, TxFacts
<1>9. SumTo(FloatMoves, m) = FloatAt(m) /\ \A p : SumTo(WalletMoves(p), m) = WalletAt(p, m)
  BY <1>1, MoveFacts
<1>10. FloatMoves \in [1..m -> Int] /\ \A p : WalletMoves(p) \in [1..m -> Int]
  BY <1>1, MoveFacts
<1>11. FloatAt(m) \in Int /\ FloatAt(m) >= 0 /\ \A p \in Players : WalletAt(p, m) \in Int /\ WalletAt(p, m) >= 0
  BY <1>1, BoxTypes DEF FloatInv
<1>12. FloatAt(m) = SumTo(Ins, Len(txs)) - SumTo(Outs, Len(txs))
  BY <1>1 DEF FloatInv
<1> HIDE DEF m
<1>13. \A k \in 1..(m+1) : k \in 1..m \/ k = m + 1
  BY <1>7
<1>14. TypeInv'
  <2>1. \A k \in 1..(m+1) : landed'[k] \in 1..Len(txs) /\ txs'[landed'[k]].state = "landed"
    BY <1>2, <1>5, <1>6, <1>7, <1>13
  <2>2. final' \in 0..(m+1)
    BY <1>2, <1>6, <1>7
  <2>3. credits \in Seq(Credit) /\ wds \in Seq(Wd)
    BY <1>1 DEF TypeInv
  <2> QED BY <1>2, <1>5, <1>7, <2>1, <2>2, <2>3 DEF TypeInv
<1>15. MovesAreSums'
  BY <1>14, MovesNext
<1>16. /\ FloatMoves' \in [1..(m+1) -> Int]
       /\ FloatAt(Len(landed))' = SumTo(FloatMoves', m + 1)
       /\ \A p : WalletMoves(p)' \in [1..(m+1) -> Int]
       /\ \A p : WalletAt(p, Len(landed))' = SumTo(WalletMoves(p)', m + 1)
  BY <1>7, <1>15 DEF MovesAreSums
<1>17. FloatMoves' = [k \in 1..(m+1) |-> FloatMove(k)']
  BY <1>7 DEF FloatMoves
<1>18. \A p : WalletMoves(p)' = [k \in 1..(m+1) |-> WalletMove(p, k)']
  BY <1>7 DEF WalletMoves
<1>29. ASSUME NEW k \in 1..m
       PROVE  FloatMove(k)' = FloatMove(k) /\ \A p : WalletMove(p, k)' = WalletMove(p, k)
  <2>1. landed'[k] = landed[k] /\ landed[k] \in 1..Len(txs)
    BY <1>6, <1>7
  <2>2. /\ txs'[landed[k]].kind = txs[landed[k]].kind /\ txs'[landed[k]].who = txs[landed[k]].who
        /\ txs'[landed[k]].amount = txs[landed[k]].amount
    BY <1>5, <2>1
  <2> QED BY ONLY <2>1, <2>2, MovesKept
<1>30. \A k \in 1..m : k \in 1..(m+1) /\ k \in 1..Len(landed)
  BY <1>7 DEF m
<1>19. \A k \in 1..m : FloatMoves'[k] = FloatMoves[k]
  BY ONLY <1>17, <1>29, <1>30 DEF FloatMoves
<1>20. \A p : \A k \in 1..m : WalletMoves(p)'[k] = WalletMoves(p)[k]
  <2> SUFFICES ASSUME NEW p, NEW k \in 1..m PROVE WalletMoves(p)'[k] = WalletMoves(p)[k]
    OBVIOUS
  <2>1. k \in 1..(m+1) /\ k \in 1..Len(landed)
    BY <1>30
  <2>2. WalletMoves(p)'[k] = WalletMove(p, k)' /\ WalletMoves(p)[k] = WalletMove(p, k)
    BY ONLY <1>18, <2>1 DEF WalletMoves
  <2> QED BY <2>2, <1>29
<1>21. m + 1 \in 1..(m+1)
  BY <1>7
<1>22. FloatMoves'[m+1] = In(i)' - Out(i)'
  <2>1. FloatMoves'[m+1] = (CASE txs'[i].kind \in {"sweep", "direct"} -> txs'[i].amount
                              [] txs'[i].kind = "payout" -> -txs'[i].amount [] OTHER -> 0)
    BY <1>7, <1>17, <1>21 DEF FloatMove
  <2>2. CASE txs[i].kind \in {"sweep", "direct"}
    BY <2>1, <2>2, <1>2, <1>5, <1>8 DEF In, Brings, Out
  <2>3. CASE txs[i].kind = "payout"
    BY <2>1, <2>3, <1>2, <1>5, <1>8 DEF In, Brings, Out
  <2>4. CASE txs[i].kind \in {"arrival", "foreign"}
    BY <2>1, <2>4, <1>2, <1>5, <1>8 DEF In, Brings, Out
  <2> QED BY <2>2, <2>3, <2>4, <1>2, <1>8 DEF Kinds
<1>23. SumTo(FloatMoves', m + 1) = SumTo(FloatMoves, m) + FloatMoves'[m+1]
  BY <1>7, <1>10, <1>16, <1>19, SumAppend
<1>24. FloatAt(Len(landed))' = FloatAt(m) + (In(i)' - Out(i)')
  BY <1>9, <1>16, <1>22, <1>23
<1>25. FloatAt(Len(landed))' >= 0
  <2>1. CASE txs[i].kind # "payout"
    <3>1. Out(i)' = 0
      BY <2>1, <1>2, <1>5 DEF Out
    <3> QED BY <3>1, <1>5, <1>11, <1>24
  <2>2. CASE txs[i].kind = "payout"
    <3>1. In(i)' = 0 /\ Out(i)' <= FloatAt(m)
      BY <2>2, <1>2, <1>3, <1>5, <1>8, <1>11 DEF In, Brings, Out
    <3> QED BY <3>1, <1>5, <1>11, <1>24
  <2> QED BY <2>1, <2>2
<1>26. ASSUME NEW p \in Players PROVE WalletAt(p, Len(landed))' >= 0
  <2>1. WalletMoves(p) \in [1..m -> Int] /\ WalletMoves(p)' \in [1..(m+1) -> Int]
    BY <1>10, <1>16
  <2>2. \A k \in 1..m : WalletMoves(p)'[k] = WalletMoves(p)[k]
    BY <1>20
  <2>3. SumTo(WalletMoves(p)', m + 1) = SumTo(WalletMoves(p), m) + WalletMoves(p)'[m+1]
    BY <1>7, <2>1, <2>2, SumAppend
  <2>4. WalletMoves(p)'[m+1] =
          (IF txs'[i].who # p THEN 0 ELSE IF txs'[i].kind = "sweep" THEN -txs'[i].amount ELSE txs'[i].amount)
    BY <1>7, <1>18, <1>21 DEF WalletMove
  <2> DEFINE v == WalletMoves(p)'[m+1]
             x == WalletAt(p, m)
             a == txs[i].amount
  <2>5. WalletAt(p, Len(landed))' = x + v
    BY <1>9, <1>16, <2>3
  <2>6. x \in Int /\ x >= 0 /\ a \in Nat
    BY <1>2, <1>8, <1>11
  <2>7. \/ v = 0
        \/ v = a
        \/ v = -a /\ a <= x
    <3>1. txs'[i].who = txs[i].who /\ txs'[i].kind = txs[i].kind /\ txs'[i].amount = a
      BY <1>2, <1>5
    <3>2. txs[i].kind = "sweep" /\ txs[i].who = p => a <= x
      BY <1>3
    <3> QED BY <2>4, <3>1, <3>2, Zenon
  <2> HIDE DEF v, x, a
  <2> QED BY <2>5, <2>6, <2>7
<1>27. FloatAt(Len(landed))' = SumTo(Ins, Len(txs))' - SumTo(Outs, Len(txs))'
  <2>1. SumTo(Ins, Len(txs)) \in Int /\ SumTo(Outs, Len(txs)) \in Int
    BY <1>1, BoxTypes
  <2> QED BY <2>1, <1>5, <1>12, <1>24
<1>28. FloatInv'
  BY <1>4, <1>25, <1>26, <1>27 DEF FloatInv
<1> QED BY <1>4, <1>14, <1>28 DEF MoneyInv

LEMMA FinaliseMoney ==
  ASSUME MoneyInv, Finalise
  PROVE  MoneyInv'
<1>1. TypeInv /\ PayoutInv /\ FloatInv /\ CreditInv /\ BalanceInv /\ CreditedOnce
  BY DEF MoneyInv
<1>2. /\ final < Len(landed) /\ final' = final + 1
      /\ txs' = txs /\ landed' = landed /\ credits' = credits /\ wds' = wds
  BY DEF Finalise, streams
<1>3. TypeInv'
  BY <1>1, <1>2, MoveFacts DEF TypeInv
<1>4. PayoutInv'
  BY <1>1, <1>2 DEF PayoutInv, Landed, Net
<1>5. Ins' = Ins /\ Outs' = Outs /\ Paids' = Paids /\ Amts' = Amts
  BY <1>1, <1>2, AmtsKept DEF Ins, Outs, Paids, In, Brings, Out, PaidBy, Landed, Net
<1>6. FloatInv'
  BY <1>1, <1>2, <1>5 DEF FloatInv, FloatAt, WalletAt
<1>7. \A k : In(k)' = In(k) /\ Credited(k)' = Credited(k)
  BY <1>2 DEF In, Brings, Credited
<1>8. CreditInv'
  BY <1>1, <1>2, <1>5, <1>7 DEF CreditInv
<1>9. BalanceInv' /\ CreditedOnce'
  BY <1>1, <1>2 DEF BalanceInv, CreditedOnce, Balance, Deposited, Debited, Landed
<1> QED BY <1>3, <1>4, <1>6, <1>8, <1>9 DEF MoneyInv

-----------------------------------------------------------------------------
(* The balances as sums over the events *)

DepositsOf(p) == [k \in 1..Len(credits) |-> IF credits[k].who = p THEN credits[k].amount ELSE 0]
DebitsOf(p) ==
  [w \in 1..Len(wds) |->
     IF wds[w].who = p /\ wds[w].status \in {"initiated", "settled"} THEN wds[w].amount ELSE 0]
BalancesAreSums ==
  \A p : /\ DepositsOf(p) \in [1..Len(credits) -> Int] /\ DebitsOf(p) \in [1..Len(wds) -> Int]
         /\ SumTo(DepositsOf(p), Len(credits)) \in Int /\ SumTo(DebitsOf(p), Len(wds)) \in Int
         /\ Balance(p) = SumTo(DepositsOf(p), Len(credits)) - SumTo(DebitsOf(p), Len(wds))

LEMMA BalanceFacts == TypeInv => BalancesAreSums
<1> SUFFICES ASSUME TypeInv, NEW p
             PROVE  /\ DepositsOf(p) \in [1..Len(credits) -> Int] /\ DebitsOf(p) \in [1..Len(wds) -> Int]
                    /\ SumTo(DepositsOf(p), Len(credits)) \in Int /\ SumTo(DebitsOf(p), Len(wds)) \in Int
                    /\ Balance(p) = SumTo(DepositsOf(p), Len(credits)) - SumTo(DebitsOf(p), Len(wds))
  BY DEF BalancesAreSums
<1>1. /\ Len(credits) \in Nat /\ Len(wds) \in Nat
      /\ DOMAIN credits = 1..Len(credits) /\ DOMAIN wds = 1..Len(wds)
      /\ \A k \in 1..Len(credits) : credits[k].amount \in Nat
      /\ \A w \in 1..Len(wds) : wds[w].amount \in Nat
  BY LedgerFacts
<1>2. DepositsOf(p) \in [1..Len(credits) -> Int] /\ DebitsOf(p) \in [1..Len(wds) -> Int]
  BY <1>1 DEF DepositsOf, DebitsOf
<1>3. SumTo(DepositsOf(p), Len(credits)) \in Int
  BY <1>1, <1>2, SumType
<1>4. SumTo(DebitsOf(p), Len(wds)) \in Int
  BY <1>1, <1>2, SumType
<1>5. Balance(p) = SumTo(DepositsOf(p), Len(credits)) - SumTo(DebitsOf(p), Len(wds))
  BY <1>1 DEF Balance, Deposited, Debited, DepositsOf, DebitsOf
<1> QED BY <1>2, <1>3, <1>4, <1>5

LEMMA BalancesNext == TypeInv' => BalancesAreSums'
<1>1. TypeInv => BalancesAreSums
  BY BalanceFacts
<1> QED BY <1>1, PTL

-----------------------------------------------------------------------------
(* A credit *)

LEMMA ConfirmMoney ==
  ASSUME MoneyInv, NEW p \in Players, NEW i, NEW a \in Nat,
         Final(i), p \in txs[i].payers, a <= txs[i].amount,
         ~DepositRefSeen(p, i),
         credits' = Append(credits, [who |-> p, proof |-> i, amount |-> a]),
         UNCHANGED <<chain, wds>>
  PROVE  MoneyInv'
<1> DEFINE n == Len(credits)
           e == [who |-> p, proof |-> i, amount |-> a]
<1>1. TypeInv /\ PayoutInv /\ FloatInv /\ CreditInv /\ BalanceInv /\ CreditedOnce
  BY DEF MoneyInv
<1>2. txs' = txs /\ landed' = landed /\ final' = final /\ wds' = wds
  BY DEF chain
<1>3. /\ i \in 1..Len(txs) /\ i \in Nat /\ Landed(i)
      /\ txs[i] \in Tx /\ txs[i].amount \in Nat
  <2>1. PICK k \in 1..final : landed[k] = i
    BY DEF Final
  <2>2. k \in 1..Len(landed)
    BY <2>1, <1>1, MoveFacts DEF TypeInv
  <2>3. i \in 1..Len(txs) /\ txs[i].state = "landed"
    BY <2>1, <2>2, <1>1 DEF TypeInv
  <2> QED BY <2>3, <1>1, TxFacts DEF Landed
<1>4. txs[i].kind \in {"sweep", "direct"} => In(i) = txs[i].amount
  BY <1>3 DEF In, Brings, Landed
<1>5. credits \in Seq(Credit) /\ e \in Credit
  BY <1>1, <1>3 DEF TypeInv, Credit
<1>6. e.who = p /\ e.proof = i /\ e.amount = a
  OBVIOUS
<1> HIDE DEF e
<1>7. /\ credits' \in Seq(Credit) /\ n \in Nat /\ Len(credits') = n + 1
      /\ DOMAIN credits = 1..n /\ DOMAIN credits' = 1..(n + 1)
      /\ \A k \in 1..n : credits'[k] = credits[k]
      /\ credits'[n + 1] = e
  <2>1. credits' = Append(credits, e)
    BY DEF e
  <2> QED BY <2>1, <1>5, Appended
<1>8. n + 1 \in 1..(n+1) /\ \A k \in 1..(n+1) : k \in 1..n \/ k = n + 1
  BY <1>7
<1>9. TypeInv'
  BY <1>1, <1>2, <1>7 DEF TypeInv
<1>10. PayoutInv' /\ FloatInv'
  <2>1. Ins' = Ins /\ Outs' = Outs /\ Paids' = Paids
    BY <1>2 DEF Ins, Outs, Paids, In, Brings, Out, PaidBy, Landed, Net
  <2>2. PayoutInv'
    BY <1>1, <1>2 DEF PayoutInv, Landed, Net
  <2>3. FloatInv'
    BY <1>1, <1>2, <2>1 DEF FloatInv, FloatAt, WalletAt
  <2> QED BY <2>2, <2>3
<1>11. \A k \in 1..n : credits[k].proof = i => credits[k].who # p /\ credits[k].who \in txs[i].payers
  BY <1>1, <1>7 DEF CreditedOnce, DepositRefSeen
<1>15. Ordinary(txs[i]) \/ txs[i].kind = "sweep" =>
         txs[i].kind \in {"sweep", "direct"} /\ \A k \in 1..n : credits[k].proof # i
  <2>1. Ordinary(txs[i]) \/ txs[i].kind = "sweep" =>
          txs[i].kind \in {"sweep", "direct"} /\ \A q \in txs[i].payers : q = p
    BY <1>3 DEF Ordinary, Tx
  <2> QED BY <1>11, <2>1
<1>12. CreditedOnce'
  <2>1. SUFFICES ASSUME NEW k \in 1..(n+1)
        PROVE  /\ Landed(credits'[k].proof)
               /\ credits'[k].who \in txs[credits'[k].proof].payers
               /\ credits'[k].amount <= txs[credits'[k].proof].amount
               /\ \A j \in 1..(n+1) :
                    /\ credits'[j].proof = credits'[k].proof
                    /\ txs[credits'[k].proof].kind = "sweep" \/ credits'[j].who = credits'[k].who
                    => j = k
    BY <1>2, <1>7 DEF CreditedOnce, Landed
  <2>2. CASE k \in 1..n
    <3>1. /\ Landed(credits[k].proof) /\ credits[k].who \in txs[credits[k].proof].payers
          /\ credits[k].amount <= txs[credits[k].proof].amount
          /\ \A j \in 1..n :
               /\ credits[j].proof = credits[k].proof
               /\ txs[credits[k].proof].kind = "sweep" \/ credits[j].who = credits[k].who
               => j = k
      BY <2>2, <1>1, <1>7 DEF CreditedOnce
    <3>2. credits'[n+1].proof = credits[k].proof =>
            txs[credits[k].proof].kind # "sweep" /\ credits'[n+1].who # credits[k].who
      BY <2>2, <1>6, <1>7, <1>11, <1>15
    <3> QED BY <2>2, <3>1, <3>2, <1>7, <1>8
  <2>3. CASE k = n + 1
    <3>1. \A j \in 1..n : credits'[j].proof = i => txs[i].kind # "sweep" /\ credits'[j].who # p
      BY <1>7, <1>11, <1>15
    <3> QED BY <2>3, <3>1, <1>3, <1>6, <1>7, <1>8
  <2> QED BY <1>8, <2>2, <2>3
<1>13. CreditInv'
  <2>1. PICK part \in [1..Len(txs) -> Nat] :
        /\ SumTo(Amts, n) = SumTo(part, Len(txs))
        /\ \A k \in 1..Len(txs) : part[k] <= In(k) /\ (~Credited(k) => part[k] = 0)
    BY <1>1 DEF CreditInv
  <2> DEFINE b == IF Ordinary(txs[i]) THEN a ELSE 0
             new == [k \in 1..Len(txs) |-> IF k = i THEN part[i] + b ELSE part[k]]
  <2>2. Len(txs) \in Nat /\ b \in Nat /\ part[i] \in Nat
    BY <1>1, <1>3, <2>1, TxFacts
  <2>4. Ordinary(txs[i]) => txs[i].kind \in {"sweep", "direct"} /\ b = a /\ part[i] = 0
    <3>1. Ordinary(txs[i]) => ~Credited(i)
      BY <1>7, <1>15 DEF Credited
    <3> QED BY <1>3, <1>15, <2>1, <3>1
  <2>5. ~Ordinary(txs[i]) => b = 0
    OBVIOUS
  <2> HIDE DEF b
  <2>3. /\ new \in [1..Len(txs) -> Nat] /\ new[i] = part[i] + b
        /\ \A k \in 1..Len(txs) : k # i => new[k] = part[k]
    BY <1>3, <2>1, <2>2
  <2> HIDE DEF new
  <2>6. part \in [1..Len(txs) -> Int] /\ new \in [1..Len(txs) -> Int]
    BY <2>1, <2>3
  <2>7. SumTo(new, Len(txs)) = SumTo(part, Len(txs)) + (new[i] - part[i])
    BY <1>3, <2>2, <2>3, <2>6, SumUpdate
  <2>8. Amts \in [1..n -> Int]
    BY <1>1, LedgerFacts
  <2>9. Amts' = [k \in 1..(n+1) |-> Backed(k)'] /\ Amts = [k \in 1..n |-> Backed(k)]
    BY <1>7 DEF Amts
  <2>10. \A k \in 1..n : Backed(k)' = Backed(k) /\ Backed(k) \in Int
    <3>1. \A k \in 1..n : Backed(k) \in Int
      BY <2>8, <2>9
    <3> QED BY <3>1, <1>2, <1>7 DEF Backed, Ordinary
  <2>11. ASSUME NEW k, k = n + 1 PROVE Backed(k)' = b
    <3>1. credits'[k].proof = i /\ credits'[k].amount = a
      BY <1>6, <1>7, <2>11
    <3>2. Ordinary(txs'[i]) <=> Ordinary(txs[i])
      BY <1>2
    <3>3. Backed(k)' = (IF Ordinary(txs'[credits'[k].proof]) THEN credits'[k].amount ELSE 0)
      BY DEF Backed, Ordinary
    <3> QED BY <3>1, <3>2, <3>3 DEF b
  <2>14. Amts'[n+1] = b /\ \A k \in 1..n : Amts'[k] = Backed(k)' /\ Amts[k] = Backed(k)
    BY <1>8, <2>9, <2>11
  <2>17. \A k \in 1..(n+1) : Amts'[k] \in Int
    BY <1>8, <2>2, <2>10, <2>14
  <2>12. /\ Amts' \in [1..(n+1) -> Int] /\ Amts'[n+1] = b
         /\ \A k \in 1..n : Amts'[k] = Amts[k]
    BY <2>9, <2>10, <2>14, <2>17
  <2>13. SumTo(Amts', n + 1) = SumTo(Amts, n) + Amts'[n+1]
    BY <1>7, <2>8, <2>12, SumAppend
  <2>15. SumTo(part, Len(txs)) \in Int
    BY <2>2, <2>6, SumType
  <2>16. SumTo(Amts', n + 1) = SumTo(new, Len(txs))
    BY <2>1, <2>2, <2>3, <2>7, <2>12, <2>13, <2>15
  <2>19. SumTo(Amts, Len(credits))' = SumTo(new, Len(txs)')
    BY <1>2, <1>7, <2>16
  <2>18. ASSUME NEW k \in 1..Len(txs) PROVE new[k] <= In(k)' /\ (~Credited(k)' => new[k] = 0)
    <3>1. In(k)' = In(k)
      BY <1>2 DEF In, Brings
    <3>2. CASE k = i
      <4>1. Credited(i)'
        BY <1>6, <1>7, <1>8 DEF Credited
      <4>2. part[i] + b <= In(i)
        BY <1>3, <1>4, <2>1, <2>2, <2>4, <2>5
      <4> QED BY <3>1, <3>2, <4>1, <4>2, <2>3
    <3>3. CASE k # i
      <4>1. Credited(k) => Credited(k)'
        BY <1>7, <1>8 DEF Credited
      <4> QED BY <3>1, <3>3, <4>1, <2>1, <2>3
    <3> QED BY <3>2, <3>3
  <2> QED BY <1>2, <2>3, <2>18, <2>19 DEF CreditInv
<1>14. BalanceInv'
  <2>1. SUFFICES ASSUME NEW q \in Players PROVE Balance(q)' >= 0
    BY DEF BalanceInv
  <2>2. /\ DepositsOf(q) \in [1..n -> Int]
        /\ SumTo(DepositsOf(q), n) \in Int /\ SumTo(DebitsOf(q), Len(wds)) \in Int
        /\ Balance(q) = SumTo(DepositsOf(q), n) - SumTo(DebitsOf(q), Len(wds))
    BY <1>1, BalanceFacts DEF BalancesAreSums
  <2>3. BalancesAreSums'
    BY <1>9, BalancesNext
  <2>4. /\ DepositsOf(q)' \in [1..(n+1) -> Int]
        /\ Balance(q)' = SumTo(DepositsOf(q)', n + 1) - SumTo(DebitsOf(q)', Len(wds))
    BY <1>2, <1>7, <2>3 DEF BalancesAreSums
  <2>5. DebitsOf(q)' = DebitsOf(q)
    BY <1>2 DEF DebitsOf
  <2>6. DepositsOf(q)' = [k \in 1..(n+1) |-> IF credits'[k].who = q THEN credits'[k].amount ELSE 0]
    BY <1>7 DEF DepositsOf
  <2>7. DepositsOf(q) = [k \in 1..n |-> IF credits[k].who = q THEN credits[k].amount ELSE 0]
    BY DEF DepositsOf
  <2>8. \A k \in 1..n : DepositsOf(q)'[k] = DepositsOf(q)[k]
    BY <1>7, <1>8, <2>6, <2>7
  <2>9. SumTo(DepositsOf(q)', n + 1) = SumTo(DepositsOf(q), n) + DepositsOf(q)'[n+1]
    BY <1>7, <2>2, <2>4, <2>8, SumAppend
  <2>10. DepositsOf(q)'[n+1] = (IF p = q THEN a ELSE 0)
    BY <1>6, <1>7, <1>8, <2>6
  <2>11. DepositsOf(q)'[n+1] \in Nat
    BY <2>10
  <2>12. Balance(q) >= 0
    BY <1>1, <2>1 DEF BalanceInv
  <2> QED BY <2>2, <2>4, <2>5, <2>9, <2>11, <2>12
<1> QED BY <1>9, <1>10, <1>12, <1>13, <1>14 DEF MoneyInv

-----------------------------------------------------------------------------
(* A debit, its payout and its outcome *)

\* A step that changes the withdrawals only.
LEMMA WithdrawalMoney ==
  ASSUME MoneyInv, wds' \in Seq(Wd), UNCHANGED <<chain, credits>>,
         PayoutInv', SumTo(Paids, Len(wds))' = SumTo(Paids, Len(wds)), BalanceInv'
  PROVE  MoneyInv'
<1>1. TypeInv /\ FloatInv /\ CreditInv /\ CreditedOnce
  BY DEF MoneyInv
<1>2. txs' = txs /\ landed' = landed /\ final' = final /\ credits' = credits
  BY DEF chain
<1>3. TypeInv'
  BY <1>1, <1>2 DEF TypeInv
<1>4. Ins' = Ins /\ Outs' = Outs /\ Amts' = Amts
  BY <1>1, <1>2, AmtsKept DEF Ins, Outs, In, Brings, Out
<1>5. FloatInv'
  BY <1>1, <1>2, <1>4 DEF FloatInv, FloatAt, WalletAt
<1>6. \A k : In(k)' = In(k) /\ Credited(k)' = Credited(k)
  BY <1>2 DEF In, Brings, Credited
<1>7. CreditInv'
  BY <1>1, <1>2, <1>4, <1>6 DEF CreditInv
<1>8. CreditedOnce'
  BY <1>1, <1>2 DEF CreditedOnce, Landed
<1> QED BY <1>3, <1>5, <1>7, <1>8 DEF MoneyInv

LEMMA DebitMoney ==
  ASSUME MoneyInv, NEW p \in Players, NEW a \in Nat, ~Refused(p, a),
         wds' = Append(wds, [who |-> p, amount |-> a, status |-> "initiated", tx |-> 0]),
         UNCHANGED <<chain, credits>>
  PROVE  MoneyInv'
<1> DEFINE n == Len(wds)
           e == [who |-> p, amount |-> a, status |-> "initiated", tx |-> 0]
<1>1. TypeInv /\ PayoutInv /\ FloatInv /\ BalanceInv
  BY DEF MoneyInv
<1>2. txs' = txs /\ landed' = landed /\ final' = final /\ credits' = credits
  BY DEF chain
<1>3. wds \in Seq(Wd) /\ e \in Wd
  BY <1>1 DEF TypeInv, Wd
<1>4. e.who = p /\ e.amount = a /\ e.status = "initiated" /\ e.tx = 0
  OBVIOUS
<1> HIDE DEF e
<1>5. /\ wds' \in Seq(Wd) /\ n \in Nat /\ Len(wds') = n + 1
      /\ DOMAIN wds = 1..n /\ DOMAIN wds' = 1..(n + 1)
      /\ \A w \in 1..n : wds'[w] = wds[w]
      /\ wds'[n + 1] = e
  <2>1. wds' = Append(wds, e)
    BY DEF e
  <2> QED BY <2>1, <1>3, Appended
<1>6. n + 1 \in 1..(n+1) /\ 1..n \subseteq 1..(n+1) /\ \A w \in 1..(n+1) : w \in 1..n \/ w = n + 1
  BY <1>5
<1>7. /\ \A w \in 1..n : wds[w].amount \in Nat /\ Net(w) \in Int
      /\ Paids \in [1..n -> Int]
  BY <1>1, LedgerFacts
<1>8. DOMAIN txs = 1..Len(txs)
  BY <1>1, TxFacts
<1>9. /\ SumTo(Paids, n) \in Int
      /\ \A q : /\ DepositsOf(q) \in [1..Len(credits) -> Int] /\ DebitsOf(q) \in [1..n -> Int]
                /\ SumTo(DepositsOf(q), Len(credits)) \in Int /\ SumTo(DebitsOf(q), n) \in Int
                /\ Balance(q) = SumTo(DepositsOf(q), Len(credits)) - SumTo(DebitsOf(q), n)
  BY <1>1, BoxTypes, BalanceFacts DEF BalancesAreSums
<1>10. a > Fee /\ Balance(p) >= a
  BY <1>9, LedgerAssumption DEF Refused
<1>11. PayoutInv'
  <2>1. ASSUME NEW w \in 1..(n+1)
        PROVE  /\ wds'[w].amount > Fee
               /\ wds'[w].tx # 0 =>
                    /\ wds'[w].tx \in 1..Len(txs)
                    /\ txs[wds'[w].tx].kind = "payout"
                    /\ txs[wds'[w].tx].amount = wds'[w].amount - Fee
               /\ wds'[w].status = "settled" => Landed(wds'[w].tx)
    <3>1. CASE w \in 1..n
      <4>1. wds'[w] = wds[w]
        BY <3>1, <1>5
      <4> QED BY <3>1, <4>1, <1>1 DEF PayoutInv, Net
    <3>2. CASE w = n + 1
      BY <3>2, <1>4, <1>5, <1>10
    <3> QED BY <3>1, <3>2, <1>6
  <2>2. \A v, w \in 1..(n+1) : wds'[v].tx = wds'[w].tx /\ wds'[v].tx # 0 => v = w
    <3> SUFFICES ASSUME NEW v \in 1..(n+1), NEW w \in 1..(n+1),
                        wds'[v].tx = wds'[w].tx, wds'[v].tx # 0
                 PROVE  v = w
      OBVIOUS
    <3>1. v \in 1..n /\ w \in 1..n
      BY <1>4, <1>5, <1>6
    <3> QED BY <3>1, <1>1, <1>5 DEF PayoutInv
  <2>3. \A k \in 1..Len(txs) : txs[k].kind = "payout" => \E w \in 1..(n+1) : wds'[w].tx = k
    <3> SUFFICES ASSUME NEW k \in 1..Len(txs), txs[k].kind = "payout"
                 PROVE  \E w \in 1..(n+1) : wds'[w].tx = k
      OBVIOUS
    <3>1. PICK w \in 1..n : wds[w].tx = k
      BY <1>1 DEF PayoutInv
    <3> QED BY <3>1, <1>5, <1>6
  <2> QED BY <1>2, <1>5, <2>1, <2>2, <2>3 DEF PayoutInv, Net, Landed
<1>12. SumTo(Paids, Len(wds))' = SumTo(Paids, Len(wds))
  <2>1. Paids' = [w \in 1..(n+1) |-> PaidBy(w)'] /\ Paids = [w \in 1..n |-> PaidBy(w)]
    BY <1>5 DEF Paids
  <2>2. \A w \in 1..n : PaidBy(w)' = PaidBy(w)
    BY <1>2, <1>5 DEF PaidBy, Net, Landed
  <2>3. Paids'[n+1] = 0
    BY <1>2, <1>4, <1>5, <1>6, <1>8, <2>1 DEF PaidBy, Landed
  <2>4. \A w \in 1..n : Paids'[w] = Paids[w]
    BY <1>6, <2>1, <2>2
  <2>5. \A w \in 1..(n+1) : Paids'[w] \in Int
    BY <1>6, <1>7, <2>3, <2>4
  <2>6. Paids' \in [1..(n+1) -> Int]
    BY <2>1, <2>5
  <2>7. SumTo(Paids', n+1) = SumTo(Paids, n) + Paids'[n+1]
    BY <1>5, <1>7, <2>4, <2>6, SumAppend
  <2> QED BY <1>5, <1>9, <2>3, <2>7
<1>13. BalanceInv'
  <2> SUFFICES ASSUME NEW q \in Players PROVE Balance(q)' >= 0
    BY DEF BalanceInv
  <2>1. TypeInv'
    BY <1>1, <1>2, <1>5 DEF TypeInv
  <2>2. BalancesAreSums'
    BY <2>1, BalancesNext
  <2>3. /\ DebitsOf(q)' \in [1..(n+1) -> Int]
        /\ Balance(q)' = SumTo(DepositsOf(q)', Len(credits)) - SumTo(DebitsOf(q)', n+1)
    BY <1>2, <1>5, <2>2 DEF BalancesAreSums
  <2>4. DepositsOf(q)' = DepositsOf(q)
    BY <1>2 DEF DepositsOf
  <2>5. DebitsOf(q)' = [w \in 1..(n+1) |->
          IF wds'[w].who = q /\ wds'[w].status \in {"initiated", "settled"} THEN wds'[w].amount ELSE 0]
    BY <1>5 DEF DebitsOf
  <2>6. DebitsOf(q) = [w \in 1..n |->
          IF wds[w].who = q /\ wds[w].status \in {"initiated", "settled"} THEN wds[w].amount ELSE 0]
    BY DEF DebitsOf
  <2>7. \A w \in 1..n : DebitsOf(q)'[w] = DebitsOf(q)[w]
    BY <1>5, <1>6, <2>5, <2>6
  <2>8. DebitsOf(q) \in [1..n -> Int]
    BY <1>9
  <2>9. SumTo(DebitsOf(q)', n+1) = SumTo(DebitsOf(q), n) + DebitsOf(q)'[n+1]
    BY <1>5, <2>3, <2>7, <2>8, SumAppend
  <2>10. DebitsOf(q)'[n+1] = (IF p = q THEN a ELSE 0)
    BY <1>4, <1>5, <1>6, <2>5
  <2>11. Balance(q) >= 0
    BY <1>1 DEF BalanceInv
  <2>12. DebitsOf(q)'[n+1] \in Int /\ DebitsOf(q)'[n+1] <= Balance(q)
    BY <1>9, <1>10, <2>10, <2>11
  <2> DEFINE d == DebitsOf(q)'[n+1]
             x == SumTo(DepositsOf(q), Len(credits))
             y == SumTo(DebitsOf(q), n)
  <2>13. x \in Int /\ y \in Int /\ Balance(q) = x - y /\ Balance(q)' = x - (y + d) /\ d \in Int /\ d <= x - y
    BY <1>9, <2>3, <2>4, <2>9, <2>12
  <2> HIDE DEF x, y, d
  <2> QED BY <2>13
<1> QED BY <1>5, <1>11, <1>12, <1>13, WithdrawalMoney

\* A withdrawal is settled, or its debit given back.
LEMMA OutcomeMoney ==
  ASSUME MoneyInv, NEW x \in 1..Len(wds), wds[x].status = "initiated",
         NEW st \in {"settled", "reversed"}, st = "settled" => Landed(wds[x].tx),
         wds' = [wds EXCEPT ![x].status = st], UNCHANGED <<chain, credits>>
  PROVE  MoneyInv'
<1> DEFINE n == Len(wds)
           e == [who |-> wds[x].who, amount |-> wds[x].amount, status |-> st, tx |-> wds[x].tx]
<1>1. TypeInv /\ PayoutInv /\ FloatInv /\ BalanceInv
  BY DEF MoneyInv
<1>2. txs' = txs /\ landed' = landed /\ final' = final /\ credits' = credits
  BY DEF chain
<1>3. wds \in Seq(Wd) /\ wds[x] \in Wd
  BY <1>1, LedgerFacts DEF TypeInv
<1>4. e \in Wd /\ [wds[x] EXCEPT !.status = st] = e
  BY <1>3 DEF Wd
<1>5. wds' = [wds EXCEPT ![x] = e]
  BY <1>3, <1>4
<1>6. e.who = wds[x].who /\ e.amount = wds[x].amount /\ e.status = st /\ e.tx = wds[x].tx
  OBVIOUS
<1> HIDE DEF e
<1>7. /\ wds' \in Seq(Wd) /\ n \in Nat /\ Len(wds') = n
      /\ DOMAIN wds = 1..n /\ DOMAIN wds' = 1..n
      /\ \A w \in 1..n : wds'[w] = (IF w = x THEN e ELSE wds[w])
  <2>1. x \in 1..Len(wds)
    OBVIOUS
  <2> QED BY <1>3, <1>4, <1>5, <2>1, Replaced
<1>8. \A w \in 1..n : /\ wds'[w].who = wds[w].who /\ wds'[w].amount = wds[w].amount
                      /\ wds'[w].tx = wds[w].tx
                      /\ w # x => wds'[w].status = wds[w].status
                      /\ w = x => wds'[w].status = st
  BY <1>6, <1>7
<1>9. \A w \in 1..n : wds[w].amount \in Nat
  BY <1>1, LedgerFacts
<1>10. PayoutInv'
  <2>1. ASSUME NEW w \in 1..n
        PROVE  /\ wds'[w].amount > Fee
               /\ wds'[w].tx # 0 =>
                    /\ wds'[w].tx \in 1..Len(txs)
                    /\ txs[wds'[w].tx].kind = "payout"
                    /\ txs[wds'[w].tx].amount = wds'[w].amount - Fee
               /\ wds'[w].status = "settled" => Landed(wds'[w].tx)
    BY <1>1, <1>8 DEF PayoutInv, Net
  <2>2. \A v, w \in 1..n : wds'[v].tx = wds'[w].tx /\ wds'[v].tx # 0 => v = w
    BY <1>1, <1>8 DEF PayoutInv
  <2>3. \A k \in 1..Len(txs) : txs[k].kind = "payout" => \E w \in 1..n : wds'[w].tx = k
    BY <1>1, <1>8 DEF PayoutInv
  <2> QED BY <1>2, <1>7, <2>1, <2>2, <2>3 DEF PayoutInv, Net, Landed
<1>11. SumTo(Paids, Len(wds))' = SumTo(Paids, Len(wds))
  <2>1. \A w \in 1..n : PaidBy(w)' = PaidBy(w)
    BY <1>2, <1>8 DEF PaidBy, Net, Landed
  <2>2. Paids' = Paids
    BY <1>7, <2>1 DEF Paids
  <2> QED BY <1>7, <2>2
<1>12. BalanceInv'
  <2> SUFFICES ASSUME NEW q \in Players PROVE Balance(q)' >= 0
    BY DEF BalanceInv
  <2>1. TypeInv'
    BY <1>1, <1>2, <1>7 DEF TypeInv
  <2>2. BalancesAreSums'
    BY <2>1, BalancesNext
  <2>3. /\ DebitsOf(q)' \in [1..n -> Int] /\ SumTo(DebitsOf(q)', n) \in Int
        /\ Balance(q)' = SumTo(DepositsOf(q)', Len(credits)) - SumTo(DebitsOf(q)', n)
    BY <1>2, <1>7, <2>2 DEF BalancesAreSums
  <2>4. DepositsOf(q)' = DepositsOf(q)
    BY <1>2 DEF DepositsOf
  <2>5. /\ DebitsOf(q) \in [1..n -> Int] /\ SumTo(DebitsOf(q), n) \in Int
        /\ SumTo(DepositsOf(q), Len(credits)) \in Int
        /\ Balance(q) = SumTo(DepositsOf(q), Len(credits)) - SumTo(DebitsOf(q), n)
    BY <1>1, BalanceFacts DEF BalancesAreSums
  <2>6. DebitsOf(q)' = [w \in 1..n |->
          IF wds'[w].who = q /\ wds'[w].status \in {"initiated", "settled"} THEN wds'[w].amount ELSE 0]
    BY <1>7 DEF DebitsOf
  <2>7. DebitsOf(q) = [w \in 1..n |->
          IF wds[w].who = q /\ wds[w].status \in {"initiated", "settled"} THEN wds[w].amount ELSE 0]
    BY DEF DebitsOf
  <2>8. ASSUME NEW w \in 1..n PROVE DebitsOf(q)'[w] <= DebitsOf(q)[w]
    <3>1. CASE w = x
      BY <3>1, <1>8, <1>9, <2>6, <2>7
    <3>2. CASE w # x
      BY <3>2, <1>8, <1>9, <2>6, <2>7
    <3> QED BY <3>1, <3>2
  <2>9. SumTo(DebitsOf(q)', n) <= SumTo(DebitsOf(q), n)
    BY <1>7, <2>3, <2>5, <2>8, SumMonotone
  <2>10. Balance(q) >= 0
    BY <1>1 DEF BalanceInv
  <2> QED BY <2>3, <2>4, <2>5, <2>9, <2>10
<1> QED BY <1>7, <1>10, <1>11, <1>12, WithdrawalMoney

LEMMA SendMoney ==
  ASSUME MoneyInv, NEW x \in 1..Len(wds), wds[x].tx = 0, NEW e \in Tx,
         e.kind = "payout", e.state = "flying", e.amount = Net(x),
         txs' = Append(txs, e), wds' = [wds EXCEPT ![x].tx = Len(txs) + 1],
         UNCHANGED <<landed, final, credits>>
  PROVE  MoneyInv'
<1> DEFINE n == Len(wds)
           t == Len(txs)
           f == [who |-> wds[x].who, amount |-> wds[x].amount, status |-> wds[x].status, tx |-> t + 1]
<1>1. TypeInv /\ PayoutInv /\ FloatInv /\ CreditInv /\ BalanceInv /\ CreditedOnce
  BY DEF MoneyInv
<1>2. landed' = landed /\ final' = final /\ credits' = credits
  OBVIOUS
<1>3. /\ txs' \in Seq(Tx) /\ t \in Nat /\ Len(txs') = t + 1
      /\ DOMAIN txs = 1..t /\ DOMAIN txs' = 1..(t + 1)
      /\ \A i \in 1..t : txs'[i] = txs[i]
      /\ txs'[t + 1] = e /\ e.state # "landed"
      /\ SumTo(Ins, Len(txs))' = SumTo(Ins, Len(txs))
      /\ SumTo(Outs, Len(txs))' = SumTo(Outs, Len(txs))
  BY <1>1, GrowTxs
<1>4. wds \in Seq(Wd) /\ wds[x] \in Wd
  BY <1>1, LedgerFacts DEF TypeInv
<1>5. f \in Wd /\ [wds[x] EXCEPT !.tx = t + 1] = f
  <2>1. t + 1 \in Nat
    BY <1>3
  <2> HIDE DEF t
  <2>2. f \in Wd
    BY <1>4, <2>1 DEF Wd
  <2>3. \A y \in Wd, k \in Nat :
          [y EXCEPT !.tx = k] = [who |-> y.who, amount |-> y.amount, status |-> y.status, tx |-> k]
    BY ONLY DEF Wd
  <2> QED BY <1>4, <2>1, <2>2, <2>3
<1>6. wds' = [wds EXCEPT ![x] = f]
  BY <1>4, <1>5
<1>7. f.who = wds[x].who /\ f.amount = wds[x].amount /\ f.status = wds[x].status /\ f.tx = t + 1
  OBVIOUS
<1> HIDE DEF f
<1>8. /\ wds' \in Seq(Wd) /\ n \in Nat /\ Len(wds') = n
      /\ DOMAIN wds = 1..n /\ DOMAIN wds' = 1..n
      /\ \A w \in 1..n : wds'[w] = (IF w = x THEN f ELSE wds[w])
  <2>1. x \in 1..Len(wds) /\ wds \in Seq(Wd) /\ f \in Wd
    BY <1>4, <1>5
  <2>2. ASSUME NEW u, u = [wds EXCEPT ![x] = f]
        PROVE  /\ u \in Seq(Wd) /\ n \in Nat /\ Len(u) = n
               /\ DOMAIN wds = 1..n /\ DOMAIN u = 1..n
               /\ \A w \in 1..n : u[w] = (IF w = x THEN f ELSE wds[w])
    <3> HIDE DEF t
    <3> QED BY <2>1, <2>2, Replaced
  <2> HIDE DEF t, n
  <2> QED BY <1>6, <2>2, Zenon
<1>9. /\ \A w \in 1..n : /\ wds'[w].who = wds[w].who /\ wds'[w].amount = wds[w].amount
                         /\ wds'[w].status = wds[w].status
                         /\ w # x => wds'[w].tx = wds[w].tx
      /\ wds'[x].tx = t + 1
  BY <1>7, <1>8
<1>10. \A w \in 1..n : wds[w].amount \in Nat /\ wds[w].tx \in Nat
  BY <1>1, LedgerFacts
<1>11. \A w \in 1..n : wds[w].tx <= t
  BY <1>1, <1>3, <1>10 DEF PayoutInv
<1> HIDE DEF t, n
<1>12. \A k \in 1..t : k \in 1..(t+1)
  BY <1>3
<1>13. x \in 1..n /\ t + 1 \in 1..(t+1) /\ t + 1 # 0
  BY <1>3 DEF n
<1>14. e.amount = wds[x].amount - Fee
  BY DEF Net
<1>15. ASSUME NEW w \in 1..n, w # x
       PROVE  wds'[w].tx = wds[w].tx /\ (Landed(wds[w].tx)' <=> Landed(wds[w].tx))
  <2>1. wds'[w].tx = wds[w].tx /\ wds[w].tx \in Nat /\ wds[w].tx <= t
    BY <1>9, <1>10, <1>11, <1>15
  <2>2. wds[w].tx \in 1..(t+1) => wds[w].tx \in 1..t
    BY <2>1, <1>3
  <2> QED BY <2>1, <2>2, <1>3, <1>12 DEF Landed
<1>16. ~Landed(wds[x].tx) /\ ~Landed(wds[x].tx)'
  BY <1>3, <1>9, <1>13 DEF Landed
<1>17. PayoutInv'
  <2>1. ASSUME NEW w \in 1..n
        PROVE  /\ wds'[w].amount > Fee
               /\ wds'[w].tx # 0 =>
                    /\ wds'[w].tx \in 1..(t+1)
                    /\ txs'[wds'[w].tx].kind = "payout"
                    /\ txs'[wds'[w].tx].amount = wds'[w].amount - Fee
               /\ wds'[w].status = "settled" => Landed(wds[w].tx)'
    <3>1. wds'[w].amount > Fee
      BY <1>1, <1>9 DEF PayoutInv, n
    <3>2. CASE w = x
      <4>1. wds[x].status # "settled"
        BY <1>1, <1>13, <1>16 DEF PayoutInv, n
      <4> QED BY <3>1, <3>2, <4>1, <1>3, <1>9, <1>13, <1>14
    <3>3. CASE w # x
      <4>1. wds'[w].tx = wds[w].tx /\ (Landed(wds[w].tx)' <=> Landed(wds[w].tx))
        BY <3>3, <1>15
      <4>2. wds[w].tx # 0 =>
                    /\ wds[w].tx \in 1..t
                    /\ txs[wds[w].tx].kind = "payout"
                    /\ txs[wds[w].tx].amount = wds[w].amount - Fee
        BY <1>1 DEF PayoutInv, Net, n, t
      <4>3. wds[w].status = "settled" => Landed(wds[w].tx)
        BY <1>1 DEF PayoutInv, n
      <4> QED BY <3>1, <4>1, <4>2, <4>3, <1>3, <1>9, <1>12
    <3> QED BY <3>2, <3>3
  <2>2. ASSUME NEW v \in 1..n, NEW w \in 1..n, wds'[v].tx = wds'[w].tx, wds'[v].tx # 0
        PROVE  v = w
    <3>1. \A y \in 1..n : y # x => wds'[y].tx # t + 1
      BY <1>3, <1>9, <1>10, <1>11
    <3>2. CASE v = x \/ w = x
      BY <3>1, <3>2, <2>2, <1>9
    <3>3. CASE v # x /\ w # x
      <4>1. wds[v].tx = wds[w].tx /\ wds[v].tx # 0
        BY <3>3, <2>2, <1>9
      <4> QED BY <4>1, <1>1 DEF PayoutInv, n
    <3> QED BY <3>2, <3>3
  <2>3. ASSUME NEW k \in 1..(t+1), txs'[k].kind = "payout"
        PROVE  \E w \in 1..n : wds'[w].tx = k
    <3>1. CASE k = t + 1
      BY <3>1, <1>9, <1>13
    <3>2. CASE k # t + 1
      <4>1. k \in 1..t /\ k # 0
        BY <3>2, <1>3
      <4>2. txs[k].kind = "payout"
        BY <4>1, <2>3, <1>3
      <4>3. PICK w \in 1..n : wds[w].tx = k
        BY <4>1, <4>2, <1>1 DEF PayoutInv, n, t
      <4>4. w # x
        BY <4>1, <4>3
      <4> QED BY <4>3, <4>4, <1>9
    <3> QED BY <3>1, <3>2
  <2>4. Len(wds') = n /\ Len(txs') = t + 1
    BY <1>3, <1>8
  <2> QED BY ONLY <2>1, <2>2, <2>3, <2>4 DEF PayoutInv, Net, Landed
<1>18. SumTo(Paids, Len(wds))' = SumTo(Paids, Len(wds))
  <2>1. ASSUME NEW w \in 1..n PROVE PaidBy(w)' = PaidBy(w)
    <3>1. CASE w = x
      BY <3>1, <1>16 DEF PaidBy
    <3>2. CASE w # x
      <4>1. Landed(wds[w].tx)' <=> Landed(wds[w].tx)
        BY <3>2, <1>15
      <4>2. Net(w)' = Net(w)
        BY <1>9 DEF Net
      <4> QED BY <4>1, <4>2 DEF PaidBy
    <3> QED BY <3>1, <3>2
  <2>2. Paids' = Paids
    BY <1>8, <2>1 DEF Paids, n
  <2> QED BY <1>8, <2>2 DEF n
<1>19. TypeInv'
  BY <1>1, <1>2, <1>3, <1>8, <1>12 DEF TypeInv, t
<1>20. FloatMoves' = FloatMoves /\ \A p : WalletMoves(p)' = WalletMoves(p)
  <2>1. \A i \in 1..Len(txs) : /\ txs'[i].kind = txs[i].kind /\ txs'[i].who = txs[i].who
                               /\ txs'[i].amount = txs[i].amount
    BY <1>3 DEF t
  <2>2. TypeInv /\ landed' = landed
    BY <1>1, <1>2
  <2> QED BY ONLY <2>1, <2>2, NothingLanded
<1>21. /\ FloatAt(Len(landed))' = FloatAt(Len(landed))
       /\ \A p : WalletAt(p, Len(landed))' = WalletAt(p, Len(landed))
  BY <1>1, <1>2, <1>19, <1>20, MoveFacts, MovesNext DEF MovesAreSums
<1>22. FloatInv'
  BY <1>1, <1>2, <1>3, <1>18, <1>21 DEF FloatInv
<1>23. CreditInv' /\ CreditedOnce'
  BY <1>1, <1>2, GrowCredit, GrowOnce
<1>24. BalanceInv'
  <2> SUFFICES ASSUME NEW q \in Players PROVE Balance(q)' >= 0
    BY DEF BalanceInv
  <2>1. DepositsOf(q)' = DepositsOf(q)
    BY <1>2 DEF DepositsOf
  <2>2. DebitsOf(q)' = DebitsOf(q)
    BY <1>8, <1>9 DEF DebitsOf, n
  <2>3. Balance(q)' = SumTo(DepositsOf(q)', Len(credits)') - SumTo(DebitsOf(q)', Len(wds)')
    BY <1>19, BalancesNext DEF BalancesAreSums
  <2>4. Balance(q) = SumTo(DepositsOf(q), Len(credits)) - SumTo(DebitsOf(q), Len(wds))
    BY <1>1, BalanceFacts DEF BalancesAreSums
  <2>5. Balance(q)' = Balance(q)
    BY <1>2, <1>8, <2>1, <2>2, <2>3, <2>4 DEF n
  <2> QED BY <1>1, <2>5 DEF BalanceInv
<1> QED BY <1>17, <1>19, <1>22, <1>23, <1>24 DEF MoneyInv

-----------------------------------------------------------------------------
(* The requests *)

\* What a request knows stays true while others move.
LEMMA JobKept ==
  ASSUME NEW j, JobOK(j), Len(txs) \in Nat, Len(txs') \in Nat, Len(txs) <= Len(txs'),
         j.at = "confirm" => (DepositRefSeen(j.who, j.item.proof)' => DepositRefSeen(j.who, j.item.proof)),
         j.at \in {"float", "send", "await"} => j.wd \in 1..Len(wds') /\ wds'[j.wd] = wds[j.wd]
  PROVE  JobOK(j)'
<1>1. \A c : Item(c) => Item(c)'
  BY DEF Item
<1> QED BY <1>1 DEF JobOK, InMailbox

\* One request moves.
LEMMA SlotStep ==
  ASSUME MailboxInv, NEW s \in Slots, NEW j, Goto(s, j), JobOK(j)',
         \A r \in Slots : r # s => JobOK(job[r])',
         j.at \in InMailbox => Alone(s, j.who)
  PROVE  MailboxInv'
<1>1. /\ job' = [r \in Slots |-> job'[r]] /\ job'[s] = j
      /\ \A r \in Slots : r # s => job'[r] = job[r]
  BY DEF MailboxInv, Goto
<1>2. JobOK(job[s])'
  BY <1>1 DEF JobOK
<1>3. \A r \in Slots : JobOK(job[r])'
  BY <1>2
<1>4. ASSUME NEW r \in Slots, job'[r].at \in InMailbox,
             NEW q \in Slots, q # r, job'[q].at \in InMailbox
      PROVE  job'[q].who # job'[r].who
  <2>1. CASE r = s
    BY <2>1, <1>1, <1>4 DEF Alone
  <2>2. CASE q = s
    BY <2>2, <1>1, <1>4 DEF Alone
  <2>3. CASE r # s /\ q # s
    BY <2>3, <1>1, <1>4 DEF MailboxInv, Alone
  <2> QED BY <2>1, <2>2, <2>3
<1>5. \A r \in Slots : job'[r].at \in InMailbox => Alone(r, job[r].who)'
  BY <1>4 DEF Alone
<1> QED BY <1>1, <1>3, <1>5 DEF MailboxInv

\* One request moves, and nothing else does.
LEMMA QuietStep ==
  ASSUME IInv, NEW s \in Slots, NEW j, Goto(s, j), UNCHANGED <<chain, streams>>, JobOK(j),
         j.at \in InMailbox => Alone(s, j.who)
  PROVE  IInv'
<1>1. MoneyInv' /\ MailboxInv
  BY MoneyKept DEF IInv
<1>2. txs' = txs /\ wds' = wds /\ credits' = credits
  BY DEF chain, streams
<1>3. Len(txs) \in Nat
  BY TxFacts DEF IInv, MoneyInv
<1>4. ASSUME NEW k, JobOK(k) PROVE JobOK(k)'
  BY <1>2, <1>4 DEF JobOK, Item, DepositRefSeen
<1>5. ASSUME NEW r \in Slots, r # s PROVE JobOK(job[r])'
  <2>1. JobOK(job[r]) /\ job'[r] = job[r]
    BY <1>1, <1>5 DEF MailboxInv, Goto
  <2>2. PICK k : k = job[r]
    OBVIOUS
  <2>3. JobOK(k)'
    BY <1>4, <2>1, <2>2 DEF JobOK
  <2> QED BY <2>1, <2>2, <2>3 DEF JobOK
<1>6. MailboxInv'
  BY <1>1, <1>4, <1>5, SlotStep
<1> QED BY <1>1, <1>6 DEF IInv

\* The chain moves, and no request does.
LEMMA ChainStep ==
  ASSUME IInv, MoneyInv', job' = job, UNCHANGED streams, Len(txs) <= Len(txs')
  PROVE  IInv'
<1>1. wds' = wds /\ credits' = credits
  BY DEF streams
<1>2. TypeInv => Len(txs) \in Nat
  BY TxFacts
<1>3. TypeInv' => Len(txs') \in Nat
  BY DEF TypeInv
<1>4. Len(txs) \in Nat /\ Len(txs') \in Nat
  BY <1>2, <1>3 DEF IInv, MoneyInv
<1>5. ASSUME NEW r \in Slots PROVE JobOK(job[r])'
  <2>1. PICK k : k = job[r]
    OBVIOUS
  <2>2. JobOK(k)
    BY <2>1 DEF IInv, MailboxInv, JobOK
  <2>3. k.at \in {"float", "send", "await"} => k.wd \in 1..Len(wds)
    BY <2>2 DEF JobOK
  <2>4. DepositRefSeen(k.who, k.item.proof)' => DepositRefSeen(k.who, k.item.proof)
    BY <1>1 DEF DepositRefSeen
  <2>5. JobOK(k)'
    BY <1>1, <1>4, <2>2, <2>3, <2>4, JobKept
  <2> QED BY <2>1, <2>5 DEF JobOK
<1>6. MailboxInv'
  BY <1>5 DEF IInv, MailboxInv, Alone
<1> QED BY <1>6 DEF IInv

LEMMA CreditingOK ==
  ASSUME NEW p \in Players, NEW T, \A c \in T : Item(c)
  PROVE  JobOK(Crediting(p, T)) /\ Crediting(p, T).at \notin InMailbox
<1>1. CASE T = {}
  BY <1>1 DEF Crediting, Idle, JobOK, InMailbox
<1>2. CASE T # {}
  BY <1>2 DEF Crediting, JobOK, InMailbox
<1> QED BY <1>1, <1>2

LEMMA CollectedOK ==
  ASSUME TypeInv, NEW p
  PROVE  \A c \in Collected(p) : Item(c)
<1>1. ASSUME NEW i \in Recent(p) PROVE i \in 1..Len(txs)
  <2>1. \E k \in 1..final : i = landed[k]
    BY DEF Recent
  <2>2. 1..final \subseteq 1..Len(landed) /\ \A k \in 1..Len(landed) : landed[k] \in 1..Len(txs)
    BY MoveFacts DEF TypeInv
  <2> QED BY <2>1, <2>2
<1>2. \A i \in 1..Len(txs) : txs[i].amount \in Nat
  BY TxFacts
<1> QED BY <1>1, <1>2 DEF Collected, Item

\* The steps of a sync and of a request that only read.
LEMMA Readers ==
  ASSUME IInv, NEW s \in Slots,
         \/ List(s) \/ ListFails(s) \/ NoSweep(s) \/ Swept(s) \/ SweepThrows(s)
         \/ TakeCredit(s) \/ ConfirmFails(s) \/ ReadFloat(s)
  PROVE  IInv'
<1>1. TypeInv /\ MailboxInv /\ JobOK(job[s])
  BY DEF IInv, MoneyInv, MailboxInv
<1> DEFINE p == job[s].who
<1>2. job[s].at # "idle" => p \in Players
  BY <1>1 DEF JobOK
<1>3. job[s].at \in {"balance", "sweep", "credit", "confirm"} => \A c \in job[s].todo : Item(c)
  BY <1>1 DEF JobOK
<1>4. ASSUME p \in Players, NEW T, \A c \in T : Item(c), Goto(s, Crediting(p, T)),
             UNCHANGED <<chain, streams>>
      PROVE  IInv'
  <2>1. JobOK(Crediting(p, T)) /\ Crediting(p, T).at \notin InMailbox
    BY <1>4, CreditingOK
  <2> HIDE DEF p
  <2> QED BY <1>4, <2>1, QuietStep
<1>5. ASSUME p \in Players, NEW T, \A c \in T : Item(c),
             Goto(s, [at |-> "balance", who |-> p, todo |-> T]), UNCHANGED <<chain, streams>>
      PROVE  IInv'
  <2> DEFINE j == [at |-> "balance", who |-> p, todo |-> T]
  <2>1. JobOK(j) /\ j.at \notin InMailbox
    BY <1>5 DEF JobOK, InMailbox
  <2>2. Goto(s, j)
    BY <1>5
  <2> HIDE DEF j, p
  <2> QED BY <1>5, <2>1, <2>2, QuietStep
<1>6. \A c \in Collected(p) : Item(c)
  BY <1>1, CollectedOK
<1>7. CASE List(s)
  <2>1. job[s].at # "idle" /\ UNCHANGED <<chain, streams>>
    BY <1>7 DEF List, At
  <2>2. Goto(s, [at |-> "balance", who |-> p, todo |-> Collected(p)])
    BY <1>7 DEF List
  <2> HIDE DEF p
  <2> QED BY <2>1, <2>2, <1>2, <1>5, <1>6
<1>8. CASE ListFails(s)
  <2>1. job[s].at # "idle" /\ UNCHANGED <<chain, streams>>
    BY <1>8 DEF ListFails, At
  <2>2. PICK part \in SUBSET Collected(p) : Goto(s, [at |-> "balance", who |-> p, todo |-> part])
    BY <1>8 DEF ListFails
  <2>3. \A c \in part : Item(c)
    BY <2>2, <1>6
  <2> HIDE DEF p
  <2> QED BY <2>1, <2>2, <2>3, <1>2, <1>5
<1>9. CASE NoSweep(s)
  BY <1>9, <1>2, <1>3, <1>4 DEF NoSweep, At
<1>10. CASE Swept(s)
  <2> DEFINE c == [proof |-> job[s].tx, amount |-> txs[job[s].tx].amount]
  <2>1. job[s].at = "sweep" /\ Goto(s, Crediting(p, job[s].todo \union {c})) /\ UNCHANGED <<chain, streams>>
    BY <1>10 DEF Swept, At
  <2>2. job[s].tx \in 1..Len(txs)
    BY <1>1, <2>1 DEF JobOK
  <2>3. Item(c)
    BY <1>1, <2>2, TxFacts DEF Item
  <2> HIDE DEF c, p
  <2>4. \A d \in job[s].todo \union {c} : Item(d)
    BY <1>3, <2>1, <2>3
  <2> QED BY <2>1, <2>4, <1>2, <1>4
<1>11. CASE SweepThrows(s)
  BY <1>11, <1>2, <1>3, <1>4 DEF SweepThrows, At
<1>12. CASE TakeCredit(s)
  <2>1. /\ job[s].at = "credit" /\ ~Busy(p) /\ UNCHANGED <<chain, streams>> /\ p \in Players
    BY <1>12, <1>2 DEF TakeCredit, At
  <2>2. PICK c \in job[s].todo :
          Goto(s, IF DepositRefSeen(p, c.proof) THEN Crediting(p, job[s].todo \ {c})
                  ELSE [at |-> "confirm", who |-> p, todo |-> job[s].todo \ {c}, item |-> c])
    BY <1>12 DEF TakeCredit
  <2>3. Item(c) /\ \A d \in job[s].todo \ {c} : Item(d)
    BY <1>3, <2>1
  <2>4. CASE DepositRefSeen(p, c.proof)
    <3>1. Goto(s, Crediting(p, job[s].todo \ {c}))
      BY <2>2, <2>4
    <3> HIDE DEF p
    <3> QED BY <3>1, <2>1, <2>3, <1>4
  <2>5. CASE ~DepositRefSeen(p, c.proof)
    <3> DEFINE j == [at |-> "confirm", who |-> p, todo |-> job[s].todo \ {c}, item |-> c]
    <3>1. Goto(s, j)
      BY <2>2, <2>5
    <3>2. JobOK(j)
      BY <2>1, <2>3, <2>5 DEF JobOK, InMailbox
    <3>3. Alone(s, j.who)
      BY <2>1 DEF Busy, Alone, InMailbox
    <3> HIDE DEF j
    <3> QED BY <2>1, <3>1, <3>2, <3>3, QuietStep
  <2> QED BY <2>4, <2>5
<1>13. CASE ConfirmFails(s)
  BY <1>13, <1>2, <1>3, <1>4 DEF ConfirmFails, At
<1>14. CASE ReadFloat(s)
  <2> DEFINE j == [job[s] EXCEPT !.at = "send"]
  <2>1. job[s].at = "float" /\ Goto(s, j) /\ UNCHANGED <<chain, streams>>
    BY <1>14 DEF ReadFloat, At
  <2>2. j.at = "send" /\ j.who = job[s].who /\ j.wd = job[s].wd
    OBVIOUS
  <2> HIDE DEF j
  <2>3. /\ job[s].who \in Players /\ job[s].wd \in 1..Len(wds)
        /\ wds[job[s].wd].who = job[s].who /\ wds[job[s].wd].status = "initiated"
        /\ wds[job[s].wd].tx = 0
    BY <1>1, <2>1 DEF JobOK, InMailbox
  <2>4. JobOK(j)
    BY <2>2, <2>3 DEF JobOK, InMailbox
  <2>5. Alone(s, j.who)
    BY <1>1, <2>1, <2>2 DEF MailboxInv, InMailbox
  <2> QED BY <2>1, <2>4, <2>5, QuietStep
<1> QED BY <1>7, <1>8, <1>9, <1>10, <1>11, <1>12, <1>13, <1>14

\* A sync starts, or another request comes in.
LEMMA SyncStarts ==
  ASSUME IInv, NEW s \in Slots, NEW p \in Players, Sync(s, p)
  PROVE  IInv'
<1> DEFINE j == [at |-> "list", who |-> p]
<1>1. JobOK(j) /\ j.at \notin InMailbox
  BY DEF JobOK, InMailbox
<1>2. Goto(s, j) /\ UNCHANGED <<chain, streams>>
  BY DEF Sync
<1> HIDE DEF j
<1> QED BY <1>1, <1>2, QuietStep

LEMMA Openers ==
  ASSUME IInv, NEW s \in Slots, NEW p \in Players, NEW a \in Amounts,
         \/ Withdraw(s, p, a) \/ \E i \in DOMAIN txs : Deposit(s, p, i, a)
  PROVE  IInv'
<1>1. a \in Nat
  BY LedgerAssumption
<1>2. CASE Withdraw(s, p, a)
  <2> DEFINE j == [at |-> "debit", who |-> p, amount |-> a]
  <2>1. JobOK(j) /\ j.at \notin InMailbox
    BY <1>1 DEF JobOK, InMailbox
  <2>2. Goto(s, j) /\ UNCHANGED <<chain, streams>>
    BY <1>2 DEF Withdraw
  <2> HIDE DEF j
  <2> QED BY <2>1, <2>2, QuietStep
<1>3. ASSUME NEW i \in DOMAIN txs, Deposit(s, p, i, a) PROVE IInv'
  <2> DEFINE T == {[proof |-> i, amount |-> a]}
  <2>1. i \in 1..Len(txs)
    BY TxFacts DEF IInv, MoneyInv
  <2>2. \A c \in T : Item(c)
    BY <2>1, <1>1 DEF Item
  <2>3. Goto(s, Crediting(p, T)) /\ UNCHANGED <<chain, streams>>
    BY <1>3 DEF Deposit
  <2> HIDE DEF T
  <2>4. JobOK(Crediting(p, T)) /\ Crediting(p, T).at \notin InMailbox
    BY <2>2, CreditingOK
  <2> QED BY <2>3, <2>4, QuietStep
<1> QED BY <1>2, <1>3

-----------------------------------------------------------------------------
(* The requests' writes *)

LEMMA SweepKept ==
  ASSUME IInv, NEW s \in Slots, Sweep(s)
  PROVE  IInv'
<1> DEFINE p == job[s].who
           a == WalletAt(p, final)
           e == [kind |-> "sweep", who |-> p, payers |-> {p}, amount |-> a, state |-> "flying"]
<1>1. MoneyInv /\ TypeInv /\ MailboxInv /\ JobOK(job[s])
  BY DEF IInv, MoneyInv, MailboxInv
<1>2. /\ job[s].at = "balance" /\ a > 0 /\ txs' = Append(txs, e)
      /\ Goto(s, [at |-> "sweep", who |-> p, todo |-> job[s].todo, tx |-> Len(txs) + 1])
      /\ UNCHANGED <<landed, final, streams>>
  BY DEF Sweep, Sent, At
<1>3. p \in Players /\ \A c \in job[s].todo : Item(c)
  BY <1>1, <1>2 DEF JobOK
<1>4. a \in Nat
  <2>1. final \in Nat /\ 1..final \subseteq 1..Len(landed)
    BY <1>1, MoveFacts DEF TypeInv
  <2>2. a = SumTo([k \in 1..final |-> WalletMove(p, k)], final)
    BY DEF WalletAt, WalletMove
  <2>3. \A k \in 1..final : WalletMove(p, k) \in Int
    BY <1>1, <2>1, MoveFacts DEF WalletMoves
  <2>4. [k \in 1..final |-> WalletMove(p, k)] \in [1..final -> Int]
    BY <2>3
  <2> DEFINE f == [k \in 1..final |-> WalletMove(p, k)]
  <2> HIDE DEF f
  <2>5. SumTo(f, final) \in Int
    BY <2>1, <2>4, SumType DEF f
  <2>6. a \in Int
    BY <2>2, <2>5 DEF f
  <2> HIDE DEF a
  <2> QED BY <1>2, <2>6
<1> HIDE DEF a, p
<1>5. e \in Tx /\ e.state = "flying" /\ e.kind # "payout"
  BY <1>3, <1>4 DEF Tx, Kinds
<1> HIDE DEF e
<1>6. MoneyInv'
  BY <1>1, <1>2, <1>5, SweepMoney
<1>7. Len(txs) \in Nat /\ Len(txs') = Len(txs) + 1
  BY <1>1, <1>2, <1>5, GrowTxs
<1>8. wds' = wds /\ credits' = credits
  BY <1>2 DEF streams
<1>9. PICK j : j = [at |-> "sweep", who |-> p, todo |-> job[s].todo, tx |-> Len(txs) + 1]
  OBVIOUS
<1>10. JobOK(j)' /\ j.at \notin InMailbox
  <2>1. j.at = "sweep" /\ j.who \in Players /\ j.tx \in 1..Len(txs')
    BY <1>3, <1>7, <1>9
  <2>2. \A c \in j.todo : Item(c)'
    BY <1>3, <1>7, <1>9 DEF Item
  <2> QED BY <2>1, <2>2 DEF JobOK, InMailbox
<1>11. ASSUME NEW r \in Slots, r # s PROVE JobOK(job[r])'
  <2>1. PICK k : k = job[r]
    OBVIOUS
  <2>2. JobOK(k) /\ job'[r] = k
    BY <1>1, <1>2, <1>11, <2>1 DEF MailboxInv, Goto
  <2>3. k.at \in {"float", "send", "await"} => k.wd \in 1..Len(wds)
    BY <2>2 DEF JobOK
  <2>4. DepositRefSeen(k.who, k.item.proof)' => DepositRefSeen(k.who, k.item.proof)
    BY <1>8 DEF DepositRefSeen
  <2>5. Len(txs') \in Nat /\ Len(txs) <= Len(txs')
    BY <1>7
  <2>6. JobOK(k)'
    BY <1>7, <1>8, <2>2, <2>3, <2>4, <2>5, JobKept
  <2> QED BY <2>2, <2>6 DEF JobOK
<1>12. Goto(s, j)
  BY <1>2, <1>9
<1>13. MailboxInv'
  BY <1>1, <1>10, <1>11, <1>12, SlotStep
<1> QED BY <1>6, <1>13 DEF IInv

LEMMA ConfirmKept ==
  ASSUME IInv, NEW s \in Slots, Confirm(s)
  PROVE  IInv'
<1> DEFINE p == job[s].who
           c == job[s].item
<1>1. MoneyInv /\ TypeInv /\ MailboxInv /\ JobOK(job[s])
  BY DEF IInv, MoneyInv, MailboxInv
<1>2. /\ job[s].at = "confirm" /\ MovedToSessions(p, c)
      /\ credits' = Append(credits, [who |-> p, proof |-> c.proof, amount |-> c.amount])
      /\ Goto(s, Crediting(p, job[s].todo))
      /\ UNCHANGED <<chain, wds>>
  BY DEF Confirm, At
<1>3. /\ p \in Players /\ c.amount \in Nat /\ ~DepositRefSeen(p, c.proof)
      /\ \A d \in job[s].todo : Item(d)
  BY <1>1, <1>2 DEF JobOK, Item, InMailbox
<1>4. Alone(s, p)
  BY <1>1, <1>2 DEF MailboxInv, InMailbox
<1>5. Final(c.proof) /\ p \in txs[c.proof].payers /\ c.amount <= txs[c.proof].amount
  BY <1>2 DEF MovedToSessions
<1>6. credits \in Seq(Credit) /\ [who |-> p, proof |-> c.proof, amount |-> c.amount] \in Credit
  <2>1. c.proof \in Nat
    BY <1>1, <1>2 DEF JobOK, Item, InMailbox
  <2> HIDE DEF c, p
  <2> QED BY <1>1, <1>3, <2>1 DEF TypeInv, Credit
<1> HIDE DEF p, c
<1>7. MoneyInv'
  BY <1>1, <1>2, <1>3, <1>5, ConfirmMoney
<1>8. txs' = txs /\ wds' = wds /\ Len(txs) \in Nat
  BY <1>1, <1>2, TxFacts DEF chain
<1>9. \A q, i : q # p => (DepositRefSeen(q, i)' => DepositRefSeen(q, i))
  <2> DEFINE e == [who |-> p, proof |-> c.proof, amount |-> c.amount]
  <2>1. e.who = p
    OBVIOUS
  <2>2. e \in Credit /\ credits' = Append(credits, e)
    BY <1>2, <1>6
  <2> HIDE DEF e
  <2>3. /\ Len(credits) \in Nat
        /\ DOMAIN credits = 1..Len(credits) /\ DOMAIN credits' = 1..(Len(credits) + 1)
        /\ \A k \in 1..Len(credits) : credits'[k] = credits[k]
        /\ credits'[Len(credits) + 1] = e
    BY <1>6, <2>2, Appended
  <2>4. \A k \in 1..(Len(credits) + 1) : k \in 1..Len(credits) \/ k = Len(credits) + 1
    BY <2>3
  <2> QED BY <2>1, <2>3, <2>4 DEF DepositRefSeen
<1>10. JobOK(Crediting(p, job[s].todo)) /\ Crediting(p, job[s].todo).at \notin InMailbox
  BY <1>3, CreditingOK
<1>11. PICK j : j = Crediting(p, job[s].todo)
  OBVIOUS
<1>12. JobOK(j) /\ j.at \notin InMailbox /\ Goto(s, j)
  BY <1>2, <1>10, <1>11
<1>13. JobOK(j)'
  BY <1>8, <1>12, JobKept DEF InMailbox
<1>14. ASSUME NEW r \in Slots, r # s PROVE JobOK(job[r])'
  <2>1. PICK k : k = job[r]
    OBVIOUS
  <2>2. JobOK(k) /\ job'[r] = k
    BY <1>1, <1>2, <1>14, <2>1 DEF MailboxInv, Goto
  <2>3. k.at \in {"float", "send", "await"} => k.wd \in 1..Len(wds)
    BY <2>2 DEF JobOK
  <2>4. k.at = "confirm" => k.who # p
    BY <1>4, <1>14, <2>1 DEF Alone, InMailbox
  <2>5. k.at = "confirm" => (DepositRefSeen(k.who, k.item.proof)' => DepositRefSeen(k.who, k.item.proof))
    BY <2>4, <1>9
  <2>6. JobOK(k)'
    BY <1>8, <2>2, <2>3, <2>5, JobKept
  <2> QED BY <2>2, <2>6 DEF JobOK
<1>15. MailboxInv'
  BY <1>1, <1>12, <1>13, <1>14, SlotStep
<1> QED BY <1>7, <1>15 DEF IInv

\* A request moves, and a withdrawal with it.
LEMMA WithdrawalStep ==
  ASSUME IInv, MoneyInv', NEW s \in Slots, NEW j, Goto(s, j), JobOK(j)', Alone(s, j.who) \/ j.at \notin InMailbox,
         UNCHANGED credits, Len(txs) <= Len(txs'), Len(wds) <= Len(wds'),
         NEW p, Alone(s, p), \A w \in 1..Len(wds) : wds[w].who = p \/ wds'[w] = wds[w]
  PROVE  IInv'
<1>1. MoneyInv /\ MailboxInv
  BY DEF IInv
<1>2. TypeInv => Len(txs) \in Nat
  BY TxFacts
<1>3. TypeInv => Len(wds) \in Nat
  BY LedgerFacts
<1>4. TypeInv' => Len(txs') \in Nat /\ Len(wds') \in Nat
  BY DEF TypeInv
<1>5. Len(txs) \in Nat /\ Len(wds) \in Nat /\ Len(txs') \in Nat /\ Len(wds') \in Nat
  BY <1>1, <1>2, <1>3, <1>4 DEF MoneyInv
<1>6. ASSUME NEW r \in Slots, r # s PROVE JobOK(job[r])'
  <2>1. PICK k : k = job[r]
    OBVIOUS
  <2>2. JobOK(k) /\ job'[r] = k
    BY <1>1, <1>6, <2>1 DEF MailboxInv, Goto
  <2>3. DepositRefSeen(k.who, k.item.proof)' => DepositRefSeen(k.who, k.item.proof)
    BY DEF DepositRefSeen
  <2>4. ASSUME k.at \in {"float", "send", "await"} PROVE k.wd \in 1..Len(wds') /\ wds'[k.wd] = wds[k.wd]
    <3>1. k.wd \in 1..Len(wds) /\ wds[k.wd].who = k.who
      BY <2>2, <2>4 DEF JobOK
    <3>2. k.who # p
      BY <1>6, <2>1, <2>4 DEF Alone, InMailbox
    <3> QED BY <1>5, <3>1, <3>2
  <2>5. JobOK(k)'
    BY <1>5, <2>2, <2>3, <2>4, JobKept
  <2> QED BY <2>2, <2>5 DEF JobOK
<1>7. MailboxInv'
  BY <1>1, <1>6, SlotStep
<1> QED BY <1>7 DEF IInv

LEMMA DebitKept ==
  ASSUME IInv, NEW s \in Slots, Debit(s)
  PROVE  IInv'
<1> DEFINE p == job[s].who
           a == job[s].amount
           e == [who |-> p, amount |-> a, status |-> "initiated", tx |-> 0]
<1>1. MoneyInv /\ TypeInv /\ MailboxInv /\ JobOK(job[s])
  BY DEF IInv, MoneyInv, MailboxInv
<1>2. /\ job[s].at = "debit" /\ ~Busy(p) /\ UNCHANGED <<chain, credits, troubled, restarts>>
      /\ IF Refused(p, a) THEN Goto(s, Idle) /\ UNCHANGED wds
         ELSE /\ wds' = Append(wds, e)
              /\ Goto(s, [at |-> "float", who |-> p, wd |-> Len(wds) + 1])
  BY DEF Debit, At
<1>3. p \in Players /\ a \in Nat
  BY <1>1, <1>2 DEF JobOK
<1>4. Alone(s, p)
  BY <1>2 DEF Busy, Alone, InMailbox
<1>5. CASE Refused(p, a)
  <2>1. JobOK(Idle) /\ Idle.at \notin InMailbox
    BY DEF JobOK, Idle, InMailbox
  <2>2. Goto(s, Idle) /\ UNCHANGED <<chain, streams>>
    BY <1>2, <1>5 DEF streams
  <2> QED BY <2>1, <2>2, QuietStep
<1>6. CASE ~Refused(p, a)
  <2>1. /\ wds' = Append(wds, e) /\ UNCHANGED <<chain, credits>>
        /\ Goto(s, [at |-> "float", who |-> p, wd |-> Len(wds) + 1])
    BY <1>2, <1>6
  <2>2. wds \in Seq(Wd) /\ e \in Wd
    BY <1>1, <1>3 DEF TypeInv, Wd
  <2>3. e.who = p /\ e.status = "initiated" /\ e.tx = 0
    OBVIOUS
  <2>4. MoneyInv'
    <3> HIDE DEF p, a
    <3> QED BY <1>1, <1>3, <1>6, <2>1, DebitMoney
  <2> HIDE DEF e, p, a
  <2>5. /\ Len(wds) \in Nat /\ Len(wds') = Len(wds) + 1
        /\ \A w \in 1..Len(wds) : wds'[w] = wds[w]
        /\ wds'[Len(wds) + 1] = e
    BY <2>1, <2>2, Appended
  <2>6. txs' = txs /\ Len(txs) \in Nat
    BY <1>1, <2>1, TxFacts DEF chain
  <2>7. PICK j : j = [at |-> "float", who |-> p, wd |-> Len(wds) + 1]
    OBVIOUS
  <2>8. j.at = "float" /\ j.who = p /\ j.wd = Len(wds) + 1 /\ Goto(s, j)
    BY <2>1, <2>7
  <2>9. j.wd \in 1..Len(wds')
    BY <2>5, <2>8
  <2>10. wds'[j.wd].who = j.who /\ wds'[j.wd].status = "initiated" /\ wds'[j.wd].tx = 0
    BY <2>3, <2>5, <2>8
  <2>11. JobOK(j)'
    BY <1>3, <2>8, <2>9, <2>10 DEF JobOK, InMailbox
  <2>12. Len(txs) <= Len(txs') /\ Len(wds) <= Len(wds')
    BY <2>5, <2>6
  <2> QED BY <1>4, <2>1, <2>4, <2>5, <2>8, <2>11, <2>12, WithdrawalStep
<1> QED BY <1>5, <1>6

\* What a request in its withdrawal knows of it.
LEMMA Withdrawing ==
  ASSUME IInv, NEW s \in Slots, job[s].at \in {"float", "send", "await"}
  PROVE  /\ job[s].who \in Players /\ job[s].wd \in 1..Len(wds)
         /\ wds[job[s].wd] \in Wd /\ wds[job[s].wd].amount > Fee /\ wds[job[s].wd].amount \in Nat
         /\ wds[job[s].wd].who = job[s].who /\ wds[job[s].wd].status = "initiated"
         /\ (job[s].at = "await") = (wds[job[s].wd].tx # 0)
         /\ Alone(s, job[s].who)
         /\ \A w \in 1..Len(wds) : w = job[s].wd => wds[w].who = job[s].who
<1>1. TypeInv /\ PayoutInv /\ MailboxInv /\ JobOK(job[s])
  BY DEF IInv, MoneyInv, MailboxInv
<1>2. /\ job[s].who \in Players /\ job[s].wd \in 1..Len(wds)
      /\ wds[job[s].wd].who = job[s].who /\ wds[job[s].wd].status = "initiated"
      /\ (job[s].at = "await") = (wds[job[s].wd].tx # 0)
  BY <1>1 DEF JobOK
<1>3. Alone(s, job[s].who)
  BY <1>1 DEF MailboxInv, InMailbox
<1>4. wds[job[s].wd] \in Wd /\ wds[job[s].wd].amount > Fee /\ wds[job[s].wd].amount \in Nat
  BY <1>1, <1>2, LedgerFacts DEF PayoutInv
<1> QED BY <1>2, <1>3, <1>4

LEMMA SendKept ==
  ASSUME IInv, NEW s \in Slots, Send(s)
  PROVE  IInv'
<1> DEFINE x == job[s].wd
           p == job[s].who
           e == [kind |-> "payout", who |-> p, payers |-> {}, amount |-> Net(x), state |-> "flying"]
<1>1. MoneyInv /\ TypeInv
  BY DEF IInv, MoneyInv
<1>2. /\ job[s].at = "send" /\ txs' = Append(txs, e)
      /\ wds' = [wds EXCEPT ![x].tx = Len(txs) + 1]
      /\ Goto(s, [job[s] EXCEPT !.at = "await"])
      /\ UNCHANGED <<landed, final, credits>>
  BY DEF Send, Sent, At
<1>3. /\ p \in Players /\ x \in 1..Len(wds) /\ wds[x] \in Wd
      /\ wds[x].amount > Fee /\ wds[x].amount \in Nat
      /\ wds[x].who = p /\ wds[x].status = "initiated" /\ wds[x].tx = 0
      /\ Alone(s, p)
  BY <1>2, Withdrawing
<1>4. e \in Tx /\ e.kind = "payout" /\ e.state = "flying" /\ e.amount = Net(x)
  <2>1. Net(x) \in Nat
    BY <1>3, LedgerAssumption DEF Net
  <2> HIDE DEF p, x
  <2> QED BY <1>3, <2>1 DEF Tx, Kinds
<1> HIDE DEF e
<1>5. MoneyInv'
  <2> HIDE DEF x
  <2> QED BY <1>1, <1>2, <1>3, <1>4, SendMoney
<1>6. Len(txs) \in Nat /\ Len(txs') = Len(txs) + 1
  BY <1>1, <1>2, <1>4, GrowTxs
<1>7. wds \in Seq(Wd)
  BY <1>1 DEF TypeInv
<1>8. /\ Len(wds) \in Nat /\ Len(wds') = Len(wds)
      /\ \A w \in 1..Len(wds) : w # x => wds'[w] = wds[w]
      /\ wds'[x].who = p /\ wds'[x].status = "initiated" /\ wds'[x].tx # 0
  <2>1. wds'[x] = [wds[x] EXCEPT !.tx = Len(txs) + 1]
    BY <1>2, <1>3, <1>7
  <2>2. wds'[x].who = p /\ wds'[x].status = "initiated" /\ wds'[x].tx = Len(txs) + 1
    BY <1>3, <2>1 DEF Wd
  <2>3. /\ Len(wds) \in Nat /\ Len(wds') = Len(wds)
        /\ \A w \in 1..Len(wds) : w # x => wds'[w] = wds[w]
    BY <1>2, <1>3, <1>7
  <2> QED BY <1>6, <2>2, <2>3
<1>9. PICK j : j = [job[s] EXCEPT !.at = "await"]
  OBVIOUS
<1>10. j.at = "await" /\ j.who = p /\ j.wd = x /\ Goto(s, j)
  BY <1>2, <1>9
<1>11. JobOK(j)'
  BY <1>3, <1>8, <1>10 DEF JobOK, InMailbox
<1>12. Len(txs) <= Len(txs') /\ Len(wds) <= Len(wds')
  BY <1>6, <1>8
<1>13. \A w \in 1..Len(wds) : wds[w].who = p \/ wds'[w] = wds[w]
  BY <1>3, <1>8
<1> HIDE DEF p, x
<1> QED BY <1>2, <1>3, <1>5, <1>10, <1>11, <1>12, <1>13, WithdrawalStep

LEMMA OutcomeKept ==
  ASSUME IInv, NEW s \in Slots, Settle(s) \/ Reverse(s)
  PROVE  IInv'
<1> DEFINE x == job[s].wd
           p == job[s].who
<1>1. MoneyInv /\ TypeInv
  BY DEF IInv, MoneyInv
<1>2. PICK st \in {"settled", "reversed"} :
        /\ job[s].at \in {"float", "send", "await"}
        /\ wds' = [wds EXCEPT ![x].status = st]
        /\ st = "settled" => Landed(wds[x].tx)
        /\ Goto(s, Idle) /\ UNCHANGED <<chain, credits>>
  <2>1. CASE Settle(s)
    BY <2>1 DEF Settle, At
  <2>2. CASE Reverse(s)
    BY <2>2 DEF Reverse, Reversed
  <2> QED BY <2>1, <2>2
<1>3. /\ x \in 1..Len(wds) /\ wds[x].who = p /\ wds[x].status = "initiated" /\ Alone(s, p)
  BY <1>2, Withdrawing
<1>4. wds \in Seq(Wd) /\ Len(txs) \in Nat /\ txs' = txs
  BY <1>1, <1>2, TxFacts DEF TypeInv, chain
<1> HIDE DEF x, p
<1>5. MoneyInv'
  BY <1>1, <1>2, <1>3, OutcomeMoney
<1>6. /\ Len(wds) \in Nat /\ Len(wds') = Len(wds)
      /\ \A w \in 1..Len(wds) : w # x => wds'[w] = wds[w]
  BY <1>2, <1>3, <1>4
<1>7. PICK j : j = Idle
  OBVIOUS
<1>8. JobOK(j)' /\ j.at \notin InMailbox /\ Goto(s, j)
  BY <1>2, <1>7 DEF Idle, JobOK, InMailbox
<1>9. Len(txs) <= Len(txs') /\ Len(wds) <= Len(wds')
  BY <1>4, <1>6
<1>10. \A w \in 1..Len(wds) : wds[w].who = p \/ wds'[w] = wds[w]
  BY <1>3, <1>6
<1> QED BY <1>2, <1>3, <1>5, <1>8, <1>9, <1>10, WithdrawalStep

\* A restart forgets the requests, and keeps the money where it is.
LEMMA RestartKept ==
  ASSUME IInv, Restart
  PROVE  IInv'
<1>1. job' = [s \in Slots |-> Idle] /\ UNCHANGED <<chain, streams>>
  BY DEF Restart
<1>2. MoneyInv'
  BY <1>1, MoneyKept DEF IInv
<1>3. \A s \in Slots : job'[s] = Idle
  BY <1>1
<1>4. \A s \in Slots : JobOK(job[s])' /\ job'[s].at \notin InMailbox
  BY <1>3 DEF JobOK, Idle, InMailbox
<1>5. job' = [s \in Slots |-> job'[s]]
  BY <1>1
<1> QED BY <1>2, <1>4, <1>5 DEF IInv, MailboxInv

-----------------------------------------------------------------------------
(* The theorems *)

LEMMA EmptySum ==
  ASSUME NEW f, f \in [1..0 -> Int]
  PROVE  SumTo(f, 0) = 0
<1>1. 0 \in Nat /\ \A k \in 1..0 : f[k] = 0
  OBVIOUS
<1> QED BY <1>1, SumOfZeros

LEMMA Starts == Init => IInv
<1> SUFFICES ASSUME Init PROVE IInv
  OBVIOUS
<1>1. /\ txs = <<>> /\ landed = <<>> /\ final = 0 /\ credits = <<>> /\ wds = <<>>
      /\ job = [s \in Slots |-> Idle]
  BY DEF Init
<1>2. Len(txs) = 0 /\ Len(landed) = 0 /\ Len(credits) = 0 /\ Len(wds) = 0
  BY <1>1
<1>3. TypeInv
  BY <1>1, <1>2 DEF TypeInv
<1>4. PayoutInv
  BY <1>2 DEF PayoutInv
<1>5. FloatInv
  <2>1. FloatMoves \in [1..0 -> Int] /\ FloatAt(Len(landed)) = SumTo(FloatMoves, 0)
    BY <1>2, <1>3, MoveFacts
  <2>2. \A p : WalletMoves(p) \in [1..0 -> Int] /\ WalletAt(p, Len(landed)) = SumTo(WalletMoves(p), 0)
    BY <1>2, <1>3, MoveFacts
  <2>3. Ins \in [1..0 -> Int] /\ Outs \in [1..0 -> Int] /\ Paids \in [1..0 -> Int]
    BY <1>2 DEF Ins, Outs, Paids
  <2>4. FloatAt(Len(landed)) = 0
    BY <2>1, EmptySum
  <2>5. \A p : WalletAt(p, Len(landed)) = 0
    BY <2>2, EmptySum
  <2>6. SumTo(Ins, 0) = 0
    BY <2>3, EmptySum
  <2>7. SumTo(Outs, 0) = 0
    BY <2>3, EmptySum
  <2>8. SumTo(Paids, 0) = 0
    BY <2>3, EmptySum
  <2> QED BY <1>2, <2>4, <2>5, <2>6, <2>7, <2>8 DEF FloatInv
<1>6. CreditInv
  <2> DEFINE part == [i \in 1..0 |-> 0]
  <2>1. part \in [1..0 -> Nat] /\ part \in [1..0 -> Int] /\ Amts \in [1..0 -> Int]
    BY <1>2 DEF Amts
  <2> HIDE DEF part
  <2>2. SumTo(part, 0) = 0
    BY <2>1, EmptySum
  <2>3. SumTo(Amts, 0) = 0
    BY <2>1, EmptySum
  <2>4. \A i \in 1..0 : part[i] <= In(i) /\ (~Credited(i) => part[i] = 0)
    OBVIOUS
  <2> QED BY <1>2, <2>1, <2>2, <2>3, <2>4 DEF CreditInv
<1>7. BalanceInv
  <2> SUFFICES ASSUME NEW p \in Players PROVE Balance(p) >= 0
    BY DEF BalanceInv
  <2>1. /\ DepositsOf(p) \in [1..0 -> Int] /\ DebitsOf(p) \in [1..0 -> Int]
        /\ Balance(p) = SumTo(DepositsOf(p), 0) - SumTo(DebitsOf(p), 0)
    BY <1>2, <1>3, BalanceFacts DEF BalancesAreSums
  <2>2. SumTo(DepositsOf(p), 0) = 0
    BY <2>1, EmptySum
  <2>3. SumTo(DebitsOf(p), 0) = 0
    BY <2>1, EmptySum
  <2> QED BY <2>1, <2>2, <2>3
<1>8. CreditedOnce
  BY <1>1 DEF CreditedOnce
<1>9. \A s \in Slots : job[s] = Idle
  BY <1>1
<1>10. \A s \in Slots : JobOK(job[s]) /\ job[s].at \notin InMailbox
  BY <1>9 DEF JobOK, Idle, InMailbox
<1>11. MailboxInv
  BY <1>1, <1>10 DEF MailboxInv
<1> QED BY <1>3, <1>4, <1>5, <1>6, <1>7, <1>8, <1>11 DEF IInv, MoneyInv

LEMMA Steps == IInv /\ [Next]_vars => IInv'
<1> SUFFICES ASSUME IInv, [Next]_vars PROVE IInv'
  OBVIOUS
<1>1. MoneyInv /\ TypeInv /\ Len(txs) \in Nat
  BY TxFacts DEF IInv, MoneyInv
<1>2. ASSUME NEW p \in Custodial, NEW a \in Amounts, Arrive(p, a) PROVE IInv'
  <2> DEFINE e == [kind |-> "arrival", who |-> p, payers |-> {}, amount |-> a, state |-> "landed"]
  <2>1. /\ txs' = Append(txs, e) /\ landed' = Append(landed, Len(txs) + 1)
        /\ UNCHANGED <<final, streams>> /\ job' = job
    BY <1>2 DEF Arrive
  <2>2. e \in Tx /\ e.state = "landed" /\ e.kind = "arrival"
    BY LedgerAssumption DEF Tx, Kinds
  <2> HIDE DEF e
  <2>3. MoneyInv'
    BY <1>1, <2>1, <2>2, ArriveMoney
  <2>4. Len(txs') = Len(txs) + 1
    BY <1>1, <2>1, <2>2, GrowTxs
  <2>5. Len(txs) <= Len(txs') /\ UNCHANGED streams
    BY <1>1, <2>1, <2>4
  <2> QED BY <2>1, <2>3, <2>5, ChainStep
<1>11. ASSUME NEW t \in Transfers, Pay(t) PROVE IInv'
  <2> DEFINE e == [kind |-> t.kind, who |-> Outside, payers |-> t.payers,
                   amount |-> t.amount, state |-> "landed"]
  <2>1. /\ txs' = Append(txs, e) /\ landed' = Append(landed, Len(txs) + 1)
        /\ UNCHANGED <<final, streams>> /\ job' = job
    BY <1>11 DEF Pay
  <2>2. t.kind \in {"direct", "foreign"} /\ t.payers \in SUBSET Players /\ t.amount \in Nat
    BY LedgerAssumption
  <2>3. e \in Tx /\ e.state = "landed" /\ e.kind \in {"direct", "foreign"}
    BY <2>2 DEF Tx, Kinds
  <2> HIDE DEF e
  <2>4. MoneyInv'
    BY <1>1, <2>1, <2>3, ArriveMoney
  <2>5. Len(txs') = Len(txs) + 1
    BY <1>1, <2>1, <2>3, GrowTxs
  <2>6. Len(txs) <= Len(txs') /\ UNCHANGED streams
    BY <1>1, <2>1, <2>5
  <2> QED BY <2>1, <2>4, <2>6, ChainStep
<1>3. ASSUME NEW i \in DOMAIN txs, Land(i) PROVE IInv'
  <2>1. MoneyInv'
    BY <1>1, <1>3, LandMoney
  <2>2. txs' = [txs EXCEPT ![i].state = "landed"] /\ job' = job /\ UNCHANGED streams
    BY <1>3 DEF Land
  <2>3. i \in 1..Len(txs) /\ txs[i].state = "flying"
    BY <1>1, <1>3, TxFacts DEF Land
  <2>4. Len(txs') = Len(txs)
    BY <1>1, <2>2, <2>3, Resolve
  <2>5. Len(txs) <= Len(txs')
    BY <1>1, <2>4
  <2> QED BY <2>1, <2>2, <2>5, ChainStep
<1>4. ASSUME NEW i \in DOMAIN txs, Die(i) PROVE IInv'
  <2>1. MoneyInv'
    BY <1>1, <1>4, DieMoney
  <2>2. txs' = [txs EXCEPT ![i].state = "dead"] /\ job' = job /\ UNCHANGED streams
    BY <1>4 DEF Die
  <2>3. i \in 1..Len(txs) /\ txs[i].state = "flying"
    BY <1>1, <1>4, TxFacts DEF Die
  <2>4. Len(txs') = Len(txs)
    BY <1>1, <2>2, <2>3, Resolve
  <2>5. Len(txs) <= Len(txs')
    BY <1>1, <2>4
  <2> QED BY <2>1, <2>2, <2>5, ChainStep
<1>5. CASE Finalise
  <2>1. MoneyInv'
    BY <1>1, <1>5, FinaliseMoney
  <2>2. txs' = txs /\ job' = job /\ UNCHANGED streams
    BY <1>5 DEF Finalise
  <2>3. Len(txs) <= Len(txs')
    BY <1>1, <2>2
  <2> QED BY <2>1, <2>2, <2>3, ChainStep
<1>6. ASSUME NEW s \in Syncs, NEW p \in Custodial, Sync(s, p) PROVE IInv'
  <2>1. s \in Slots /\ p \in Players
    BY LedgerAssumption DEF Slots
  <2> QED BY <2>1, <1>6, SyncStarts
<1>7. ASSUME NEW s \in Requests, NEW p \in Players, NEW a \in Amounts,
             Withdraw(s, p, a) \/ \E i \in DOMAIN txs : Deposit(s, p, i, a)
      PROVE  IInv'
  <2>1. s \in Slots
    BY DEF Slots
  <2> QED BY <2>1, <1>7, Openers
<1>8. ASSUME NEW s \in Slots, Step(s) PROVE IInv'
  <2>1. CASE Sweep(s)
    BY <2>1, SweepKept
  <2>2. CASE Confirm(s)
    BY <2>2, ConfirmKept
  <2>3. CASE Debit(s)
    BY <2>3, DebitKept
  <2>4. CASE Send(s)
    BY <2>4, SendKept
  <2>5. CASE Settle(s) \/ Reverse(s)
    BY <2>5, OutcomeKept
  <2>6. CASE \/ List(s) \/ ListFails(s) \/ NoSweep(s) \/ Swept(s) \/ SweepThrows(s)
             \/ TakeCredit(s) \/ ConfirmFails(s) \/ ReadFloat(s)
    BY <2>6, Readers
  <2> QED BY <1>8, <2>1, <2>2, <2>3, <2>4, <2>5, <2>6 DEF Step
<1>9. CASE Restart
  BY <1>9, RestartKept
<1>10. CASE Recover \/ UNCHANGED vars
  <2>1. UNCHANGED <<chain, streams>> /\ job' = job
    BY <1>10 DEF Recover, vars
  <2>2. txs' = txs /\ UNCHANGED streams
    BY <2>1 DEF chain
  <2>3. MoneyInv' /\ Len(txs) <= Len(txs')
    BY <1>1, <2>1, <2>2, MoneyKept
  <2> QED BY <2>1, <2>2, <2>3, ChainStep
<1> QED BY <1>2, <1>3, <1>4, <1>5, <1>6, <1>7, <1>8, <1>9, <1>10, <1>11 DEF Next

(* The inductive invariant holds in every behaviour. *)
THEOREM Invariance == Spec => []IInv
BY Starts, Steps, PTL DEF Spec

(* Every field keeps its range, and no wallet, no balance and not the float is *)
(* ever overdrawn.                                                              *)
THEOREM TypeCorrect == Spec => []TypeOK
<1>1. IInv => TypeOK
  <2> SUFFICES ASSUME IInv PROVE TypeOK
    OBVIOUS
  <2>1. TypeInv /\ PayoutInv /\ FloatInv /\ BalanceInv /\ CreditedOnce /\ MailboxInv
    BY DEF IInv, MoneyInv
  <2>2. \A i \in DOMAIN txs : txs[i] \in Tx
    BY <2>1, TxFacts
  <2>3. \A k \in DOMAIN landed : landed[k] \in DOMAIN txs
    BY <2>1, TxFacts, MoveFacts
  <2>4. final \in 0..Len(landed)
    BY <2>1 DEF TypeInv
  <2>5. \A k \in DOMAIN credits : credits[k] \in [who : Players, proof : DOMAIN txs, amount : Nat]
    <3> SUFFICES ASSUME NEW k \in DOMAIN credits
                 PROVE  credits[k] \in [who : Players, proof : DOMAIN txs, amount : Nat]
      OBVIOUS
    <3>1. credits[k] \in Credit
      BY <2>1, LedgerFacts
    <3>2. credits[k].proof \in DOMAIN txs
      BY <2>1 DEF CreditedOnce, Landed
    <3> QED BY <3>1, <3>2 DEF Credit
  <2>6. \A w \in DOMAIN wds : wds[w] \in
          [who : Players, amount : Nat, status : {"initiated", "settled", "reversed"}, tx : 0..Len(txs)]
    <3> SUFFICES ASSUME NEW w \in DOMAIN wds
                 PROVE  wds[w] \in [who : Players, amount : Nat,
                                    status : {"initiated", "settled", "reversed"}, tx : 0..Len(txs)]
      OBVIOUS
    <3>1. wds[w] \in Wd /\ wds[w].tx \in Nat /\ w \in 1..Len(wds)
      BY <2>1, LedgerFacts
    <3>2. wds[w].tx \in 0..Len(txs)
      BY <3>1, <2>1, TxFacts DEF PayoutInv
    <3> QED BY <3>1, <3>2 DEF Wd
  <2>7. \A s \in Slots : At(s, "idle") \/ job[s].who \in Players
    BY <2>1 DEF MailboxInv, JobOK, At
  <2>8. \A p \in Players : Balance(p) >= 0 /\ WalletAt(p, Len(landed)) >= 0
    BY <2>1 DEF BalanceInv, FloatInv
  <2>9. FloatAt(Len(landed)) >= 0
    BY <2>1 DEF FloatInv
  <2> QED BY <2>2, <2>3, <2>4, <2>5, <2>6, <2>7, <2>8, <2>9 DEF TypeOK, Tx, Kinds
<1> QED BY <1>1, Invariance, PTL

(* Whoever presents a transaction, however often, each player is credited for   *)
(* it at most once, only if a listed balance of its own fell, and for no more    *)
(* than a listed balance of Sessions rose; a sweep is credited at most once in   *)
(* all, to the player it came from.                                              *)
THEOREM OneCreditPerSweep == Spec => []CreditedOnce
<1>1. IInv => CreditedOnce
  BY DEF IInv, MoneyInv
<1> QED BY <1>1, Invariance, PTL

(* Nobody is paid beyond its deposits, and the float covers every balance and *)
(* every payout under way, but for what landed after custody had thrown and    *)
(* for the credits on another token or on a transfer of several players.       *)
THEOREM AlwaysSolvent == Spec => []Solvent
<1>1. IInv => Solvent
  <2> SUFFICES ASSUME IInv PROVE Solvent
    OBVIOUS
  <2>1. TypeInv /\ PayoutInv /\ FloatInv /\ CreditInv /\ BalanceInv
    BY DEF IInv, MoneyInv
  <2> DEFINE n == Len(wds)
             Kept(w) == IF wds[w].status = "reversed" THEN 0 ELSE wds[w].amount
             kept == [w \in 1..n |-> Kept(w)]
             leave == [w \in 1..n |-> Leaving(w)]
             both == [w \in 1..n |-> PaidBy(w) + Leaving(w)]
  <2>2. \A p \in Players : Owed(p) >= 0
    BY <2>1 DEF BalanceInv, Owed, Balance
  <2>3. /\ n \in Nat /\ DOMAIN wds = 1..n
        /\ \A w \in 1..n : wds[w].amount \in Nat /\ Net(w) \in Int
        /\ \A w \in 1..n : wds[w].status \in {"initiated", "settled", "reversed"}
        /\ DOMAIN credits = 1..Len(credits) /\ Len(credits) \in Nat
        /\ Amts \in [1..Len(credits) -> Nat]
    BY <2>1, LedgerFacts
  <2>4. Len(txs) \in Nat /\ Ins \in [1..Len(txs) -> Nat]
    BY <2>1, TxFacts
  <2>5. SumTo(Amts, Len(credits)) <= SumTo(Ins, Len(txs))
    <3>1. PICK part \in [1..Len(txs) -> Nat] :
            /\ SumTo(Amts, Len(credits)) = SumTo(part, Len(txs))
            /\ \A i \in 1..Len(txs) : part[i] <= In(i)
      BY <2>1 DEF CreditInv
    <3>2. part \in [1..Len(txs) -> Int] /\ Ins \in [1..Len(txs) -> Int]
      BY <2>4, <3>1
    <3>3. \A i \in 1..Len(txs) : part[i] <= Ins[i]
      BY <3>1 DEF Ins
    <3>4. SumTo(part, Len(txs)) <= SumTo(Ins, Len(txs))
      BY <2>4, <3>2, <3>3, SumMonotone
    <3> QED BY <3>1, <3>4
  <2>6. ASSUME NEW w \in 1..n
        PROVE  /\ PaidBy(w) \in Int /\ Leaving(w) \in Int /\ Kept(w) \in Int
               /\ PaidBy(w) + Leaving(w) <= Kept(w)
    <3>1. Net(w) \in Int /\ 0 <= Net(w) /\ Net(w) <= wds[w].amount /\ wds[w].amount \in Nat
      BY <2>1, <2>3, LedgerAssumption DEF PayoutInv, Net
    <3>2. wds[w].status = "settled" => Landed(wds[w].tx)
      BY <2>1 DEF PayoutInv
    <3>3. CASE Landed(wds[w].tx)
      <4>1. PaidBy(w) = Net(w) /\ Leaving(w) = (IF wds[w].status = "reversed" THEN -Net(w) ELSE 0)
        BY <3>3 DEF PaidBy, Leaving
      <4> QED BY <3>1, <4>1
    <3>4. CASE ~Landed(wds[w].tx)
      <4>1. PaidBy(w) = 0 /\ Leaving(w) = (IF wds[w].status = "initiated" THEN Net(w) ELSE 0)
        BY <3>4 DEF PaidBy, Leaving
      <4> QED BY <3>1, <4>1
    <3> QED BY <3>3, <3>4
  <2> HIDE DEF n, Kept
  <2>7. Paids = [w \in 1..n |-> PaidBy(w)]
    BY DEF Paids, n
  <2>8. /\ Paids \in [1..n -> Int] /\ kept \in [1..n -> Int]
        /\ leave \in [1..n -> Int] /\ both \in [1..n -> Int]
    BY <2>6, <2>7
  <2>9. \A w \in 1..n : both[w] = Paids[w] + leave[w] /\ both[w] <= kept[w]
    BY <2>6, <2>7
  <2> HIDE DEF kept, leave, both
  <2>16. n \in Nat /\ \A w \in 1..n : both[w] = Paids[w] + leave[w]
    BY <2>3, <2>9
  <2>10. SumTo(both, n) = SumTo(Paids, n) + SumTo(leave, n)
    BY ONLY <2>8, <2>16, SumPlus
  <2>11. SumTo(both, n) <= SumTo(kept, n)
    BY <2>3, <2>8, <2>9, SumMonotone
  <2>12. SumTo(kept, n) \in Int /\ SumTo(leave, n) \in Int
    BY <2>3, <2>8, SumType
  <2>13. /\ FloatAt(Len(landed)) = SumTo(Ins, Len(txs)) - SumTo(Paids, n)
         /\ SumTo(Ins, Len(txs)) \in Int /\ SumTo(Paids, n) \in Int /\ SumTo(Amts, Len(credits)) \in Int
    BY <2>1, BoxTypes DEF FloatInv, n
  <2>14. FloatAt(Len(landed)) >= SumTo(Amts, Len(credits)) - SumTo(kept, n) + SumTo(leave, n)
    BY <2>5, <2>10, <2>11, <2>12, <2>13
  <2>15. /\ Amts = [k \in DOMAIN credits |-> Backed(k)]
         /\ kept = [w \in DOMAIN wds |-> IF wds[w].status = "reversed" THEN 0 ELSE wds[w].amount]
         /\ leave = [w \in DOMAIN wds |-> Leaving(w)]
    BY <2>3 DEF Amts, kept, leave, Kept
  <2> QED BY <2>2, <2>14, <2>15 DEF Solvent, n
<1> QED BY <1>1, Invariance, PTL

-----------------------------------------------------------------------------
(* ChallengeEscrow: the inductive invariant *)
Letters == [slot : Reqs, kind : {"LOCK", "REFUND", "PAY"}, amount : {0, WinnerPayout}]

(* the command of request s in the mailbox of p, and whom s waits for *)
Has(p, s) == \E i \in 1..Len(mail[p]) : mail[p][i].slot = s
Pending(s) == {p \in Player : Has(p, s)}

Sides == {Creator, view.opponent}
Worth(p) == free[p] + locked[p]
Gain(p) == IF p = Winner(view.opponent) THEN Stake - Rake ELSE -Stake

(* A command is there because its request waits for it. *)
Awaited(p, c) ==
  \/ c.kind = "LOCK" /\ pc[c.slot] = "locking" /\ p = Who[c.slot]
  \/ c.kind = "REFUND" /\ pc[c.slot] = "undoing" /\ p = Who[c.slot]
  \/ c.kind = "REFUND" /\ pc[c.slot] \in {"cancelling", "refunding"} /\ p = Creator
  \/ c.kind = "REFUND" /\ pc[c.slot] = "voiding"
  \/ c.kind = "PAY" /\ pc[c.slot] = "paying"

(* A mailbox holds one command per request; none locks behind one that pays. *)
MailOK(p) ==
  /\ \A i, j \in 1..Len(mail[p]) : mail[p][i].slot = mail[p][j].slot => i = j
  /\ \A i, j \in 1..Len(mail[p]) : mail[p][i].kind = "PAY" /\ mail[p][j].kind = "LOCK" => j < i
  /\ \A i \in 1..Len(mail[p]) : Awaited(p, mail[p][i])

Opening(s) == pc[s] = "locking" /\ Op[s] = "create"
Settling(s) == pc[s] \in {"refunding", "voiding", "paying"}

RequestOK(s) ==
  /\ waiting[s] = Cardinality(Pending(s))
  /\ pc[s] \in {"idle", "publishing"} => waiting[s] = 0
  /\ pc[s] \in {"locking", "undoing"} => Op[s] \in {"create", "accept"}
  /\ pc[s] = "cancelling" => Op[s] = "cancel"
  /\ Settling(s) => Op[s] = "settle" /\ match = "RESOLVED" /\ view.opponent # None
  /\ pc[s] = "paying" => result \in {"CREATOR", "OPPONENT"}
  /\ pc[s] \in {"refunding", "voiding"} => result = "NEITHER"
  /\ Opening(s) => view.status = "NONE"
  /\ Op[s] = "accept" /\ pc[s] # "idle" => Who[s] # Creator
  /\ pc[s] = "publishing" => expected[s] # None
  /\ pc[s] \in {"idle", "undoing", "refunding"} \/ waiting[s] > 0 => expected[s] = None

ViewOK ==
  /\ result = "NONE" <=> match # "RESOLVED"
  /\ view.status = "MATCHED" => view.opponent # None
  /\ view.status = "NONE" =>
       /\ view.opponent = None /\ stored = 0 /\ cached = None
       /\ \A s \in Reqs : expected[s] \in {None, 0} /\ (pc[s] = "idle" \/ Opening(s))

(* Money moves between players only when a resolved match pays a stake that  *)
(* is open, and nobody can lock another afterwards.                          *)
StakeOK(p) ==
  \/ Worth(p) = Initial
  \/ /\ Worth(p) \in {Initial - Stake, Initial + Stake - Rake}
     /\ locked[p] = 0 /\ match = "RESOLVED"
     /\ \A i \in 1..Len(mail[p]) : mail[p][i].kind # "LOCK"

(* Of an uncontested challenge: *)
CalmRequest(s) ==
  /\ pc[s] # "undoing"
  /\ pc[s] = "locking" => Who[s] \in Pending(s) \/ locked[Who[s]] = Stake
  /\ pc[s] \in {"locking", "cancelling"} /\ Op[s] # "create" =>
       view.status = "OPEN" /\ expected[s] \in {None, 1}
  /\ pc[s] = "publishing" /\ view.status = "OPEN" => Op[s] = "create" /\ expected[s] = 0
  /\ pc[s] = "paying" =>
       /\ view.status \in {"MATCHED", "SETTLED"}
       /\ \A p \in Sides : locked[p] = 0 \/ p \in Pending(s)
  /\ pc[s] \in {"refunding", "voiding"} => view.status \in {"MATCHED", "VOID"}
  /\ pc[s] = "refunding" => locked[Creator] = 0 \/ Creator \in Pending(s)
  /\ pc[s] = "voiding" =>
       locked[Creator] = 0 /\ (locked[view.opponent] = 0 \/ view.opponent \in Pending(s))

CalmMoney(p) ==
  \/ /\ Worth(p) = Initial
     /\ p \in Sides /\ view.status = "MATCHED" => locked[p] = Stake \/ result = "NEITHER"
     /\ p \in Sides => view.status # "SETTLED"
  \/ /\ p \in Sides /\ view.status \in {"MATCHED", "SETTLED"}
     /\ result \in {"CREATOR", "OPPONENT"}
     /\ locked[p] = 0 /\ Worth(p) = Initial + Gain(p)

CalmMail(p) ==
  \A i \in 1..Len(mail[p]) : mail[p][i].kind = "PAY" =>
     p \in Sides /\ mail[p][i].amount = IF p = Winner(view.opponent) THEN WinnerPayout ELSE 0

CalmView ==
  /\ \A s, t \in Contenders : s = t
  /\ view.status = "OPEN" =>
       /\ stored = 1 /\ cached \in {None, 1}
       /\ locked[Creator] = Stake \/ \E s \in Reqs : pc[s] = "cancelling"
  /\ view.status = "SETTLED" => result \in {"CREATOR", "OPPONENT"}
  /\ view.status = "VOID" => result = "NEITHER"
  /\ view.status \in {"SETTLED", "VOID"} => view.opponent # None /\ \A p \in Sides : locked[p] = 0

Calm ==
  ~contested =>
    /\ CalmView
    /\ \A s \in Reqs : CalmRequest(s)
    /\ \A p \in Player : CalmMoney(p) /\ CalmMail(p)

ChallengeIInv ==
  /\ ChallengeTypeOK /\ mail \in [Player -> Seq(Letters)]
  /\ ViewOK /\ Calm
  /\ \A p \in Player : MailOK(p) /\ StakeOK(p)
  /\ \A s \in Reqs : RequestOK(s)

-----------------------------------------------------------------------------
(* Constants, and where commands are *)

\* The rake is part of one stake.
LEMMA RakeFits ==
  /\ Rake \in Nat /\ Rake <= Stake /\ Stake \in Nat /\ Stake > 0 /\ Initial \in Nat
  /\ WinnerPayout = 2 * Stake - Rake /\ WinnerPayout \in Nat
<1>1. Stake \in Nat /\ Stake > 0 /\ Initial \in Nat /\ RakeBps \in Nat /\ RakeBps <= 10000
  BY MoneyAssumption
<1> DEFINE m == Stake * RakeBps
<1>2. m \in Nat /\ m <= Stake * 10000
  BY <1>1
<1> HIDE DEF m
<1>3. m \div 10000 \in Nat /\ m \div 10000 <= Stake
  BY <1>1, <1>2
<1>4. Rake = m \div 10000
  BY DEF Rake, m
<1>5. Rake \in Nat /\ Rake <= Stake
  BY <1>3, <1>4
<1> HIDE DEF Rake
<1>6. WinnerPayout = 2 * Stake - Rake
  BY DEF WinnerPayout
<1>7. WinnerPayout \in Nat
  BY <1>1, <1>5, <1>6
<1> QED BY <1>1, <1>5, <1>6, <1>7

\* What the assumptions say of players and requests.
LEMMA PlayersFacts ==
  /\ Creator \in Player /\ None \notin Player /\ None \notin Int
  /\ N \in Nat /\ Player = 1..N
  /\ \A s \in Reqs : Who[s] \in Player /\ Op[s] \in {"create", "accept", "cancel", "settle"}
  /\ \A s \in Reqs : Op[s] \in {"create", "cancel"} => Who[s] = Creator
  /\ \A s, t \in Reqs : Op[s] = "create" /\ Op[t] = "create" => s = t
BY RequestAssumption DEF Player, Creator

\* Whom a request waits for is a finite set of players.
LEMMA PendingFinite ==
  ASSUME NEW D \in SUBSET Player
  PROVE  /\ IsFiniteSet(D) /\ Cardinality(D) \in Nat
         /\ Cardinality(D) = 0 <=> D = {}
<1>1. IsFiniteSet(Player)
  <2>1. 1 \in Int /\ N \in Int /\ Player = 1..N
    BY PlayersFacts
  <2> QED BY <2>1, FS_Interval
<1>2. IsFiniteSet(D)
  BY <1>1, FS_Subset
<1>3. Cardinality(D) \in Nat
  BY <1>2, FS_CardinalityType
<1>4. Cardinality(D) = 0 <=> D = {}
  BY <1>2, FS_EmptySet
<1> QED BY <1>2, <1>3, <1>4

\* A request that waits for nobody has no command in any mailbox.
LEMMA NoneAwaited ==
  ASSUME NEW s \in Reqs, RequestOK(s), waiting[s] = 0
  PROVE  Pending(s) = {} /\ \A p \in Player : ~Has(p, s)
<1>1. Pending(s) \in SUBSET Player
  BY DEF Pending
<1>2. Cardinality(Pending(s)) = 0
  BY DEF RequestOK
<1>3. Pending(s) = {}
  BY <1>1, <1>2, PendingFinite
<1> QED BY <1>3 DEF Pending

\* Commands to one player, or to the two sides, are one or two.
LEMMA OneOrTwo ==
  /\ \A p \in Player : Cardinality({p}) = 1
  /\ \A p, q \in Player : Cardinality({p, q}) \in {1, 2}
<1>1. \A p : IsFiniteSet({p}) /\ Cardinality({p}) = 1
  BY FS_Singleton
<1>2. ASSUME NEW p \in Player, NEW q \in Player PROVE Cardinality({p, q}) \in {1, 2}
  <2>1. {p, q} = {p} \cup {q}
    OBVIOUS
  <2>2. CASE p = q
    <3>1. {p, q} = {p}
      BY <2>2
    <3> QED BY <1>1, <3>1
  <2>3. CASE p # q
    <3>1. Cardinality({p} \cup {q}) = Cardinality({p}) + 1
      BY <1>1, <2>3, FS_AddElement
    <3> QED BY <1>1, <2>1, <3>1
  <2> QED BY <2>2, <2>3
<1> QED BY <1>1, <1>2

\* What sits in a mailbox is a command.
LEMMA LettersTyped ==
  ASSUME mail \in [Player -> Seq(Letters)], NEW p \in Player, NEW i \in 1..Len(mail[p])
  PROVE  /\ mail[p] \in Seq(Letters) /\ mail[p][i] \in Letters
         /\ mail[p][i].slot \in Reqs /\ mail[p][i].kind \in {"LOCK", "REFUND", "PAY"}
         /\ mail[p][i].amount \in {0, WinnerPayout} /\ Has(p, mail[p][i].slot)
<1>1. mail[p] \in Seq(Letters)
  OBVIOUS
<1>2. mail[p][i] \in Letters
  BY <1>1
<1>3. Has(p, mail[p][i].slot)
  BY DEF Has
<1> QED BY <1>1, <1>2, <1>3 DEF Letters

-----------------------------------------------------------------------------
(* Mailboxes *)

\* A request that waits for nobody posts a command to some players: these are
\* then the players it waits for.
LEMMA Posted ==
  ASSUME mail \in [Player -> Seq(Letters)], waiting \in [Reqs -> 0..2],
         \A t \in Reqs : RequestOK(t), NEW s \in Reqs, waiting[s] = 0,
         NEW cmds, DOMAIN cmds \subseteq Player, Cardinality(DOMAIN cmds) \in 0..2,
         \A p \in DOMAIN cmds : cmds[p] \in Letters /\ cmds[p].slot = s,
         Post(s, cmds)
  PROVE  /\ mail' \in [Player -> Seq(Letters)]
         /\ waiting' \in [Reqs -> 0..2]
         /\ \A t \in Reqs : t # s => waiting'[t] = waiting[t]
         /\ \A p \in Player : p \notin DOMAIN cmds => mail'[p] = mail[p]
         /\ \A p \in Player : p \in DOMAIN cmds => mail'[p] = Append(mail[p], cmds[p])
         /\ Pending(s)' = DOMAIN cmds
         /\ \A t \in Reqs : t # s => Pending(t)' = Pending(t)
         /\ \A t \in Reqs : waiting'[t] = Cardinality(Pending(t)')
<1> DEFINE D == DOMAIN cmds
<1>1. /\ mail' = [p \in Player |-> IF p \in D THEN Append(mail[p], cmds[p]) ELSE mail[p]]
      /\ waiting' = [waiting EXCEPT ![s] = Cardinality(D)]
  BY DEF Post
<1>2. /\ \A p \in Player : p \notin D => mail'[p] = mail[p]
      /\ \A p \in Player : p \in D => mail'[p] = Append(mail[p], cmds[p])
  BY <1>1
<1>3. mail' \in [Player -> Seq(Letters)]
  <2>1. ASSUME NEW p \in Player PROVE mail'[p] \in Seq(Letters)
    <3>1. mail[p] \in Seq(Letters)
      OBVIOUS
    <3>2. CASE p \in D
      <4>1. cmds[p] \in Letters /\ mail'[p] = Append(mail[p], cmds[p])
        BY <1>2, <3>2
      <4> QED BY <3>1, <4>1
    <3>3. CASE p \notin D
      BY <1>2, <3>1, <3>3
    <3> QED BY <3>2, <3>3
  <2> QED BY <1>1, <2>1
<1>4. ASSUME NEW p \in Player, NEW t \in Reqs
      PROVE  Has(p, t)' <=> Has(p, t) \/ (t = s /\ p \in D)
  <2>1. mail[p] \in Seq(Letters) /\ Len(mail[p]) \in Nat
    OBVIOUS
  <2>2. Has(p, t)' <=> \E i \in 1..Len(mail'[p]) : mail'[p][i].slot = t
    BY DEF Has
  <2>3. CASE p \notin D
    BY <1>2, <2>2, <2>3 DEF Has
  <2>4. CASE p \in D
    <3>1. mail'[p] = Append(mail[p], cmds[p]) /\ cmds[p].slot = s /\ cmds[p] \in Letters
      BY <1>2, <2>4
    <3>2. /\ Len(mail'[p]) = Len(mail[p]) + 1
          /\ \A i \in 1..Len(mail[p]) : mail'[p][i] = mail[p][i]
          /\ mail'[p][Len(mail[p]) + 1] = cmds[p]
      BY <2>1, <3>1
    <3>3. ASSUME Has(p, t) PROVE Has(p, t)'
      <4>1. PICK i \in 1..Len(mail[p]) : mail[p][i].slot = t
        BY <3>3 DEF Has
      <4>2. i \in 1..Len(mail'[p]) /\ mail'[p][i].slot = t
        BY <2>1, <3>2, <4>1
      <4> QED BY <2>2, <4>2
    <3>4. ASSUME t = s PROVE Has(p, t)'
      <4>1. Len(mail[p]) + 1 \in 1..Len(mail'[p]) /\ mail'[p][Len(mail[p]) + 1].slot = t
        BY <2>1, <3>1, <3>2, <3>4
      <4> QED BY <2>2, <4>1
    <3>5. ASSUME Has(p, t)', t # s PROVE Has(p, t)
      <4>1. PICK i \in 1..Len(mail'[p]) : mail'[p][i].slot = t
        BY <2>2, <3>5
      <4>2. i # Len(mail[p]) + 1
        BY <3>1, <3>2, <3>5, <4>1
      <4>3. i \in 1..Len(mail[p]) /\ mail[p][i].slot = t
        BY <2>1, <3>2, <4>1, <4>2
      <4> QED BY <4>3 DEF Has
    <3> QED BY <2>4, <3>3, <3>4, <3>5
  <2> QED BY <2>3, <2>4
<1>5. Pending(s) = {} /\ \A p \in Player : ~Has(p, s)
  BY NoneAwaited
<1>6. Pending(s)' = D
  <2>1. Pending(s)' = {p \in Player : Has(p, s)'}
    BY DEF Pending
  <2> QED BY <1>4, <1>5, <2>1
<1>7. ASSUME NEW t \in Reqs, t # s PROVE Pending(t)' = Pending(t)
  <2>1. Pending(t)' = {p \in Player : Has(p, t)'} /\ Pending(t) = {p \in Player : Has(p, t)}
    BY DEF Pending
  <2> QED BY <1>4, <1>7, <2>1
<1>8. waiting' \in [Reqs -> 0..2] /\ waiting'[s] = Cardinality(D)
      /\ \A t \in Reqs : t # s => waiting'[t] = waiting[t]
  BY <1>1
<1>9. \A t \in Reqs : waiting'[t] = Cardinality(Pending(t)')
  <2>1. \A t \in Reqs : waiting[t] = Cardinality(Pending(t))
    BY DEF RequestOK
  <2> QED BY <1>6, <1>7, <1>8, <2>1
<1> QED BY <1>2, <1>3, <1>6, <1>7, <1>8, <1>9

\* What taking the first command c of p's mailbox does.
TakesFirst(p, c) ==
  /\ c = mail[p][1] /\ 1 \in 1..Len(mail[p])
  /\ mail' \in [Player -> Seq(Letters)]
  /\ \A q \in Player : q # p => mail'[q] = mail[q]
  /\ Len(mail'[p]) = Len(mail[p]) - 1
  /\ \A i \in 1..Len(mail'[p]) : i + 1 \in 1..Len(mail[p]) /\ mail'[p][i] = mail[p][i + 1]
  /\ Pending(c.slot)' = Pending(c.slot) \ {p}
  /\ p \in Pending(c.slot)
  /\ \A t \in Reqs : t # c.slot => Pending(t)' = Pending(t)

\* A command that leaves a mailbox was the only one of its request there.
LEMMA Taken ==
  ASSUME mail \in [Player -> Seq(Letters)], \A q \in Player : MailOK(q),
         NEW p \in Player, mail[p] # <<>>, mail' = [mail EXCEPT ![p] = Tail(@)],
         NEW c, c = Head(mail[p])
  PROVE  TakesFirst(p, c)
<1>1. /\ mail[p] \in Seq(Letters) /\ Len(mail[p]) \in Nat \ {0}
      /\ c = mail[p][1] /\ 1 \in 1..Len(mail[p])
  OBVIOUS
<1>2. /\ mail'[p] = Tail(mail[p]) /\ \A q \in Player : q # p => mail'[q] = mail[q]
  OBVIOUS
<1>3. /\ Len(mail'[p]) = Len(mail[p]) - 1 /\ Tail(mail[p]) \in Seq(Letters)
      /\ \A i \in 1..Len(mail'[p]) : i + 1 \in 1..Len(mail[p]) /\ mail'[p][i] = mail[p][i + 1]
  BY <1>1, <1>2
<1>4. mail' \in [Player -> Seq(Letters)]
  BY <1>3
<1>5. \A i, j \in 1..Len(mail[p]) : mail[p][i].slot = mail[p][j].slot => i = j
  BY DEF MailOK
<1>6. c.slot \in Reqs /\ Has(p, c.slot)
  BY <1>1, LettersTyped
<1>7. ASSUME NEW t \in Reqs, NEW q \in Player, q # p PROVE Has(q, t)' <=> Has(q, t)
  BY <1>2, <1>7 DEF Has
<1>8. ~ Has(p, c.slot)'
  <2> SUFFICES ASSUME NEW i \in 1..Len(mail'[p]), mail'[p][i].slot = c.slot PROVE FALSE
    BY DEF Has
  <2>1. i + 1 \in 1..Len(mail[p]) /\ mail[p][i + 1].slot = mail[p][1].slot
    BY <1>1, <1>3
  <2>2. i + 1 = 1
    BY <1>1, <1>5, <2>1
  <2>3. i \in Nat /\ i >= 1
    BY <1>1, <1>3
  <2> QED BY <2>2, <2>3
<1>9. ASSUME NEW t \in Reqs, t # c.slot PROVE Has(p, t)' <=> Has(p, t)
  <2>1. ASSUME Has(p, t)' PROVE Has(p, t)
    <3>1. PICK i \in 1..Len(mail'[p]) : mail'[p][i].slot = t
      BY <2>1 DEF Has
    <3> QED BY <1>3, <3>1 DEF Has
  <2>2. ASSUME Has(p, t) PROVE Has(p, t)'
    <3>1. PICK i \in 1..Len(mail[p]) : mail[p][i].slot = t
      BY <2>2 DEF Has
    <3>2. i # 1
      BY <1>1, <1>9, <3>1
    <3>3. i - 1 \in 1..Len(mail'[p]) /\ (i - 1) + 1 = i
      BY <1>1, <1>3, <3>1, <3>2
    <3>4. mail'[p][i - 1].slot = t
      BY <1>3, <3>1, <3>3
    <3> QED BY <3>3, <3>4 DEF Has
  <2> QED BY <2>1, <2>2
<1>10. \A t \in Reqs : /\ Pending(t)' = {q \in Player : Has(q, t)'}
                       /\ Pending(t) = {q \in Player : Has(q, t)}
  BY DEF Pending
<1>11. Pending(c.slot)' = Pending(c.slot) \ {p}
  <2>1. \A q \in Player : Has(q, c.slot)' <=> Has(q, c.slot) /\ q # p
    BY <1>6, <1>7, <1>8
  <2>2. Pending(c.slot)' = {q \in Player : Has(q, c.slot)'}
    BY DEF Pending
  <2> QED BY <1>6, <1>10, <2>1, <2>2
<1>12. ASSUME NEW t \in Reqs, t # c.slot PROVE Pending(t)' = Pending(t)
  <2>1. \A q \in Player : Has(q, t)' <=> Has(q, t)
    BY <1>7, <1>9, <1>12
  <2> QED BY <1>10, <2>1
<1>13. p \in Pending(c.slot)
  BY <1>6 DEF Pending
<1> QED BY <1>1, <1>2, <1>3, <1>4, <1>11, <1>12, <1>13 DEF TakesFirst

\* After a post each mailbox still holds one command per request, each awaited,
\* and no stake that moved can be locked again.
LEMMA MailPosted ==
  ASSUME mail \in [Player -> Seq(Letters)], waiting \in [Reqs -> 0..2],
         pc \in [Reqs -> {"idle", "locking", "undoing", "cancelling", "refunding", "voiding",
                          "paying", "publishing"}],
         \A t \in Reqs : RequestOK(t), \A q \in Player : MailOK(q) /\ StakeOK(q),
         NEW s \in Reqs, waiting[s] = 0,
         NEW cmds, DOMAIN cmds \subseteq Player, Cardinality(DOMAIN cmds) \in 0..2,
         \A q \in DOMAIN cmds : cmds[q] \in Letters /\ cmds[q].slot = s,
         Post(s, cmds), NEW place, MoveTo(s, place), UNCHANGED <<match, view, money>>,
         \A q \in DOMAIN cmds : Awaited(q, cmds[q])',
         \A q \in DOMAIN cmds : cmds[q].kind = "LOCK" => match # "RESOLVED",
         NEW p \in Player
  PROVE  MailOK(p)' /\ StakeOK(p)'
<1>1. /\ mail' \in [Player -> Seq(Letters)]
      /\ p \notin DOMAIN cmds => mail'[p] = mail[p]
      /\ p \in DOMAIN cmds => mail'[p] = Append(mail[p], cmds[p])
  BY Posted
<1>2. /\ mail[p] \in Seq(Letters) /\ Len(mail[p]) \in Nat
      /\ \A i \in 1..Len(mail[p]) : mail[p][i].slot \in Reqs /\ mail[p][i].slot # s
  <2>1. \A q \in Player : ~Has(q, s)
    BY NoneAwaited
  <2> QED BY <2>1, LettersTyped DEF Has
<1>3. \A t \in Reqs : t # s => pc'[t] = pc[t]
  BY DEF MoveTo
<1>4. MailOK(p) /\ StakeOK(p)
  OBVIOUS
<1>5. \A i \in 1..Len(mail[p]) : Awaited(p, mail[p][i])
  BY <1>4 DEF MailOK
<1>6. ASSUME NEW i \in 1..Len(mail[p]), NEW c, c = mail[p][i] PROVE Awaited(p, c)'
  <2>1. c.slot \in Reqs /\ pc'[c.slot] = pc[c.slot]
    BY <1>2, <1>3, <1>6
  <2>2. Awaited(p, c)
    BY <1>5, <1>6
  <2> QED BY <2>1, <2>2 DEF Awaited
<1>7. CASE p \notin DOMAIN cmds
  <2>1. mail'[p] = mail[p]
    BY <1>1, <1>7
  <2>2. \A i \in 1..Len(mail'[p]) : Awaited(p, mail[p][i])'
    BY <1>6, <2>1 DEF Awaited
  <2>3. MailOK(p)'
    BY <1>4, <2>1, <2>2 DEF MailOK
  <2>4. StakeOK(p)'
    BY <1>4, <2>1 DEF StakeOK, Worth, money
  <2> QED BY <2>3, <2>4
<1>8. CASE p \in DOMAIN cmds
  <2>1. mail'[p] = Append(mail[p], cmds[p]) /\ cmds[p].slot = s /\ cmds[p] \in Letters
    BY <1>1, <1>8
  <2>2. /\ Len(mail'[p]) = Len(mail[p]) + 1
        /\ \A i \in 1..Len(mail[p]) : mail'[p][i] = mail[p][i]
        /\ mail'[p][Len(mail[p]) + 1] = cmds[p]
        /\ \A i \in 1..Len(mail'[p]) : i \in 1..Len(mail[p]) \/ i = Len(mail[p]) + 1
    BY <1>2, <2>1
  <2>3. \A i, j \in 1..Len(mail'[p]) : mail'[p][i].slot = mail'[p][j].slot => i = j
    <3>1. \A i, j \in 1..Len(mail[p]) : mail[p][i].slot = mail[p][j].slot => i = j
      BY <1>4 DEF MailOK
    <3> QED BY <1>2, <2>1, <2>2, <3>1
  <2>4. cmds[p].kind = "LOCK" => \A i \in 1..Len(mail[p]) : mail[p][i].kind # "PAY"
    <3> SUFFICES ASSUME match # "RESOLVED", NEW i \in 1..Len(mail[p]), mail[p][i].kind = "PAY"
                 PROVE FALSE
      BY <1>8
    <3>1. pc[mail[p][i].slot] = "paying" /\ mail[p][i].slot \in Reqs
      BY <1>2, <1>5 DEF Awaited
    <3>2. RequestOK(mail[p][i].slot)
      BY <3>1
    <3> QED BY <3>1, <3>2 DEF RequestOK, Settling
  <2>5. \A i, j \in 1..Len(mail'[p]) :
          mail'[p][i].kind = "PAY" /\ mail'[p][j].kind = "LOCK" => j < i
    <3>1. \A i, j \in 1..Len(mail[p]) : mail[p][i].kind = "PAY" /\ mail[p][j].kind = "LOCK" => j < i
      BY <1>4 DEF MailOK
    <3> SUFFICES ASSUME NEW i \in 1..Len(mail'[p]), NEW j \in 1..Len(mail'[p]),
                        mail'[p][i].kind = "PAY", mail'[p][j].kind = "LOCK"
                 PROVE  j < i
      OBVIOUS
    <3>2. CASE j = Len(mail[p]) + 1
      <4>1. cmds[p].kind = "LOCK"
        BY <2>2, <3>2
      <4>2. i = Len(mail[p]) + 1
        BY <2>2, <2>4, <4>1
      <4> QED BY <2>2, <4>1, <4>2
    <3>3. CASE j \in 1..Len(mail[p])
      BY <1>2, <2>2, <3>1, <3>3
    <3> QED BY <2>2, <3>2, <3>3
  <2>6. \A i \in 1..Len(mail'[p]) : Awaited(p, mail[p][i])'
    <3> SUFFICES ASSUME NEW i \in 1..Len(mail'[p]), NEW c, c = mail'[p][i] PROVE Awaited(p, c)'
      BY DEF Awaited
    <3>1. CASE i \in 1..Len(mail[p])
      BY <1>6, <2>2, <3>1
    <3>2. CASE i = Len(mail[p]) + 1
      <4>1. c = cmds[p]
        BY <2>2, <3>2
      <4> QED BY <1>8, <4>1
    <3> QED BY <2>2, <3>1, <3>2
  <2>7. MailOK(p)'
    BY <2>3, <2>5, <2>6 DEF MailOK
  <2>8. StakeOK(p)'
    <3>1. CASE Worth(p) = Initial
      BY <3>1 DEF StakeOK, Worth, money
    <3>2. CASE Worth(p) # Initial
      <4>1. /\ Worth(p) \in {Initial - Stake, Initial + Stake - Rake}
            /\ locked[p] = 0 /\ match = "RESOLVED"
            /\ \A i \in 1..Len(mail[p]) : mail[p][i].kind # "LOCK"
        BY <1>4, <3>2 DEF StakeOK
      <4>2. cmds[p].kind # "LOCK"
        BY <1>8, <4>1
      <4>3. \A i \in 1..Len(mail'[p]) : mail'[p][i].kind # "LOCK"
        BY <2>2, <4>1, <4>2
      <4> QED BY <4>1, <4>3 DEF StakeOK, Worth, money
    <3> QED BY <3>1, <3>2
  <2> QED BY <2>7, <2>8
<1> QED BY <1>7, <1>8

\* A request that waits for nobody moves on, or the match does: mailboxes and
\* stakes are as they were.
LEMMA MailKept ==
  ASSUME mail \in [Player -> Seq(Letters)],
         \A t \in Reqs : RequestOK(t), \A q \in Player : MailOK(q) /\ StakeOK(q),
         UNCHANGED <<mail, money>>, match = "RESOLVED" => match' = "RESOLVED",
         \A t \in Reqs : waiting[t] # 0 => pc'[t] = pc[t]
  PROVE  /\ \A p \in Player : MailOK(p)' /\ StakeOK(p)'
         /\ \A t \in Reqs : Pending(t)' = Pending(t)
<1>1. \A t \in Reqs : Pending(t)' = Pending(t)
  BY DEF Pending, Has
<1>2. ASSUME NEW p \in Player PROVE MailOK(p)'
  <2>1. ASSUME NEW i \in 1..Len(mail[p]), NEW c, c = mail[p][i] PROVE Awaited(p, c)'
    <3>1. c.slot \in Reqs /\ Has(p, c.slot)
      BY <2>1, LettersTyped
    <3>2. waiting[c.slot] # 0
      BY <3>1, NoneAwaited
    <3>3. Awaited(p, c)
      BY <2>1 DEF MailOK
    <3> QED BY <3>1, <3>2, <3>3 DEF Awaited
  <2>2. \A i \in 1..Len(mail'[p]) : Awaited(p, mail[p][i])'
    BY <2>1 DEF Awaited
  <2> QED BY <2>2 DEF MailOK
<1>3. ASSUME NEW p \in Player PROVE StakeOK(p)'
  BY DEF StakeOK, Worth, money
<1> QED BY <1>1, <1>2, <1>3

\* What holds of a request that a step does not touch.
LEMMA RequestKept ==
  ASSUME NEW t \in Reqs, RequestOK(t),
         waiting'[t] = waiting[t], pc'[t] = pc[t], expected'[t] = expected[t],
         Pending(t)' = Pending(t),
         match = "RESOLVED" => match' = "RESOLVED" /\ result' = result,
         view.opponent # None => view'.opponent # None,
         Opening(t) => view'.status = view.status
  PROVE  RequestOK(t)'
<1>1. Opening(t)' <=> Opening(t)
  BY DEF Opening
<1>2. Settling(t)' <=> Settling(t)
  BY DEF Settling
<1>3. (waiting[t] = Cardinality(Pending(t)))'
  BY DEF RequestOK
<1> QED BY <1>1, <1>2, <1>3 DEF RequestOK, Settling

(* Request s posts the commands cmds, moves to place and awaits them. *)
Sends(s, cmds, place) ==
  /\ waiting[s] = 0 /\ Post(s, cmds) /\ MoveTo(s, place)
  /\ DOMAIN cmds \subseteq Player /\ Cardinality(DOMAIN cmds) \in 1..2
  /\ \A p \in DOMAIN cmds :
       /\ cmds[p] \in Letters /\ cmds[p].slot = s /\ Awaited(p, cmds[p])'
       /\ cmds[p].kind = "LOCK" => match # "RESOLVED"
  /\ \A t \in Reqs : t # s => expected'[t] = expected[t]
  /\ UNCHANGED <<match, result, escrow, cached, money, crashes>>

\* Sending leaves every mailbox, every stake and every other request in order.
LEMMA SendStep ==
  ASSUME ChallengeIInv, NEW s \in Reqs, NEW cmds, NEW place, Sends(s, cmds, place)
  PROVE  /\ mail' \in [Player -> Seq(Letters)] /\ waiting' \in [Reqs -> 0..2]
         /\ \A p \in Player : MailOK(p)' /\ StakeOK(p)'
         /\ \A p \in Player : p \notin DOMAIN cmds => mail'[p] = mail[p]
         /\ \A p \in Player : p \in DOMAIN cmds => mail'[p] = Append(mail[p], cmds[p])
         /\ Pending(s)' = DOMAIN cmds
         /\ waiting'[s] = Cardinality(Pending(s)') /\ waiting'[s] > 0
         /\ \A t \in Reqs : t # s => /\ pc'[t] = pc[t] /\ waiting'[t] = waiting[t]
                                     /\ expected'[t] = expected[t]
                                     /\ Pending(t)' = Pending(t) /\ RequestOK(t)'
         /\ pc'[s] = place
<1>1. /\ mail \in [Player -> Seq(Letters)] /\ waiting \in [Reqs -> 0..2]
      /\ pc \in [Reqs -> {"idle", "locking", "undoing", "cancelling", "refunding", "voiding",
                          "paying", "publishing"}]
      /\ \A t \in Reqs : RequestOK(t)
      /\ \A q \in Player : MailOK(q) /\ StakeOK(q)
  BY DEF ChallengeIInv, ChallengeTypeOK
<1>2. /\ waiting[s] = 0 /\ Post(s, cmds) /\ MoveTo(s, place)
      /\ DOMAIN cmds \subseteq Player /\ Cardinality(DOMAIN cmds) \in 0..2
      /\ Cardinality(DOMAIN cmds) > 0
  BY DEF Sends
<1>3. \A p \in DOMAIN cmds : cmds[p] \in Letters /\ cmds[p].slot = s
  BY DEF Sends
<1>4. /\ mail' \in [Player -> Seq(Letters)] /\ waiting' \in [Reqs -> 0..2]
      /\ \A t \in Reqs : t # s => waiting'[t] = waiting[t]
      /\ \A p \in Player : p \notin DOMAIN cmds => mail'[p] = mail[p]
      /\ \A p \in Player : p \in DOMAIN cmds => mail'[p] = Append(mail[p], cmds[p])
      /\ Pending(s)' = DOMAIN cmds
      /\ \A t \in Reqs : t # s => Pending(t)' = Pending(t)
      /\ \A t \in Reqs : waiting'[t] = Cardinality(Pending(t)')
  BY <1>1, <1>2, <1>3, Posted
<1>5. \A p \in Player : MailOK(p)' /\ StakeOK(p)'
  <2>1. UNCHANGED <<match, view, money>>
    BY DEF Sends, escrow
  <2>2. \A q \in DOMAIN cmds : Awaited(q, cmds[q])'
    BY DEF Sends
  <2>3. \A q \in DOMAIN cmds : cmds[q].kind = "LOCK" => match # "RESOLVED"
    BY DEF Sends
  <2> QED BY <1>1, <1>2, <1>3, <2>1, <2>2, <2>3, MailPosted
<1>6. pc'[s] = place /\ \A t \in Reqs : t # s => pc'[t] = pc[t]
  BY <1>1, <1>2 DEF MoveTo
<1>7. /\ \A t \in Reqs : t # s => expected'[t] = expected[t]
      /\ match' = match /\ result' = result /\ view' = view
  BY DEF Sends, escrow
<1>8. \A t \in Reqs : t # s => RequestOK(t)'
  BY <1>1, <1>4, <1>6, <1>7, RequestKept
<1>9. waiting'[s] > 0
  BY <1>2, <1>4
<1> QED BY <1>4, <1>5, <1>6, <1>7, <1>8, <1>9

\* What holds of an uncontested request that a step does not touch.
LEMMA CalmKept ==
  ASSUME NEW t \in Reqs, CalmRequest(t), UNCHANGED <<view, money>>,
         pc'[t] = pc[t], expected'[t] = expected[t], Pending(t)' = Pending(t)
  PROVE  CalmRequest(t)'
BY DEF CalmRequest, money, Sides

\* Sending keeps an uncontested challenge calm.
LEMMA SendCalm ==
  ASSUME ChallengeIInv, NEW s \in Reqs, NEW cmds, NEW place, Sends(s, cmds, place),
         ~contested, \A t, u \in Contenders' : t = u, CalmRequest(s)', pc[s] # "cancelling",
         \A p \in DOMAIN cmds : cmds[p].kind = "PAY" =>
           p \in Sides /\ cmds[p].amount = IF p = Winner(view.opponent) THEN WinnerPayout ELSE 0
  PROVE  Calm'
<1>1. /\ \A t \in Reqs : t # s => /\ pc'[t] = pc[t] /\ expected'[t] = expected[t]
                                  /\ Pending(t)' = Pending(t)
      /\ \A p \in Player : p \notin DOMAIN cmds => mail'[p] = mail[p]
      /\ \A p \in Player : p \in DOMAIN cmds => mail'[p] = Append(mail[p], cmds[p])
  BY SendStep
<1>2. /\ view' = view /\ stored' = stored /\ cached' = cached /\ result' = result
      /\ free' = free /\ locked' = locked /\ match' = match
  BY DEF Sends, escrow, money
<1>3. /\ CalmView /\ \A t \in Reqs : CalmRequest(t)
      /\ \A p \in Player : CalmMoney(p) /\ CalmMail(p)
      /\ mail \in [Player -> Seq(Letters)]
  BY DEF ChallengeIInv, Calm
<1>4. \A t \in Reqs : CalmRequest(t)'
  BY <1>1, <1>2, <1>3, CalmKept DEF money
<1>5. CalmView'
  <2>1. \A t \in Reqs : pc[t] = "cancelling" => pc'[t] = "cancelling"
    BY <1>1
  <2> QED BY <1>2, <1>3, <2>1 DEF CalmView, Sides
<1>6. ASSUME NEW p \in Player PROVE CalmMoney(p)'
  <2>1. CalmMoney(p)
    BY <1>3
  <2> QED BY <1>2, <2>1 DEF CalmMoney, Worth, Sides, Gain, Winner
<1>7. ASSUME NEW p \in Player PROVE CalmMail(p)'
  <2>1. mail[p] \in Seq(Letters) /\ CalmMail(p)
    BY <1>3
  <2>2. CASE p \notin DOMAIN cmds
    BY <1>1, <1>2, <2>1, <2>2 DEF CalmMail, Sides, Winner
  <2>3. CASE p \in DOMAIN cmds
    <3> SUFFICES ASSUME NEW i \in 1..Len(mail'[p]), NEW c, c = mail'[p][i], c.kind = "PAY"
                 PROVE p \in Sides /\ c.amount = IF p = Winner(view.opponent) THEN WinnerPayout ELSE 0
      BY <1>2 DEF CalmMail, Sides, Winner
    <3>1. mail'[p] = Append(mail[p], cmds[p])
      BY <1>1, <2>3
    <3>2. c = cmds[p] \/ \E j \in 1..Len(mail[p]) : c = mail[p][j]
      BY <2>1, <3>1
    <3> QED BY <2>1, <2>3, <3>2 DEF CalmMail
  <2> QED BY <2>2, <2>3
<1> QED BY <1>4, <1>5, <1>6, <1>7 DEF Calm

-----------------------------------------------------------------------------
(* Requests that send commands *)

\* A request that is idle waits for nobody and has read no version.
LEMMA IdleFacts ==
  ASSUME ChallengeIInv, NEW s \in Reqs, pc[s] = "idle"
  PROVE  waiting[s] = 0 /\ expected[s] = None
BY DEF ChallengeIInv, RequestOK

\* What one command to one player is.
LEMMA OneLetter ==
  ASSUME NEW s \in Reqs, NEW p \in Player, NEW kind, kind \in {"LOCK", "REFUND"},
         NEW cmds, cmds = [q \in {p} |-> Command(s, kind, 0)]
  PROVE  /\ DOMAIN cmds = {p} /\ {p} \subseteq Player /\ Cardinality(DOMAIN cmds) \in 1..2
         /\ cmds[p] \in Letters /\ cmds[p].slot = s /\ cmds[p].kind = kind
         /\ \A q \in DOMAIN cmds : q = p
<1>1. DOMAIN cmds = {p} /\ cmds[p] = [slot |-> s, kind |-> kind, amount |-> 0]
  BY DEF Command
<1>2. Cardinality({p}) = 1
  BY OneOrTwo
<1>3. cmds[p] \in Letters
  BY <1>1 DEF Letters
<1> QED BY <1>1, <1>2, <1>3

\* The types of a step that sends.
LEMMA SendTypes ==
  ASSUME ChallengeIInv, NEW s \in Reqs, NEW cmds, NEW place, Sends(s, cmds, place),
         place \in {"locking", "undoing", "cancelling", "refunding", "voiding", "paying"},
         expected' \in [Reqs -> Nat \cup {None}], contested' \in BOOLEAN
  PROVE  ChallengeTypeOK'
<1>1. pc' = [pc EXCEPT ![s] = place] /\ UNCHANGED <<match, result, escrow, money, cached, crashes>>
  BY DEF Sends, MoveTo
<1>2. waiting' \in [Reqs -> 0..2]
  BY SendStep
<1>3. ChallengeTypeOK
  BY DEF ChallengeIInv
<1> QED BY <1>1, <1>2, <1>3 DEF ChallengeTypeOK, escrow, money

\* create keeps the invariant.
LEMMA CreateStartKeeps ==
  ASSUME ChallengeIInv, NEW s \in Reqs, CreateStart(s)
  PROVE  ChallengeIInv'
<1>1. /\ pc[s] = "idle" /\ Op[s] = "create" /\ match = "OPEN" /\ view.status = "NONE"
      /\ locked[Creator] = 0 /\ PostTo(s, Creator, "LOCK") /\ MoveTo(s, "locking")
      /\ UNCHANGED <<match, result, escrow, cached, money, expected, contested, crashes>>
  BY DEF CreateStart
<1>2. waiting[s] = 0 /\ expected[s] = None /\ Who[s] = Creator /\ Creator \in Player
  BY <1>1, IdleFacts, PlayersFacts
<1>3. PICK cmds : cmds = [q \in {Creator} |-> Command(s, "LOCK", 0)]
  OBVIOUS
<1>4. /\ DOMAIN cmds = {Creator} /\ {Creator} \subseteq Player /\ Cardinality(DOMAIN cmds) \in 1..2
      /\ cmds[Creator] \in Letters /\ cmds[Creator].slot = s /\ cmds[Creator].kind = "LOCK"
      /\ \A q \in DOMAIN cmds : q = Creator
  BY <1>2, <1>3, OneLetter
<1>5. pc \in [Reqs -> {"idle", "locking", "undoing", "cancelling", "refunding", "voiding",
                       "paying", "publishing"}]
  BY DEF ChallengeIInv, ChallengeTypeOK
<1>6. Awaited(Creator, cmds[Creator])'
  BY <1>1, <1>2, <1>4, <1>5 DEF Awaited, MoveTo
<1>7. Sends(s, cmds, "locking")
  BY <1>1, <1>2, <1>3, <1>4, <1>6 DEF Sends, PostTo
<1>8. /\ mail' \in [Player -> Seq(Letters)]
      /\ \A p \in Player : MailOK(p)' /\ StakeOK(p)'
      /\ Pending(s)' = {Creator} /\ waiting'[s] = Cardinality(Pending(s)') /\ waiting'[s] > 0
      /\ \A t \in Reqs : t # s => pc'[t] = pc[t] /\ RequestOK(t)'
      /\ pc'[s] = "locking"
  BY <1>4, <1>7, SendStep
<1>9. ChallengeTypeOK'
  <2>1. expected' \in [Reqs -> Nat \cup {None}] /\ contested' \in BOOLEAN
    BY <1>1 DEF ChallengeIInv, ChallengeTypeOK
  <2> QED BY <1>7, <2>1, SendTypes
<1>10. RequestOK(s)'
  BY <1>1, <1>2, <1>8 DEF RequestOK, Settling, Opening, escrow
<1>11. ViewOK'
  <2>1. ViewOK
    BY DEF ChallengeIInv
  <2> QED BY <1>1, <1>8, <2>1 DEF ViewOK, Opening, escrow
<1>12. Calm'
  <2> SUFFICES ASSUME ~contested PROVE Calm'
    BY <1>1 DEF Calm
  <2>1. \A t, u \in Contenders' : t = u
    <3>1. Contenders' \subseteq Contenders
      BY <1>1, <1>8 DEF Contenders
    <3>2. \A t, u \in Contenders : t = u
      BY DEF ChallengeIInv, Calm, CalmView
    <3> QED BY <3>1, <3>2
  <2>2. CalmRequest(s)'
    BY <1>1, <1>2, <1>8 DEF CalmRequest, escrow
  <2> QED BY <1>1, <1>4, <1>7, <2>1, <2>2, SendCalm
<1> QED BY <1>8, <1>9, <1>10, <1>11, <1>12 DEF ChallengeIInv

\* What accept and cancel do to the contenders of a challenge.
LEMMA ContendersOf ==
  ASSUME NEW s \in Reqs, Contenders = {}, \A t \in Reqs : t # s => pc'[t] = pc[t]
  PROVE  \A t, u \in Contenders' : t = u
BY DEF Contenders

\* accept keeps the invariant.
LEMMA AcceptStartKeeps ==
  ASSUME ChallengeIInv, NEW s \in Reqs, AcceptStart(s)
  PROVE  ChallengeIInv'
<1>1. /\ pc[s] = "idle" /\ Op[s] = "accept" /\ view.status = "OPEN" /\ Who[s] # Creator
      /\ match = "OPEN" /\ PostTo(s, Who[s], "LOCK") /\ MoveTo(s, "locking")
      /\ contested' = (contested \/ Contenders # {})
      /\ UNCHANGED <<match, result, escrow, cached, money, expected, crashes>>
  BY DEF AcceptStart
<1>2. waiting[s] = 0 /\ expected[s] = None /\ Who[s] \in Player
  BY <1>1, IdleFacts, PlayersFacts
<1> DEFINE q == Who[s]
<1>3. PICK cmds : cmds = [p \in {q} |-> Command(s, "LOCK", 0)]
  OBVIOUS
<1>4. /\ DOMAIN cmds = {q} /\ {q} \subseteq Player /\ Cardinality(DOMAIN cmds) \in 1..2
      /\ cmds[q] \in Letters /\ cmds[q].slot = s /\ cmds[q].kind = "LOCK"
      /\ \A p \in DOMAIN cmds : p = q
  BY <1>2, <1>3, OneLetter
<1>5. pc \in [Reqs -> {"idle", "locking", "undoing", "cancelling", "refunding", "voiding",
                       "paying", "publishing"}]
  BY DEF ChallengeIInv, ChallengeTypeOK
<1>6. Awaited(q, cmds[q])'
  BY <1>1, <1>2, <1>4, <1>5 DEF Awaited, MoveTo
<1>7. Sends(s, cmds, "locking")
  BY <1>1, <1>2, <1>3, <1>4, <1>6 DEF Sends, PostTo
<1>8. /\ mail' \in [Player -> Seq(Letters)]
      /\ \A p \in Player : MailOK(p)' /\ StakeOK(p)'
      /\ Pending(s)' = {q} /\ waiting'[s] = Cardinality(Pending(s)') /\ waiting'[s] > 0
      /\ \A t \in Reqs : t # s => pc'[t] = pc[t] /\ RequestOK(t)'
      /\ pc'[s] = "locking"
  BY <1>4, <1>7, SendStep
<1>9. ChallengeTypeOK'
  <2>1. expected' \in [Reqs -> Nat \cup {None}] /\ contested' \in BOOLEAN
    BY <1>1 DEF ChallengeIInv, ChallengeTypeOK
  <2> QED BY <1>7, <2>1, SendTypes
<1>10. RequestOK(s)'
  BY <1>1, <1>2, <1>8 DEF RequestOK, Settling, Opening, escrow
<1>11. ViewOK'
  <2>1. ViewOK
    BY DEF ChallengeIInv
  <2> QED BY <1>1, <1>8, <2>1 DEF ViewOK, Opening, escrow
<1>12. Calm'
  <2> SUFFICES ASSUME ~contested, Contenders = {} PROVE Calm'
    BY <1>1 DEF Calm
  <2>1. \A t, u \in Contenders' : t = u
    BY <1>8, ContendersOf
  <2>2. CalmRequest(s)'
    BY <1>1, <1>2, <1>8 DEF CalmRequest, escrow
  <2> QED BY <1>1, <1>4, <1>7, <2>1, <2>2, SendCalm
<1> QED BY <1>8, <1>9, <1>10, <1>11, <1>12 DEF ChallengeIInv

\* cancel keeps the invariant.
LEMMA CancelStartKeeps ==
  ASSUME ChallengeIInv, NEW s \in Reqs, CancelStart(s)
  PROVE  ChallengeIInv'
<1>1. /\ pc[s] = "idle" /\ Op[s] = "cancel" /\ view.status = "OPEN"
      /\ PostTo(s, Creator, "REFUND") /\ MoveTo(s, "cancelling")
      /\ contested' = (contested \/ Contenders # {})
      /\ UNCHANGED <<match, result, escrow, cached, money, expected, crashes>>
  BY DEF CancelStart
<1>2. waiting[s] = 0 /\ expected[s] = None /\ Creator \in Player
  BY <1>1, IdleFacts, PlayersFacts
<1>3. PICK cmds : cmds = [p \in {Creator} |-> Command(s, "REFUND", 0)]
  OBVIOUS
<1>4. /\ DOMAIN cmds = {Creator} /\ {Creator} \subseteq Player /\ Cardinality(DOMAIN cmds) \in 1..2
      /\ cmds[Creator] \in Letters /\ cmds[Creator].slot = s /\ cmds[Creator].kind = "REFUND"
      /\ \A p \in DOMAIN cmds : p = Creator
  BY <1>2, <1>3, OneLetter
<1>5. pc \in [Reqs -> {"idle", "locking", "undoing", "cancelling", "refunding", "voiding",
                       "paying", "publishing"}]
  BY DEF ChallengeIInv, ChallengeTypeOK
<1>6. Awaited(Creator, cmds[Creator])'
  BY <1>1, <1>2, <1>4, <1>5 DEF Awaited, MoveTo
<1>7. Sends(s, cmds, "cancelling")
  BY <1>1, <1>2, <1>3, <1>4, <1>6 DEF Sends, PostTo
<1>8. /\ mail' \in [Player -> Seq(Letters)]
      /\ \A p \in Player : MailOK(p)' /\ StakeOK(p)'
      /\ Pending(s)' = {Creator} /\ waiting'[s] = Cardinality(Pending(s)') /\ waiting'[s] > 0
      /\ \A t \in Reqs : t # s => pc'[t] = pc[t] /\ RequestOK(t)'
      /\ pc'[s] = "cancelling"
  BY <1>4, <1>7, SendStep
<1>9. ChallengeTypeOK'
  <2>1. expected' \in [Reqs -> Nat \cup {None}] /\ contested' \in BOOLEAN
    BY <1>1 DEF ChallengeIInv, ChallengeTypeOK
  <2> QED BY <1>7, <2>1, SendTypes
<1>10. RequestOK(s)'
  BY <1>1, <1>2, <1>8 DEF RequestOK, Settling, Opening, escrow
<1>11. ViewOK'
  <2>1. ViewOK
    BY DEF ChallengeIInv
  <2> QED BY <1>1, <1>8, <2>1 DEF ViewOK, Opening, escrow
<1>12. Calm'
  <2> SUFFICES ASSUME ~contested, Contenders = {} PROVE Calm'
    BY <1>1 DEF Calm
  <2>1. \A t, u \in Contenders' : t = u
    BY <1>8, ContendersOf
  <2>2. CalmRequest(s)'
    BY <1>1, <1>2, <1>8 DEF CalmRequest, escrow
  <2> QED BY <1>1, <1>4, <1>7, <2>1, <2>2, SendCalm
<1> QED BY <1>8, <1>9, <1>10, <1>11, <1>12 DEF ChallengeIInv

\* A step of a settle request leaves the contenders alone.
LEMMA SameContenders ==
  ASSUME ChallengeIInv, ~contested, NEW s \in Reqs, Op[s] \notin {"accept", "cancel"} \/ pc[s] # "idle",
         \A t \in Reqs : t # s => pc'[t] = pc[t]
  PROVE  \A t, u \in Contenders' : t = u
<1>1. Contenders' \subseteq Contenders
  BY DEF Contenders
<1>2. \A t, u \in Contenders : t = u
  BY DEF ChallengeIInv, Calm, CalmView
<1> QED BY <1>1, <1>2

\* Whom a decided settlement pays, and what a void one is.
LEMMA WinnerFacts ==
  ASSUME ChallengeIInv, match = "RESOLVED", view.opponent # None
  PROVE  /\ view.opponent \in Player /\ view.opponent # Creator
         /\ Winner(view.opponent) # None <=> result \in {"CREATOR", "OPPONENT"}
         /\ result \notin {"CREATOR", "OPPONENT"} => result = "NEITHER"
<1>1. /\ view.opponent \in Player /\ view.opponent # Creator
      /\ result \in {"NONE", "CREATOR", "OPPONENT", "NEITHER"}
  BY DEF ChallengeIInv, ChallengeTypeOK
<1>2. result # "NONE"
  BY DEF ChallengeIInv, ViewOK
<1>3. Creator # None
  BY PlayersFacts
<1> QED BY <1>1, <1>2, <1>3 DEF Winner

\* settle keeps the invariant: it pays both sides, or refunds the creator first.
LEMMA SettleStartKeeps ==
  ASSUME ChallengeIInv, NEW s \in Reqs, SettleStart(s)
  PROVE  ChallengeIInv'
<1> DEFINE opp == view.opponent
<1>1. /\ pc[s] = "idle" /\ Op[s] = "settle" /\ match = "RESOLVED" /\ view.status = "MATCHED"
      /\ UNCHANGED <<match, result, escrow, cached, money, expected, contested, crashes>>
  BY DEF SettleStart, SettleDue
<1>2. waiting[s] = 0 /\ expected[s] = None /\ Creator \in Player
  BY <1>1, IdleFacts, PlayersFacts
<1>3. /\ opp \in Player /\ opp # Creator /\ opp # None
      /\ Winner(opp) # None <=> result \in {"CREATOR", "OPPONENT"}
      /\ result \notin {"CREATOR", "OPPONENT"} => result = "NEITHER"
  <2>1. opp # None
    BY <1>1 DEF ChallengeIInv, ViewOK
  <2> QED BY <1>1, <2>1, WinnerFacts
<1>4. pc \in [Reqs -> {"idle", "locking", "undoing", "cancelling", "refunding", "voiding",
                       "paying", "publishing"}]
  BY DEF ChallengeIInv, ChallengeTypeOK
<1>5. \E cmds, place :
        /\ Sends(s, cmds, place) /\ DOMAIN cmds \subseteq Sides
        /\ \/ result = "NEITHER" /\ place = "refunding" /\ DOMAIN cmds = {Creator}
              /\ cmds[Creator].kind = "REFUND"
           \/ /\ result \in {"CREATOR", "OPPONENT"} /\ place = "paying" /\ DOMAIN cmds = Sides
              /\ \A p \in Sides : cmds[p].amount = IF p = Winner(opp) THEN WinnerPayout ELSE 0
  <2>1. CASE Winner(opp) = None
    <3>1. PostTo(s, Creator, "REFUND") /\ MoveTo(s, "refunding")
      BY <2>1 DEF SettleStart
    <3>2. PICK cmds : cmds = [p \in {Creator} |-> Command(s, "REFUND", 0)]
      OBVIOUS
    <3>3. /\ DOMAIN cmds = {Creator} /\ {Creator} \subseteq Player /\ Cardinality(DOMAIN cmds) \in 1..2
          /\ cmds[Creator] \in Letters /\ cmds[Creator].slot = s /\ cmds[Creator].kind = "REFUND"
          /\ \A p \in DOMAIN cmds : p = Creator
      BY <1>2, <3>2, OneLetter
    <3>4. Awaited(Creator, cmds[Creator])'
      BY <1>4, <3>1, <3>3 DEF Awaited, MoveTo
    <3>5. Sends(s, cmds, "refunding")
      BY <1>1, <1>2, <3>1, <3>2, <3>3, <3>4 DEF Sends, PostTo
    <3> QED BY <1>3, <2>1, <3>3, <3>5 DEF Sides
  <2>2. CASE Winner(opp) # None
    <3>1. PICK cmds : cmds = [p \in {Creator, opp} |->
                                Command(s, "PAY", IF p = Winner(opp) THEN WinnerPayout ELSE 0)]
      OBVIOUS
    <3>2. Post(s, cmds) /\ MoveTo(s, "paying")
      BY <2>2, <3>1 DEF SettleStart
    <3>3. /\ DOMAIN cmds = Sides /\ Sides \subseteq Player /\ Cardinality(DOMAIN cmds) \in 1..2
      BY <1>2, <1>3, <3>1, OneOrTwo DEF Sides
    <3>4. ASSUME NEW p \in Sides
          PROVE  /\ cmds[p] \in Letters /\ cmds[p].slot = s /\ cmds[p].kind = "PAY"
                 /\ cmds[p].amount = IF p = Winner(opp) THEN WinnerPayout ELSE 0
      BY <3>1 DEF Sides, Letters, Command
    <3>5. ASSUME NEW p \in DOMAIN cmds, NEW c, c = cmds[p] PROVE Awaited(p, c)'
      <4>1. c.slot = s /\ c.kind = "PAY"
        BY <3>3, <3>4, <3>5
      <4> QED BY <1>4, <3>2, <4>1 DEF Awaited, MoveTo
    <3>6. \A p \in DOMAIN cmds : Awaited(p, cmds[p])'
      BY <3>5 DEF Awaited
    <3>7. Sends(s, cmds, "paying")
      BY <1>1, <1>2, <3>2, <3>3, <3>4, <3>6 DEF Sends
    <3> QED BY <1>3, <2>2, <3>3, <3>4, <3>7
  <2> QED BY <2>1, <2>2
<1>6. PICK cmds, place :
        /\ Sends(s, cmds, place) /\ DOMAIN cmds \subseteq Sides
        /\ \/ result = "NEITHER" /\ place = "refunding" /\ DOMAIN cmds = {Creator}
              /\ cmds[Creator].kind = "REFUND"
           \/ /\ result \in {"CREATOR", "OPPONENT"} /\ place = "paying" /\ DOMAIN cmds = Sides
              /\ \A p \in Sides : cmds[p].amount = IF p = Winner(opp) THEN WinnerPayout ELSE 0
  BY <1>5
<1>7. /\ mail' \in [Player -> Seq(Letters)]
      /\ \A p \in Player : MailOK(p)' /\ StakeOK(p)'
      /\ Pending(s)' = DOMAIN cmds /\ waiting'[s] = Cardinality(Pending(s)') /\ waiting'[s] > 0
      /\ \A t \in Reqs : t # s => pc'[t] = pc[t] /\ RequestOK(t)'
      /\ pc'[s] = place
  BY <1>6, SendStep
<1>8. ChallengeTypeOK'
  <2>1. expected' \in [Reqs -> Nat \cup {None}] /\ contested' \in BOOLEAN
    BY <1>1 DEF ChallengeIInv, ChallengeTypeOK
  <2> QED BY <1>6, <2>1, SendTypes
<1>9. RequestOK(s)'
  BY <1>1, <1>2, <1>3, <1>6, <1>7 DEF RequestOK, Settling, Opening, escrow
<1>10. ViewOK'
  <2>1. ViewOK
    BY DEF ChallengeIInv
  <2> QED BY <1>1, <1>7, <2>1 DEF ViewOK, Opening, escrow
<1>11. Calm'
  <2> SUFFICES ASSUME ~contested PROVE Calm'
    BY <1>1 DEF Calm
  <2>1. \A t, u \in Contenders' : t = u
    BY <1>1, <1>7, SameContenders
  <2>2. CalmRequest(s)'
    BY <1>1, <1>2, <1>6, <1>7 DEF CalmRequest, escrow, Sides
  <2> QED BY <1>1, <1>6, <2>1, <2>2, SendCalm
<1> QED BY <1>7, <1>8, <1>9, <1>10, <1>11 DEF ChallengeIInv

\* A void settlement refunds the creator, then the opponent: the invariant holds.
LEMMA RefundOpponentKeeps ==
  ASSUME ChallengeIInv, NEW s \in Reqs, RefundOpponent(s)
  PROVE  ChallengeIInv'
<1>1. /\ pc[s] = "refunding" /\ waiting[s] = 0
      /\ PostTo(s, view.opponent, "REFUND") /\ MoveTo(s, "voiding")
      /\ UNCHANGED <<match, result, escrow, cached, money, expected, contested, crashes>>
  BY DEF RefundOpponent
<1>2. /\ Op[s] = "settle" /\ match = "RESOLVED" /\ result = "NEITHER" /\ expected[s] = None
      /\ view.opponent # None
  BY <1>1 DEF ChallengeIInv, RequestOK, Settling
<1>3. PICK q : q = view.opponent
  OBVIOUS
<1>4. q \in Player /\ q # Creator
  BY <1>2, <1>3, WinnerFacts
<1>5. PICK cmds : cmds = [p \in {q} |-> Command(s, "REFUND", 0)]
  OBVIOUS
<1>6. /\ DOMAIN cmds = {q} /\ {q} \subseteq Player /\ Cardinality(DOMAIN cmds) \in 1..2
      /\ cmds[q] \in Letters /\ cmds[q].slot = s /\ cmds[q].kind = "REFUND"
      /\ \A p \in DOMAIN cmds : p = q
  BY <1>4, <1>5, OneLetter
<1>7. pc \in [Reqs -> {"idle", "locking", "undoing", "cancelling", "refunding", "voiding",
                       "paying", "publishing"}]
  BY DEF ChallengeIInv, ChallengeTypeOK
<1>8. Awaited(q, cmds[q])'
  BY <1>1, <1>6, <1>7 DEF Awaited, MoveTo
<1>9. Sends(s, cmds, "voiding")
  BY <1>1, <1>3, <1>5, <1>6, <1>8 DEF Sends, PostTo
<1>10. /\ mail' \in [Player -> Seq(Letters)]
       /\ \A p \in Player : MailOK(p)' /\ StakeOK(p)'
       /\ Pending(s)' = {q} /\ waiting'[s] = Cardinality(Pending(s)') /\ waiting'[s] > 0
       /\ \A t \in Reqs : t # s => pc'[t] = pc[t] /\ RequestOK(t)'
       /\ pc'[s] = "voiding"
  BY <1>6, <1>9, SendStep
<1>11. ChallengeTypeOK'
  <2>1. expected' \in [Reqs -> Nat \cup {None}] /\ contested' \in BOOLEAN
    BY <1>1 DEF ChallengeIInv, ChallengeTypeOK
  <2> QED BY <1>9, <2>1, SendTypes
<1>12. RequestOK(s)'
  BY <1>1, <1>2, <1>10 DEF RequestOK, Settling, Opening, escrow
<1>13. ViewOK'
  <2>1. ViewOK
    BY DEF ChallengeIInv
  <2> QED BY <1>1, <1>10, <2>1 DEF ViewOK, Opening, escrow
<1>14. Calm'
  <2> SUFFICES ASSUME ~contested PROVE Calm'
    BY <1>1 DEF Calm
  <2>1. \A t, u \in Contenders' : t = u
    BY <1>1, <1>2, <1>10, SameContenders
  <2>2. CalmRequest(s)'
    <3>1. CalmRequest(s)
      BY DEF ChallengeIInv, Calm
    <3>2. Pending(s) = {}
      BY <1>1, NoneAwaited DEF ChallengeIInv
    <3> QED BY <1>1, <1>3, <1>10, <3>1, <3>2 DEF CalmRequest, escrow, money
  <2> QED BY <1>1, <1>6, <1>9, <2>1, <2>2, SendCalm
<1> QED BY <1>10, <1>11, <1>12, <1>13, <1>14 DEF ChallengeIInv

-----------------------------------------------------------------------------
(* Steps that send nothing and move no money *)

\* Request s, which waits for nobody, goes to place and holds version e.
LEMMA QuietRequest ==
  ASSUME ChallengeIInv, NEW s \in Reqs, waiting[s] = 0,
         NEW place, MoveTo(s, place), NEW e, expected' = [expected EXCEPT ![s] = e],
         UNCHANGED <<match, result, view, money, mail, waiting>>
  PROVE  /\ mail' \in [Player -> Seq(Letters)]
         /\ \A p \in Player : MailOK(p)' /\ StakeOK(p)'
         /\ Pending(s)' = {} /\ waiting'[s] = 0 /\ waiting'[s] = Cardinality(Pending(s)')
         /\ \A t \in Reqs : t # s => /\ pc'[t] = pc[t] /\ expected'[t] = expected[t]
                                     /\ Pending(t)' = Pending(t) /\ RequestOK(t)'
         /\ pc'[s] = place /\ expected'[s] = e
<1>1. /\ mail \in [Player -> Seq(Letters)] /\ \A t \in Reqs : RequestOK(t)
      /\ \A q \in Player : MailOK(q) /\ StakeOK(q)
      /\ pc \in [Reqs -> {"idle", "locking", "undoing", "cancelling", "refunding", "voiding",
                          "paying", "publishing"}]
      /\ expected \in [Reqs -> Nat \cup {None}]
  BY DEF ChallengeIInv, ChallengeTypeOK
<1>2. pc'[s] = place /\ expected'[s] = e
      /\ \A t \in Reqs : t # s => pc'[t] = pc[t] /\ expected'[t] = expected[t]
  BY <1>1 DEF MoveTo
<1>3. \A t \in Reqs : waiting[t] # 0 => pc'[t] = pc[t]
  BY <1>2
<1>4. /\ \A p \in Player : MailOK(p)' /\ StakeOK(p)'
      /\ \A t \in Reqs : Pending(t)' = Pending(t)
  BY <1>1, <1>3, MailKept
<1>5. \A t \in Reqs : t # s => RequestOK(t)'
  BY <1>1, <1>2, <1>4, RequestKept
<1>6. Pending(s) = {} /\ waiting[s] = Cardinality(Pending(s))
  BY <1>1, NoneAwaited DEF RequestOK
<1> QED BY <1>1, <1>2, <1>4, <1>5, <1>6

\* Such a step keeps an uncontested challenge calm.
LEMMA QuietCalm ==
  ASSUME ChallengeIInv, NEW s \in Reqs, waiting[s] = 0,
         NEW place, MoveTo(s, place), NEW e, expected' = [expected EXCEPT ![s] = e],
         UNCHANGED <<match, result, view, stored, money, mail, waiting>>,
         ~contested, place = "idle" \/ pc[s] = place, pc[s] # "cancelling" \/ place = "cancelling",
         CalmRequest(s)', view.status = "OPEN" => cached' \in {None, 1}
  PROVE  Calm'
<1>1. \A t \in Reqs : t # s => /\ pc'[t] = pc[t] /\ expected'[t] = expected[t]
                               /\ Pending(t)' = Pending(t)
  BY QuietRequest
<1>2. pc'[s] = place
  BY QuietRequest
<1>3. /\ CalmView /\ \A t \in Reqs : CalmRequest(t)
      /\ \A p \in Player : CalmMoney(p) /\ CalmMail(p)
  BY DEF ChallengeIInv, Calm
<1>4. \A t \in Reqs : CalmRequest(t)'
  BY <1>1, <1>3, CalmKept
<1>5. CalmView'
  <2>1. Contenders' \subseteq Contenders
    BY <1>1, <1>2 DEF Contenders
  <2>2. \A t \in Reqs : pc[t] = "cancelling" => pc'[t] = "cancelling"
    BY <1>1, <1>2
  <2> QED BY <1>3, <2>1, <2>2 DEF CalmView, Sides, money
<1>6. ASSUME NEW p \in Player PROVE CalmMoney(p)' /\ CalmMail(p)'
  <2>1. CalmMoney(p) /\ CalmMail(p)
    BY <1>3
  <2> QED BY <2>1 DEF CalmMoney, CalmMail, Worth, Sides, Gain, Winner, money
<1> QED BY <1>4, <1>5, <1>6 DEF Calm

\* The version a request reads is the length of the stream.
LEMMA ReadVersionKeeps ==
  ASSUME ChallengeIInv, NEW s \in Reqs, ReadVersion(s)
  PROVE  ChallengeIInv'
<1>1. /\ pc[s] \in {"locking", "cancelling", "paying", "voiding"} /\ waiting[s] = 0
      /\ cached = None /\ expected[s] = None /\ expected' = [expected EXCEPT ![s] = stored]
      /\ UNCHANGED <<match, result, escrow, cached, money, mail, pc, waiting, contested, crashes>>
  BY DEF ReadVersion, Appending
<1>2. PICK place, e : place = pc[s] /\ e = stored
  OBVIOUS
<1>3. /\ ChallengeTypeOK /\ ViewOK /\ \A t \in Reqs : RequestOK(t)
  BY DEF ChallengeIInv
<1>4. MoveTo(s, place) /\ expected' = [expected EXCEPT ![s] = e]
  BY <1>1, <1>2, <1>3 DEF MoveTo, ChallengeTypeOK
<1>5. UNCHANGED <<match, result, view, money, mail, waiting, stored>>
  BY <1>1 DEF escrow
<1>6. /\ mail' \in [Player -> Seq(Letters)]
      /\ \A p \in Player : MailOK(p)' /\ StakeOK(p)'
      /\ Pending(s)' = {} /\ waiting'[s] = 0 /\ waiting'[s] = Cardinality(Pending(s)')
      /\ \A t \in Reqs : t # s => /\ pc'[t] = pc[t] /\ expected'[t] = expected[t]
                                  /\ Pending(t)' = Pending(t) /\ RequestOK(t)'
      /\ pc'[s] = place /\ expected'[s] = e
  BY <1>1, <1>4, <1>5, QuietRequest
<1>7. ChallengeTypeOK'
  BY <1>1, <1>3 DEF ChallengeTypeOK, escrow, money
<1>8. RequestOK(s)'
  <2>1. RequestOK(s)
    BY <1>3
  <2> QED BY <1>1, <1>2, <1>6, <2>1 DEF RequestOK, Settling, Opening, escrow
<1>9. ViewOK'
  BY <1>1, <1>2, <1>3, <1>6 DEF ViewOK, Opening, escrow
<1>10. Calm'
  <2> SUFFICES ASSUME ~contested PROVE Calm'
    BY <1>1 DEF Calm
  <2>1. CalmRequest(s) /\ CalmView
    BY DEF ChallengeIInv, Calm
  <2>2. Pending(s) = {}
    BY <1>1, <1>3, NoneAwaited
  <2>3. CalmRequest(s)'
    BY <1>1, <1>2, <1>6, <2>1, <2>2 DEF CalmRequest, CalmView, escrow, money, Sides
  <2>4. view.status = "OPEN" => cached' \in {None, 1}
    BY <1>1
  <2>5. place = "idle" \/ pc[s] = place
    BY <1>2
  <2>6. pc[s] # "cancelling" \/ place = "cancelling"
    BY <1>2
  <2> QED BY <1>1, <1>4, <1>5, <2>3, <2>4, <2>5, <2>6, QuietCalm
<1> QED BY <1>6, <1>7, <1>8, <1>9, <1>10 DEF ChallengeIInv

\* A request that handed its stake back is over.
LEMMA UndoneKeeps ==
  ASSUME ChallengeIInv, NEW s \in Reqs, Undone(s)
  PROVE  ChallengeIInv'
<1>1. /\ pc[s] = "undoing" /\ waiting[s] = 0 /\ MoveTo(s, "idle")
      /\ UNCHANGED <<match, result, escrow, cached, money, mail, expected, waiting, contested, crashes>>
  BY DEF Undone
<1>2. /\ ChallengeTypeOK /\ ViewOK /\ \A t \in Reqs : RequestOK(t)
  BY DEF ChallengeIInv
<1>3. expected[s] = None
  BY <1>1, <1>2 DEF RequestOK
<1>4. expected' = [expected EXCEPT ![s] = None] /\ UNCHANGED <<match, result, view, money, mail, waiting>>
  BY <1>1, <1>2, <1>3 DEF ChallengeTypeOK, escrow
<1>5. /\ mail' \in [Player -> Seq(Letters)]
      /\ \A p \in Player : MailOK(p)' /\ StakeOK(p)'
      /\ Pending(s)' = {} /\ waiting'[s] = 0 /\ waiting'[s] = Cardinality(Pending(s)')
      /\ \A t \in Reqs : t # s => /\ pc'[t] = pc[t] /\ expected'[t] = expected[t]
                                  /\ Pending(t)' = Pending(t) /\ RequestOK(t)'
      /\ pc'[s] = "idle" /\ expected'[s] = None
  BY <1>1, <1>4, QuietRequest
<1>6. ChallengeTypeOK'
  BY <1>1, <1>2 DEF ChallengeTypeOK, escrow, money, MoveTo
<1>7. RequestOK(s)'
  BY <1>1, <1>5 DEF RequestOK, Settling, Opening, escrow
<1>8. ViewOK'
  BY <1>1, <1>2, <1>5 DEF ViewOK, Opening, escrow
<1>9. contested
  BY <1>1 DEF ChallengeIInv, Calm, CalmRequest
<1>10. Calm'
  BY <1>1, <1>9 DEF Calm
<1> QED BY <1>5, <1>6, <1>7, <1>8, <1>10 DEF ChallengeIInv

\* The version cached is that of the event published.
LEMMA PublishKeeps ==
  ASSUME ChallengeIInv, NEW s \in Reqs, Publish(s)
  PROVE  ChallengeIInv'
<1>1. /\ pc[s] = "publishing" /\ MoveTo(s, "idle")
      /\ cached' = expected[s] + 1 /\ expected' = [expected EXCEPT ![s] = None]
      /\ UNCHANGED <<match, result, escrow, money, mail, waiting, contested, crashes>>
  BY DEF Publish
<1>2. /\ ChallengeTypeOK /\ ViewOK /\ \A t \in Reqs : RequestOK(t)
  BY DEF ChallengeIInv
<1>3. expected[s] \in Nat /\ waiting[s] = 0
  BY <1>1, <1>2 DEF RequestOK, ChallengeTypeOK
<1>4. UNCHANGED <<match, result, view, money, mail, waiting, stored>>
  BY <1>1 DEF escrow
<1>5. /\ mail' \in [Player -> Seq(Letters)]
      /\ \A p \in Player : MailOK(p)' /\ StakeOK(p)'
      /\ Pending(s)' = {} /\ waiting'[s] = 0 /\ waiting'[s] = Cardinality(Pending(s)')
      /\ \A t \in Reqs : t # s => /\ pc'[t] = pc[t] /\ expected'[t] = expected[t]
                                  /\ Pending(t)' = Pending(t) /\ RequestOK(t)'
      /\ pc'[s] = "idle" /\ expected'[s] = None
  BY <1>1, <1>3, <1>4, QuietRequest
<1>6. ChallengeTypeOK'
  BY <1>1, <1>2, <1>3 DEF ChallengeTypeOK, escrow, money, MoveTo
<1>7. RequestOK(s)'
  BY <1>1, <1>5 DEF RequestOK, Settling, Opening, escrow
<1>8. ViewOK'
  <2>1. view.status # "NONE"
    BY <1>1, <1>2 DEF ViewOK, Opening
  <2> QED BY <1>1, <1>2, <2>1 DEF ViewOK, escrow
<1>9. Calm'
  <2> SUFFICES ASSUME ~contested PROVE Calm'
    BY <1>1 DEF Calm
  <2>1. CalmRequest(s)
    BY DEF ChallengeIInv, Calm
  <2>2. CalmRequest(s)'
    BY <1>5 DEF CalmRequest
  <2>3. view.status = "OPEN" => cached' \in {None, 1}
    BY <1>1, <2>1 DEF CalmRequest
  <2>4. pc[s] # "cancelling"
    BY <1>1
  <2> QED BY <1>1, <1>3, <1>4, <2>2, <2>3, <2>4, QuietCalm
<1> QED BY <1>5, <1>6, <1>7, <1>8, <1>9 DEF ChallengeIInv

\* The end of betting changes nothing else.
LEMMA LockMatchKeeps ==
  ASSUME ChallengeIInv, LockMatch
  PROVE  ChallengeIInv'
<1>1. /\ match = "OPEN" /\ match' = "LOCKED"
      /\ UNCHANGED <<result, escrow, cached, money, mail, request, contested, crashes>>
  BY DEF LockMatch
<1>2. /\ ChallengeTypeOK /\ ViewOK /\ \A t \in Reqs : RequestOK(t)
      /\ mail \in [Player -> Seq(Letters)]
      /\ \A p \in Player : MailOK(p) /\ StakeOK(p)
  BY DEF ChallengeIInv
<1>3. /\ UNCHANGED <<mail, money>> /\ match # "RESOLVED"
      /\ \A t \in Reqs : pc'[t] = pc[t] /\ waiting'[t] = waiting[t] /\ expected'[t] = expected[t]
      /\ view' = view /\ result' = result
  BY <1>1 DEF request, escrow
<1>4. /\ \A p \in Player : MailOK(p)' /\ StakeOK(p)'
      /\ \A t \in Reqs : Pending(t)' = Pending(t)
  BY <1>2, <1>3, MailKept
<1>5. \A t \in Reqs : RequestOK(t)'
  BY <1>2, <1>3, <1>4, RequestKept
<1>6. ChallengeTypeOK'
  BY <1>1, <1>2 DEF ChallengeTypeOK, escrow, money, request
<1>7. ViewOK'
  BY <1>1, <1>2 DEF ViewOK, Opening, escrow, request
<1>8. Calm'
  <2> SUFFICES ASSUME ~contested PROVE Calm'
    BY <1>1 DEF Calm
  <2>1. /\ CalmView /\ \A t \in Reqs : CalmRequest(t)
        /\ \A p \in Player : CalmMoney(p) /\ CalmMail(p)
    BY DEF ChallengeIInv, Calm
  <2>2. \A t \in Reqs : CalmRequest(t)'
    BY <1>3, <1>4, <2>1, CalmKept
  <2>3. CalmView'
    BY <1>1, <2>1 DEF CalmView, Contenders, Sides, escrow, money, request
  <2>4. \A p \in Player : CalmMoney(p)' /\ CalmMail(p)'
    BY <1>1, <2>1 DEF CalmMoney, CalmMail, Worth, Sides, Gain, Winner, money, escrow
  <2> QED BY <2>2, <2>3, <2>4 DEF Calm
<1> QED BY <1>1, <1>2, <1>4, <1>5, <1>6, <1>7, <1>8 DEF ChallengeIInv

\* The final score comes before any payment.
LEMMA ResolveMatchKeeps ==
  ASSUME ChallengeIInv, ResolveMatch
  PROVE  ChallengeIInv'
<1>1. /\ match = "LOCKED" /\ match' = "RESOLVED" /\ result' \in {"CREATOR", "OPPONENT", "NEITHER"}
      /\ UNCHANGED <<escrow, cached, money, mail, request, contested, crashes>>
  BY DEF ResolveMatch
<1>2. /\ ChallengeTypeOK /\ ViewOK /\ \A t \in Reqs : RequestOK(t)
      /\ mail \in [Player -> Seq(Letters)]
      /\ \A p \in Player : MailOK(p) /\ StakeOK(p)
  BY DEF ChallengeIInv
<1>3. /\ UNCHANGED <<mail, money>> /\ match # "RESOLVED"
      /\ \A t \in Reqs : pc'[t] = pc[t] /\ waiting'[t] = waiting[t] /\ expected'[t] = expected[t]
      /\ view' = view
  BY <1>1 DEF request, escrow
<1>4. /\ \A p \in Player : MailOK(p)' /\ StakeOK(p)'
      /\ \A t \in Reqs : Pending(t)' = Pending(t)
  BY <1>1, <1>2, <1>3, MailKept
<1>5. \A t \in Reqs : RequestOK(t)'
  BY <1>2, <1>3, <1>4, RequestKept
<1>6. ChallengeTypeOK'
  BY <1>1, <1>2 DEF ChallengeTypeOK, escrow, money, request
<1>7. result = "NONE"
  BY <1>1, <1>2 DEF ViewOK
<1>8. ViewOK'
  BY <1>1, <1>2 DEF ViewOK, Opening, escrow, request
<1>9. Calm'
  <2> SUFFICES ASSUME ~contested PROVE Calm'
    BY <1>1 DEF Calm
  <2>1. /\ CalmView /\ \A t \in Reqs : CalmRequest(t)
        /\ \A p \in Player : CalmMoney(p) /\ CalmMail(p)
    BY DEF ChallengeIInv, Calm
  <2>2. \A t \in Reqs : CalmRequest(t)'
    BY <1>3, <1>4, <2>1, CalmKept
  <2>3. CalmView'
    BY <1>1, <1>7, <2>1 DEF CalmView, Contenders, Sides, escrow, money, request
  <2>4. ASSUME NEW p \in Player PROVE CalmMoney(p)'
    BY <1>1, <1>7, <2>1 DEF CalmMoney, Worth, Sides, money, escrow
  <2>5. ASSUME NEW p \in Player PROVE CalmMail(p)'
    <3>1. ASSUME NEW i \in 1..Len(mail[p]), NEW c, c = mail[p][i], c.kind = "PAY" PROVE FALSE
      <4>1. c.slot \in Reqs
        BY <1>2, <3>1, LettersTyped
      <4>2. Awaited(p, c)
        BY <1>2, <3>1 DEF MailOK
      <4>3. pc[c.slot] = "paying" /\ RequestOK(c.slot)
        BY <1>2, <3>1, <4>1, <4>2 DEF Awaited
      <4> QED BY <1>3, <4>3 DEF RequestOK, Settling
    <3> QED BY <1>1, <3>1 DEF CalmMail
  <2> QED BY <2>2, <2>3, <2>4, <2>5 DEF Calm
<1> QED BY <1>1, <1>2, <1>4, <1>5, <1>6, <1>8, <1>9 DEF ChallengeIInv

\* A restart forgets the requests and moves no money.
LEMMA CrashKeeps ==
  ASSUME ChallengeIInv, Crash
  PROVE  ChallengeIInv'
<1>1. /\ crashes < MaxCrashes /\ crashes' = crashes + 1 /\ cached' = None
      /\ mail' = [p \in Player |-> <<>>]
      /\ pc' = [s \in Reqs |-> "idle"] /\ expected' = [s \in Reqs |-> None]
      /\ waiting' = [s \in Reqs |-> 0]
      /\ contested' = (contested \/ \E s \in Reqs : Op[s] = "cancel" /\ pc[s] # "idle")
      /\ UNCHANGED <<match, result, escrow, money>>
  BY DEF Crash
<1>2. /\ ChallengeTypeOK /\ ViewOK /\ \A t \in Reqs : RequestOK(t)
      /\ \A p \in Player : MailOK(p) /\ StakeOK(p)
  BY DEF ChallengeIInv
<1>3. ChallengeTypeOK'
  <2>1. MaxCrashes \in Nat
    BY MoneyAssumption
  <2> QED BY <1>1, <1>2, <2>1 DEF ChallengeTypeOK, escrow, money
<1>4. mail' \in [Player -> Seq(Letters)]
  BY <1>1
<1>5. \A p \in Player : Len(mail'[p]) = 0
  BY <1>1
<1>6. ASSUME NEW p \in Player PROVE MailOK(p)' /\ StakeOK(p)'
  <2>1. MailOK(p)'
    BY <1>5 DEF MailOK
  <2>2. StakeOK(p)'
    BY <1>1, <1>2, <1>5 DEF StakeOK, Worth, money
  <2> QED BY <2>1, <2>2
<1>7. ASSUME NEW t \in Reqs PROVE RequestOK(t)'
  <2>1. Pending(t)' = {}
    BY <1>5 DEF Pending, Has
  <2>2. Cardinality({}) = 0
    BY FS_EmptySet
  <2> QED BY <1>1, <2>1, <2>2 DEF RequestOK, Settling, Opening
<1>8. ViewOK'
  BY <1>1, <1>2 DEF ViewOK, escrow
<1>9. Calm'
  <2> SUFFICES ASSUME ~contested, \A s \in Reqs : Op[s] = "cancel" => pc[s] = "idle" PROVE Calm'
    BY <1>1 DEF Calm
  <2>1. /\ CalmView /\ \A t \in Reqs : CalmRequest(t)
        /\ \A p \in Player : CalmMoney(p) /\ CalmMail(p)
    BY DEF ChallengeIInv, Calm
  <2>2. \A t \in Reqs : CalmRequest(t)'
    BY <1>1 DEF CalmRequest
  <2>3. \A s \in Reqs : pc[s] # "cancelling"
    BY <1>2 DEF RequestOK
  <2>4. CalmView'
    BY <1>1, <2>1, <2>3 DEF CalmView, Contenders, Sides, escrow, money
  <2>5. \A p \in Player : CalmMail(p)'
    BY <1>5 DEF CalmMail
  <2>6. \A p \in Player : CalmMoney(p)'
    BY <1>1, <2>1 DEF CalmMoney, Worth, Sides, Gain, Winner, money, escrow
  <2> QED BY <2>2, <2>4, <2>5, <2>6 DEF Calm
<1> QED BY <1>3, <1>4, <1>6, <1>7, <1>8, <1>9 DEF ChallengeIInv

-----------------------------------------------------------------------------
(* A version conflict *)

\* Which requests may meet a conflict: create never, the others of an
\* uncontested challenge only to settle it.
LEMMA WhoConflicts ==
  ASSUME ChallengeIInv, NEW s \in Reqs, Conflict(s)
  PROVE  /\ view.status # "NONE"
         /\ pc[s] = "locking" => Op[s] = "accept"
         /\ ~contested => pc[s] \in {"paying", "voiding"}
<1>1. /\ pc[s] \in {"locking", "cancelling", "paying", "voiding"} /\ waiting[s] = 0
      /\ Version(s) # None /\ Version(s) # stored
  BY DEF Conflict, Appending
<1>2. ViewOK /\ RequestOK(s)
  BY DEF ChallengeIInv
<1>3. view.status # "NONE"
  BY <1>1, <1>2 DEF ViewOK, Version
<1>4. pc[s] = "locking" => Op[s] = "accept"
  BY <1>2, <1>3 DEF RequestOK, Opening
<1>5. ASSUME ~contested, pc[s] \in {"locking", "cancelling"} PROVE FALSE
  <2>1. CalmRequest(s) /\ CalmView
    BY <1>5 DEF ChallengeIInv, Calm
  <2>2. Op[s] # "create"
    BY <1>2, <1>4, <1>5 DEF RequestOK
  <2>3. /\ view.status = "OPEN" /\ expected[s] \in {None, 1} /\ stored = 1 /\ cached \in {None, 1}
    BY <1>5, <2>1, <2>2 DEF CalmRequest, CalmView
  <2> QED BY <1>1, <2>3 DEF Version
<1> QED BY <1>1, <1>3, <1>4, <1>5

\* accept hands its stake back; cancel and settle are abandoned.
LEMMA ConflictKeeps ==
  ASSUME ChallengeIInv, NEW s \in Reqs, Conflict(s)
  PROVE  ChallengeIInv'
<1>1. /\ pc[s] \in {"locking", "cancelling", "paying", "voiding"} /\ waiting[s] = 0
      /\ expected' = [expected EXCEPT ![s] = None]
      /\ pc[s] = "locking" => PostTo(s, Who[s], "REFUND") /\ MoveTo(s, "undoing")
      /\ pc[s] # "locking" => MoveTo(s, "idle") /\ UNCHANGED <<mail, waiting>>
      /\ UNCHANGED <<match, result, escrow, cached, money, contested, crashes>>
  BY DEF Conflict, Appending
<1>2. /\ ChallengeTypeOK /\ ViewOK /\ \A t \in Reqs : RequestOK(t)
  BY DEF ChallengeIInv
<1>3. /\ view.status # "NONE"
      /\ pc[s] = "locking" => Op[s] = "accept"
      /\ ~contested => pc[s] \in {"paying", "voiding"}
  BY WhoConflicts
<1>4. ViewOK'
  BY <1>1, <1>2, <1>3 DEF ViewOK, escrow
<1>5. expected' \in [Reqs -> Nat \cup {None}]
  BY <1>1, <1>2 DEF ChallengeTypeOK
<1>6. CASE pc[s] = "locking"
  <2> DEFINE q == Who[s]
  <2>1. PostTo(s, q, "REFUND") /\ MoveTo(s, "undoing")
    BY <1>1, <1>6
  <2>2. Who[s] \in Player /\ Who[s] # Creator /\ Op[s] = "accept"
    BY <1>2, <1>3, <1>6, PlayersFacts DEF RequestOK
  <2>3. PICK cmds : cmds = [p \in {q} |-> Command(s, "REFUND", 0)]
    OBVIOUS
  <2>4. /\ DOMAIN cmds = {q} /\ {q} \subseteq Player /\ Cardinality(DOMAIN cmds) \in 1..2
        /\ cmds[q] \in Letters /\ cmds[q].slot = s /\ cmds[q].kind = "REFUND"
        /\ \A p \in DOMAIN cmds : p = q
    BY <2>2, <2>3, OneLetter
  <2>5. Awaited(q, cmds[q])'
    BY <1>2, <2>1, <2>4 DEF Awaited, MoveTo, ChallengeTypeOK
  <2>6. Sends(s, cmds, "undoing")
    BY <1>1, <2>1, <2>3, <2>4, <2>5 DEF Sends, PostTo
  <2>7. /\ mail' \in [Player -> Seq(Letters)]
        /\ \A p \in Player : MailOK(p)' /\ StakeOK(p)'
        /\ waiting'[s] = Cardinality(Pending(s)') /\ waiting'[s] > 0
        /\ \A t \in Reqs : t # s => RequestOK(t)'
        /\ pc'[s] = "undoing"
    BY <2>6, SendStep
  <2>8. ChallengeTypeOK'
    <3>1. contested' \in BOOLEAN
      BY <1>1, <1>2 DEF ChallengeTypeOK
    <3> QED BY <1>5, <2>6, <3>1, SendTypes
  <2>9. expected'[s] = None
    BY <1>1, <1>2 DEF ChallengeTypeOK
  <2>10. RequestOK(s)'
    BY <2>2, <2>7, <2>9 DEF RequestOK, Settling, Opening
  <2>11. Calm'
    BY <1>1, <1>3, <1>6 DEF Calm
  <2> QED BY <1>4, <2>7, <2>8, <2>10, <2>11 DEF ChallengeIInv
<1>7. CASE pc[s] # "locking"
  <2>1. MoveTo(s, "idle") /\ UNCHANGED <<match, result, view, money, mail, waiting, stored>>
    BY <1>1, <1>7 DEF escrow
  <2>2. /\ mail' \in [Player -> Seq(Letters)]
        /\ \A p \in Player : MailOK(p)' /\ StakeOK(p)'
        /\ Pending(s)' = {} /\ waiting'[s] = 0 /\ waiting'[s] = Cardinality(Pending(s)')
        /\ \A t \in Reqs : t # s => RequestOK(t)'
        /\ pc'[s] = "idle" /\ expected'[s] = None
    BY <1>1, <2>1, QuietRequest
  <2>3. ChallengeTypeOK'
    BY <1>1, <1>2, <2>1 DEF ChallengeTypeOK, escrow, money, MoveTo
  <2>4. RequestOK(s)'
    BY <2>2 DEF RequestOK, Settling, Opening
  <2>5. Calm'
    <3> SUFFICES ASSUME ~contested PROVE Calm'
      BY <1>1 DEF Calm
    <3>1. CalmRequest(s)'
      BY <2>2 DEF CalmRequest
    <3>2. view.status = "OPEN" => cached' \in {None, 1}
      BY <1>1 DEF ChallengeIInv, Calm, CalmView
    <3>3. pc[s] # "cancelling"
      BY <1>3
    <3> QED BY <1>1, <2>1, <3>1, <3>2, <3>3, QuietCalm
  <2> QED BY <1>4, <2>2, <2>3, <2>4, <2>5 DEF ChallengeIInv
<1> QED BY <1>6, <1>7

-----------------------------------------------------------------------------
(* Commands *)

\* What a command does to the money of its player.
LEMMA RunEffect ==
  ASSUME ChallengeTypeOK, NEW p \in Player, RunCommand(p), NEW c, c = Head(mail[p]), c \in Letters
  PROVE  /\ \A q \in Player : q # p => free'[q] = free[q] /\ locked'[q] = locked[q]
         /\ free' \in [Player -> Nat] /\ locked' \in [Player -> {0, Stake}]
         /\ \/ /\ free'[p] = free[p] /\ locked'[p] = locked[p]
               /\ c.kind # "LOCK" => locked[p] = 0
            \/ /\ c.kind = "LOCK" /\ locked[p] = 0 /\ ~Broke(p)
               /\ free'[p] = free[p] - Stake /\ locked'[p] = Stake
            \/ /\ c.kind = "REFUND" /\ locked[p] = Stake
               /\ free'[p] = free[p] + Stake /\ locked'[p] = 0
            \/ /\ c.kind = "PAY" /\ locked[p] = Stake
               /\ free'[p] = free[p] + c.amount /\ locked'[p] = 0
         /\ c.kind = "LOCK" /\ ~Broke(p) => locked'[p] = Stake
<1>1. /\ free \in [Player -> Nat] /\ locked \in [Player -> {0, Stake}]
  BY DEF ChallengeTypeOK
<1>2. Stake \in Nat /\ Stake > 0 /\ WinnerPayout \in Nat
  BY RakeFits
<1>3. c.kind \in {"LOCK", "REFUND", "PAY"} /\ c.amount \in Nat
  BY <1>2 DEF Letters
<1>4. free[p] \in Nat /\ locked[p] \in {0, Stake}
  BY <1>1
<1>5. CASE c.kind = "LOCK"
  <2>1. Lock(p)
    BY <1>5 DEF RunCommand
  <2>2. CASE Broke(p) \/ AlreadyLocked(p)
    <3>1. UNCHANGED <<free, locked>>
      BY <2>1, <2>2 DEF Lock, money
    <3>2. ~Broke(p) => locked[p] = Stake
      BY <1>2, <1>4, <2>2 DEF AlreadyLocked
    <3> QED BY <1>1, <1>5, <3>1, <3>2
  <2>3. CASE ~Broke(p) /\ ~AlreadyLocked(p)
    <3>1. locked[p] = 0 /\ free[p] >= Stake
      BY <1>2, <1>4, <2>3 DEF AlreadyLocked, Broke
    <3>2. free' = [free EXCEPT ![p] = @ - Stake] /\ locked' = [locked EXCEPT ![p] = @ + Stake]
      BY <2>1, <2>3 DEF Lock
    <3>3. free[p] - Stake \in Nat /\ locked[p] + Stake = Stake
      BY <1>2, <1>4, <3>1
    <3> QED BY <1>1, <1>5, <2>3, <3>1, <3>2, <3>3
  <2> QED BY <2>2, <2>3
<1>6. CASE c.kind \in {"REFUND", "PAY"}
  <2>1. PICK credit : credit = IF c.kind = "REFUND" THEN locked[p] ELSE c.amount
    OBVIOUS
  <2>2. Close(p, credit)
    BY <1>6, <2>1 DEF RunCommand, Close
  <2>3. CASE ~StakeOpen(p)
    <3>1. UNCHANGED <<free, locked>> /\ locked[p] = 0
      BY <1>2, <1>4, <2>2, <2>3 DEF Close, money, StakeOpen
    <3> QED BY <1>1, <1>6, <3>1
  <2>4. CASE StakeOpen(p)
    <3>1. locked[p] = Stake
      BY <1>4, <2>4 DEF StakeOpen
    <3>2. free' = [free EXCEPT ![p] = @ + credit] /\ locked' = [locked EXCEPT ![p] = 0]
      BY <2>2, <2>4 DEF Close
    <3>3. c.kind = "REFUND" => credit = Stake
      BY <1>2, <1>3, <2>1, <3>1
    <3>4. c.kind = "PAY" => credit = c.amount
      BY <2>1
    <3>5. free[p] + credit \in Nat
      BY <1>2, <1>3, <1>4, <2>1, <3>1
    <3>6. c.kind = "REFUND" \/ c.kind = "PAY"
      BY <1>6
    <3>7. free'[p] = free[p] + credit /\ locked'[p] = 0
          /\ \A q \in Player : q # p => free'[q] = free[q] /\ locked'[q] = locked[q]
      BY <1>1, <3>2
    <3>8. free' \in [Player -> Nat] /\ locked' \in [Player -> {0, Stake}]
      BY <1>1, <3>2, <3>5
    <3>9. c.kind = "REFUND" => free'[p] = free[p] + Stake
      BY <3>3, <3>7
    <3> QED BY <3>1, <3>4, <3>6, <3>7, <3>8, <3>9
  <2> QED BY <2>3, <2>4
<1> QED BY <1>3, <1>5, <1>6

\* The command that runs, its request, and what is left in the mailboxes.
LEMMA RunMail ==
  ASSUME ChallengeIInv, NEW p \in Player, RunCommand(p), NEW c, c = Head(mail[p])
  PROVE  /\ c \in Letters /\ c.slot \in Reqs /\ Awaited(p, c)
         /\ c.kind = "PAY" /\ ~contested =>
              p \in Sides /\ c.amount = IF p = Winner(view.opponent) THEN WinnerPayout ELSE 0
         /\ \E i \in 1..Len(mail[p]) : mail[p][i] = c
         /\ c.kind = "PAY" => \A i \in 1..Len(mail[p]) : mail[p][i].kind # "LOCK"
         /\ mail' \in [Player -> Seq(Letters)]
         /\ \A q \in Player : q # p => mail'[q] = mail[q]
         /\ \A i \in 1..Len(mail'[p]) : \E j \in 1..Len(mail[p]) : mail'[p][i] = mail[p][j]
         /\ Pending(c.slot)' = Pending(c.slot) \ {p} /\ p \in Pending(c.slot)
         /\ \A t \in Reqs : t # c.slot => Pending(t)' = Pending(t)
         /\ waiting[c.slot] > 0 /\ waiting'[c.slot] = waiting[c.slot] - 1
         /\ \A t \in Reqs : t # c.slot => waiting'[t] = waiting[t] /\ pc'[t] = pc[t]
         /\ \A t \in Reqs : waiting'[t] = Cardinality(Pending(t)')
         /\ waiting' \in [Reqs -> 0..2]
<1>1. /\ mail \in [Player -> Seq(Letters)] /\ \A q \in Player : MailOK(q)
      /\ \A t \in Reqs : RequestOK(t)
      /\ ChallengeTypeOK
  BY DEF ChallengeIInv
<1>2. /\ mail[p] # <<>> /\ mail' = [mail EXCEPT ![p] = Tail(@)]
      /\ waiting' = [waiting EXCEPT ![c.slot] = @ - 1]
      /\ pc' = IF c.kind = "LOCK" /\ Broke(p) THEN [pc EXCEPT ![c.slot] = "idle"] ELSE pc
  BY DEF RunCommand
<1>20. c = Head(mail[p]) /\ mail[p] # <<>> /\ mail' = [mail EXCEPT ![p] = Tail(@)]
  BY <1>2
<1>21. mail \in [Player -> Seq(Letters)] /\ \A q \in Player : MailOK(q)
  BY <1>1
<1>3. /\ c = mail[p][1] /\ 1 \in 1..Len(mail[p])
      /\ mail' \in [Player -> Seq(Letters)]
      /\ \A q \in Player : q # p => mail'[q] = mail[q]
      /\ Len(mail'[p]) = Len(mail[p]) - 1
      /\ \A i \in 1..Len(mail'[p]) : i + 1 \in 1..Len(mail[p]) /\ mail'[p][i] = mail[p][i + 1]
      /\ Pending(c.slot)' = Pending(c.slot) \ {p}
      /\ p \in Pending(c.slot)
      /\ \A t \in Reqs : t # c.slot => Pending(t)' = Pending(t)
  <2>1. /\ p \in Player /\ mail \in [Player -> Seq(Letters)] /\ \A q \in Player : MailOK(q)
        /\ mail[p] # <<>> /\ mail' = [mail EXCEPT ![p] = Tail(@)] /\ c = Head(mail[p])
    BY <1>20, <1>21
  <2>2. TakesFirst(p, c)
    BY ONLY <2>1, Taken
  <2> QED BY ONLY <2>2 DEF TakesFirst
<1>4. c \in Letters /\ c.slot \in Reqs
  BY <1>1, <1>3, LettersTyped
<1>5. Awaited(p, c)
  BY <1>1, <1>3 DEF MailOK
<1>6. \A i \in 1..Len(mail'[p]) : \E j \in 1..Len(mail[p]) : mail'[p][i] = mail[p][j]
  BY <1>3
<1>7. c.kind = "PAY" => \A i \in 1..Len(mail[p]) : mail[p][i].kind # "LOCK"
  <2> SUFFICES ASSUME c.kind = "PAY", NEW i \in 1..Len(mail[p]), mail[p][i].kind = "LOCK" PROVE FALSE
    OBVIOUS
  <2>1. i < 1
    BY <1>1, <1>3 DEF MailOK
  <2> QED BY <2>1
<1>8. /\ waiting \in [Reqs -> 0..2] /\ \A t \in Reqs : waiting[t] = Cardinality(Pending(t))
      /\ pc \in [Reqs -> {"idle", "locking", "undoing", "cancelling", "refunding", "voiding",
                          "paying", "publishing"}]
  BY <1>1 DEF RequestOK, ChallengeTypeOK
<1>9. Cardinality(Pending(c.slot)') = Cardinality(Pending(c.slot)) - 1
  <2>1. Pending(c.slot) \in SUBSET Player
    BY DEF Pending
  <2>2. IsFiniteSet(Pending(c.slot))
    BY <2>1, PendingFinite
  <2> QED BY <1>3, <2>2, FS_RemoveElement
<1>10. waiting[c.slot] > 0
  <2>1. Pending(c.slot) \in SUBSET Player
    BY DEF Pending
  <2>2. Cardinality(Pending(c.slot)) # 0
    BY <1>3, <2>1, PendingFinite
  <2>3. waiting[c.slot] \in 0..2
    BY <1>4, <1>8
  <2> QED BY <1>4, <1>8, <2>2, <2>3
<1>11. /\ waiting'[c.slot] = waiting[c.slot] - 1
       /\ \A t \in Reqs : t # c.slot => waiting'[t] = waiting[t] /\ pc'[t] = pc[t]
  BY <1>2, <1>4, <1>8
<1>12. \A t \in Reqs : waiting'[t] = Cardinality(Pending(t)')
  BY <1>3, <1>4, <1>8, <1>9, <1>11
<1>13. waiting' \in [Reqs -> 0..2]
  BY <1>2, <1>4, <1>8, <1>10
<1>14. c.kind = "PAY" /\ ~contested =>
         p \in Sides /\ c.amount = IF p = Winner(view.opponent) THEN WinnerPayout ELSE 0
  BY <1>3 DEF ChallengeIInv, Calm, CalmMail
<1> QED BY <1>3, <1>4, <1>5, <1>6, <1>7, <1>10, <1>11, <1>12, <1>13, <1>14

\* A request fails when the player cannot afford the stake: it had asked nobody else.
LEMMA RunPlace ==
  ASSUME ChallengeIInv, NEW p \in Player, RunCommand(p), NEW c, c = Head(mail[p])
  PROVE  \/ pc' = pc /\ (c.kind = "LOCK" => ~Broke(p))
         \/ /\ c.kind = "LOCK" /\ Broke(p) /\ pc' = [pc EXCEPT ![c.slot] = "idle"]
            /\ pc[c.slot] = "locking" /\ p = Who[c.slot]
            /\ Pending(c.slot)' = {} /\ UNCHANGED money
<1>1. pc' = IF c.kind = "LOCK" /\ Broke(p) THEN [pc EXCEPT ![c.slot] = "idle"] ELSE pc
  BY DEF RunCommand
<1>2. CASE ~(c.kind = "LOCK" /\ Broke(p))
  BY <1>1, <1>2
<1>3. CASE c.kind = "LOCK" /\ Broke(p)
  <2>1. c \in Letters /\ c.slot \in Reqs /\ Awaited(p, c) /\ Pending(c.slot)' = Pending(c.slot) \ {p}
    BY RunMail
  <2>2. pc[c.slot] = "locking" /\ p = Who[c.slot]
    BY <1>3, <2>1 DEF Awaited
  <2>3. ASSUME NEW q \in Pending(c.slot) PROVE q = p
    <3>1. q \in Player
      BY DEF Pending
    <3>2. PICK i \in 1..Len(mail[q]) : mail[q][i].slot = c.slot
      BY DEF Pending, Has
    <3>3. Awaited(q, mail[q][i])
      BY <3>1, <3>2 DEF ChallengeIInv, MailOK
    <3> QED BY <2>2, <3>2, <3>3 DEF Awaited
  <2>4. UNCHANGED money
    BY <1>3 DEF RunCommand, Lock
  <2> QED BY <1>1, <1>3, <2>1, <2>2, <2>3, <2>4
<1> QED BY <1>2, <1>3

\* After a command every mailbox and every stake is in order.
LEMMA RunMailboxes ==
  ASSUME ChallengeIInv, NEW p \in Player, RunCommand(p), NEW q \in Player
  PROVE  MailOK(q)' /\ StakeOK(q)'
<1>1. PICK c : c = Head(mail[p])
  OBVIOUS
<1>2. /\ c \in Letters /\ c.slot \in Reqs /\ Awaited(p, c)
      /\ c.kind = "PAY" => \A i \in 1..Len(mail[p]) : mail[p][i].kind # "LOCK"
      /\ \E i \in 1..Len(mail[p]) : mail[p][i] = c
      /\ q # p => mail'[q] = mail[q]
      /\ \A i \in 1..Len(mail'[p]) : \E j \in 1..Len(mail[p]) : mail'[p][i] = mail[p][j]
      /\ \A t \in Reqs : t # c.slot => pc'[t] = pc[t]
  BY <1>1, RunMail
<1>3. /\ mail \in [Player -> Seq(Letters)] /\ \A r \in Player : MailOK(r) /\ StakeOK(r)
      /\ ChallengeTypeOK /\ \A t \in Reqs : RequestOK(t)
  BY DEF ChallengeIInv
<1>4. /\ mail[p] # <<>> /\ mail' = [mail EXCEPT ![p] = Tail(@)] /\ match' = match /\ view' = view
  BY DEF RunCommand, escrow
<1>5. /\ c = mail[p][1] /\ 1 \in 1..Len(mail[p])
      /\ Len(mail'[p]) = Len(mail[p]) - 1
      /\ \A i \in 1..Len(mail'[p]) : i + 1 \in 1..Len(mail[p]) /\ mail'[p][i] = mail[p][i + 1]
  <2>1. p \in Player /\ c = Head(mail[p]) /\ \A r \in Player : MailOK(r)
    BY <1>1, <1>3
  <2>2. TakesFirst(p, c)
    BY ONLY <1>3, <1>4, <2>1, Taken
  <2> QED BY ONLY <2>2 DEF TakesFirst
<1>6. ASSUME NEW i \in 1..Len(mail[q]), NEW d, d = mail[q][i], d.slot # c.slot PROVE Awaited(q, d)'
  <2>1. Awaited(q, d)
    BY <1>3, <1>6 DEF MailOK
  <2>2. d.slot \in Reqs
    BY <1>3, <1>6, LettersTyped
  <2> QED BY <1>2, <1>6, <2>1, <2>2 DEF Awaited
<1>7. ASSUME NEW i \in 1..Len(mail[q]), NEW d, d = mail[q][i], d.slot = c.slot, q # p
      PROVE  Awaited(q, d)'
  <2>1. Awaited(q, d)
    BY <1>3, <1>7 DEF MailOK
  <2>2. CASE pc' = pc
    BY <2>1, <2>2 DEF Awaited
  <2>3. CASE pc' # pc
    <3>1. pc[c.slot] = "locking" /\ p = Who[c.slot]
      BY <1>1, <2>3, RunPlace
    <3> QED BY <1>7, <2>1, <3>1 DEF Awaited
  <2> QED BY <2>2, <2>3
<1>8. MailOK(q)'
  <2>1. CASE q # p
    <3>1. mail'[q] = mail[q]
      BY <1>2, <2>1
    <3>2. \A i \in 1..Len(mail'[q]) : Awaited(q, mail[q][i])'
      <4> SUFFICES ASSUME NEW i \in 1..Len(mail'[q]), NEW d, d = mail'[q][i] PROVE Awaited(q, d)'
        BY DEF Awaited
      <4> QED BY <1>6, <1>7, <2>1, <3>1
    <3>3. MailOK(q)
      BY <1>3
    <3> QED BY <3>1, <3>2, <3>3 DEF MailOK
  <2>2. CASE q = p
    <3>1. \A i \in 1..Len(mail'[p]) : Awaited(p, mail[p][i])'
      <4> SUFFICES ASSUME NEW i \in 1..Len(mail'[p]), NEW d, d = mail'[p][i] PROVE Awaited(p, d)'
        BY DEF Awaited
      <4>1. i + 1 \in 1..Len(mail[p]) /\ d = mail[p][i + 1]
        BY <1>5
      <4>2. d.slot # c.slot
        <5>1. \A j, k \in 1..Len(mail[p]) : mail[p][j].slot = mail[p][k].slot => j = k
          BY <1>3 DEF MailOK
        <5>2. i >= 1 /\ i \in Nat
          BY <1>5
        <5> QED BY <1>5, <4>1, <5>1, <5>2
      <4> QED BY <1>6, <2>2, <4>1, <4>2
    <3>2. \A i, j \in 1..Len(mail[p]) : mail[p][i].slot = mail[p][j].slot => i = j
      BY <1>3 DEF MailOK
    <3>3. \A i, j \in 1..Len(mail[p]) : mail[p][i].kind = "PAY" /\ mail[p][j].kind = "LOCK" => j < i
      BY <1>3 DEF MailOK
    <3>4. \A i, j \in 1..Len(mail'[p]) : mail'[p][i].slot = mail'[p][j].slot => i = j
      <4> SUFFICES ASSUME NEW i \in 1..Len(mail'[p]), NEW j \in 1..Len(mail'[p]),
                          mail'[p][i].slot = mail'[p][j].slot
                   PROVE  i = j
        OBVIOUS
      <4>1. /\ i + 1 \in 1..Len(mail[p]) /\ mail'[p][i] = mail[p][i + 1]
            /\ j + 1 \in 1..Len(mail[p]) /\ mail'[p][j] = mail[p][j + 1]
        BY <1>5
      <4>2. i + 1 = j + 1
        BY <3>2, <4>1
      <4> QED BY <4>2
    <3>5. \A i, j \in 1..Len(mail'[p]) : mail'[p][i].kind = "PAY" /\ mail'[p][j].kind = "LOCK" => j < i
      BY <1>5, <3>3
    <3> QED BY <2>2, <3>1, <3>4, <3>5 DEF MailOK
  <2> QED BY <2>1, <2>2
<1>9. StakeOK(q)'
  <2>1. StakeOK(q)
    BY <1>3
  <2>2. CASE q # p
    <3>1. mail'[q] = mail[q] /\ free'[q] = free[q] /\ locked'[q] = locked[q]
      BY <1>1, <1>2, <1>3, <2>2, RunEffect
    <3> QED BY <1>4, <2>1, <3>1 DEF StakeOK, Worth
  <2>3. CASE q = p
    <3>1. /\ Stake \in Nat /\ Rake \in Nat /\ Initial \in Nat /\ WinnerPayout = 2 * Stake - Rake
          /\ free[p] \in Nat /\ locked[p] \in {0, Stake} /\ Stake > 0
      BY <1>3, RakeFits DEF ChallengeTypeOK
    <3>2. StakeOK(p)
      BY <1>3
    <3>3. CASE Worth(p) = Initial
      <4>1. CASE free'[p] = free[p] /\ locked'[p] = locked[p]
        BY <2>3, <3>3, <4>1 DEF StakeOK, Worth
      <4>2. CASE locked[p] = 0 /\ free'[p] = free[p] - Stake /\ locked'[p] = Stake
        BY <2>3, <3>1, <3>3, <4>2 DEF StakeOK, Worth
      <4>3. CASE locked[p] = Stake /\ free'[p] = free[p] + Stake /\ locked'[p] = 0
        BY <2>3, <3>1, <3>3, <4>3 DEF StakeOK, Worth
      <4>4. CASE /\ c.kind = "PAY" /\ locked[p] = Stake
                 /\ free'[p] = free[p] + c.amount /\ locked'[p] = 0
        <5>1. c.amount \in {0, WinnerPayout}
          BY <1>2 DEF Letters
        <5>2. free[p] + Stake = Initial
          BY <3>3, <4>4 DEF Worth
        <5>3. free'[p] + locked'[p] \in {Initial - Stake, Initial + Stake - Rake}
          BY <3>1, <4>4, <5>1, <5>2
        <5>4. match' = "RESOLVED"
          <6>1. pc[c.slot] = "paying" /\ RequestOK(c.slot)
            BY <1>2, <1>3, <4>4 DEF Awaited
          <6> QED BY <1>4, <6>1 DEF RequestOK, Settling
        <5>5. \A i \in 1..Len(mail'[p]) : mail'[p][i].kind # "LOCK"
          BY <1>2, <4>4
        <5> QED BY <2>3, <4>4, <5>3, <5>4, <5>5 DEF StakeOK, Worth
      <4> QED BY <1>1, <1>2, <1>3, <4>1, <4>2, <4>3, <4>4, RunEffect
    <3>4. CASE Worth(p) # Initial
      <4>1. /\ Worth(p) \in {Initial - Stake, Initial + Stake - Rake}
            /\ locked[p] = 0 /\ match = "RESOLVED"
            /\ \A i \in 1..Len(mail[p]) : mail[p][i].kind # "LOCK"
        BY <3>2, <3>4 DEF StakeOK
      <4>2. c.kind # "LOCK"
        BY <1>2, <4>1
      <4>3. free'[p] = free[p] /\ locked'[p] = locked[p]
        BY <1>1, <1>2, <1>3, <3>1, <4>1, <4>2, RunEffect
      <4>4. \A i \in 1..Len(mail'[p]) : mail'[p][i].kind # "LOCK"
        BY <1>2, <4>1
      <4> QED BY <1>4, <2>3, <4>1, <4>3, <4>4 DEF StakeOK, Worth
    <3> QED BY <3>3, <3>4
  <2> QED BY <2>2, <2>3
<1> QED BY <1>8, <1>9

\* A command keeps the requests, and an uncontested challenge calm.
LEMMA RunRequests ==
  ASSUME ChallengeIInv, NEW p \in Player, RunCommand(p), NEW t \in Reqs
  PROVE  RequestOK(t)'
<1>1. PICK c : c = Head(mail[p])
  OBVIOUS
<1>2. /\ c \in Letters /\ c.slot \in Reqs
      /\ t # c.slot => Pending(t)' = Pending(t) /\ waiting'[t] = waiting[t] /\ pc'[t] = pc[t]
      /\ waiting[c.slot] > 0 /\ waiting'[t] = Cardinality(Pending(t)')
      /\ Awaited(p, c)
  <2>1. ASSUME t # c.slot PROVE Pending(t)' = Pending(t)
    BY <1>1, <2>1, RunMail
  <2> QED BY <1>1, <2>1, RunMail
<1>3. /\ UNCHANGED <<match, result, view, expected>>
      /\ RequestOK(t) /\ ChallengeTypeOK
  BY DEF RunCommand, ChallengeIInv, escrow
<1>4. CASE t # c.slot
  BY <1>2, <1>3, <1>4, RequestKept
<1>5. CASE t = c.slot
  <2>1. pc[t] \notin {"idle", "publishing"} /\ expected[t] = None
    <3>1. waiting[t] # 0
      BY <1>2, <1>5
    <3> QED BY <1>2, <1>3, <1>5, <3>1 DEF RequestOK
  <2>2. CASE pc' = pc
    BY <1>2, <1>3, <2>1, <2>2 DEF RequestOK, Settling, Opening
  <2>3. CASE pc' # pc
    <3>1. Pending(t)' = {} /\ pc' = [pc EXCEPT ![t] = "idle"]
      BY <1>1, <1>5, <2>3, RunPlace
    <3>2. pc'[t] = "idle"
      BY <1>3, <3>1 DEF ChallengeTypeOK
    <3>3. waiting'[t] = 0
      BY <1>2, <3>1, FS_EmptySet
    <3> QED BY <1>2, <1>3, <2>1, <3>2, <3>3 DEF RequestOK, Settling, Opening
  <2> QED BY <2>2, <2>3
<1> QED BY <1>4, <1>5

\* Where the request of a command is, when nobody contests the challenge.
LEMMA RunStage ==
  ASSUME ChallengeIInv, ~contested, NEW p \in Player, RunCommand(p), NEW c, c = Head(mail[p])
  PROVE  /\ c.slot \in Reqs
         /\ \/ /\ c.kind = "LOCK" /\ pc[c.slot] = "locking" /\ p = Who[c.slot]
               /\ view.status \in {"NONE", "OPEN"}
            \/ /\ c.kind = "REFUND" /\ pc[c.slot] = "cancelling" /\ p = Creator
               /\ view.status = "OPEN" /\ Op[c.slot] = "cancel"
            \/ /\ c.kind = "REFUND" /\ pc[c.slot] = "refunding" /\ p = Creator
               /\ view.status \in {"MATCHED", "VOID"} /\ result = "NEITHER"
            \/ /\ c.kind = "REFUND" /\ pc[c.slot] = "voiding"
               /\ view.status \in {"MATCHED", "VOID"} /\ result = "NEITHER"
            \/ /\ c.kind = "PAY" /\ pc[c.slot] = "paying"
               /\ view.status \in {"MATCHED", "SETTLED"} /\ result \in {"CREATOR", "OPPONENT"}
<1>1. c \in Letters /\ c.slot \in Reqs /\ Awaited(p, c)
  BY RunMail
<1>2. RequestOK(c.slot) /\ CalmRequest(c.slot)
  BY <1>1 DEF ChallengeIInv, Calm
<1>3. pc[c.slot] # "undoing"
  BY <1>2 DEF CalmRequest
<1>4. CASE c.kind = "LOCK"
  <2>1. pc[c.slot] = "locking" /\ p = Who[c.slot]
    BY <1>1, <1>4 DEF Awaited
  <2>2. view.status \in {"NONE", "OPEN"}
    BY <1>2, <2>1 DEF RequestOK, CalmRequest, Opening
  <2> QED BY <1>1, <1>4, <2>1, <2>2
<1>5. CASE c.kind = "REFUND"
  BY <1>1, <1>2, <1>3, <1>5 DEF Awaited, RequestOK, CalmRequest
<1>6. CASE c.kind = "PAY"
  <2>1. pc[c.slot] = "paying"
    BY <1>1, <1>6 DEF Awaited
  <2> QED BY <1>1, <1>2, <1>6, <2>1 DEF RequestOK, CalmRequest
<1> QED BY <1>1, <1>4, <1>5, <1>6 DEF Letters

\* Of the stakes of an uncontested challenge, a command can only open one while
\* the challenge is offered, and close one that nobody counts on.
LEMMA RunStakes ==
  ASSUME ChallengeIInv, ~contested, NEW p \in Player, RunCommand(p), NEW c, c = Head(mail[p])
  PROVE  /\ \A q \in Player : locked'[q] # locked[q] => q = p
         /\ locked[p] \in {0, Stake} /\ locked'[p] \in {0, Stake}
         /\ locked'[p] # 0 /\ locked[p] = 0 => c.kind = "LOCK"
         /\ locked'[p] = 0 /\ locked[p] # 0 => c.kind # "LOCK"
         /\ c.kind # "LOCK" => locked'[p] = 0
<1>1. c \in Letters /\ ChallengeTypeOK
  BY RunMail DEF ChallengeIInv
<1>2. Stake # 0 /\ \A q \in Player : locked[q] \in {0, Stake}
  BY <1>1, RakeFits DEF ChallengeTypeOK
<1>3. /\ \A q \in Player : q # p => free'[q] = free[q] /\ locked'[q] = locked[q]
      /\ locked' \in [Player -> {0, Stake}]
      /\ \/ /\ free'[p] = free[p] /\ locked'[p] = locked[p]
            /\ c.kind # "LOCK" => locked[p] = 0
         \/ /\ c.kind = "LOCK" /\ locked[p] = 0 /\ ~Broke(p)
            /\ free'[p] = free[p] - Stake /\ locked'[p] = Stake
         \/ /\ c.kind = "REFUND" /\ locked[p] = Stake
            /\ free'[p] = free[p] + Stake /\ locked'[p] = 0
         \/ /\ c.kind = "PAY" /\ locked[p] = Stake
            /\ free'[p] = free[p] + c.amount /\ locked'[p] = 0
  BY <1>1, RunEffect
<1> QED BY <1>2, <1>3

\* The requests of an uncontested challenge, after a command.
LEMMA RunCalmRequests ==
  ASSUME ChallengeIInv, ~contested, NEW p \in Player, RunCommand(p), NEW t \in Reqs
  PROVE  CalmRequest(t)'
<1>1. PICK c : c = Head(mail[p])
  OBVIOUS
<1>2. /\ c \in Letters /\ c.slot \in Reqs
      /\ t = c.slot => Pending(t)' = Pending(t) \ {p}
      /\ t # c.slot => Pending(t)' = Pending(t)
      /\ t # c.slot => pc'[t] = pc[t]
  <2>1. ASSUME t # c.slot PROVE Pending(t)' = Pending(t)
    BY <1>1, <2>1, RunMail
  <2>2. Pending(c.slot)' = Pending(c.slot) \ {p}
    BY <1>1, RunMail
  <2>3. t = c.slot => Pending(t)' = Pending(t) \ {p}
    BY <2>2 DEF Pending, Has
  <2>4. c \in Letters /\ c.slot \in Reqs /\ (t # c.slot => pc'[t] = pc[t])
    BY <1>1, RunMail
  <2> QED BY <2>1, <2>3, <2>4
<1>3. /\ \A q \in Player : locked'[q] # locked[q] => q = p
      /\ locked[p] \in {0, Stake} /\ locked'[p] \in {0, Stake}
      /\ locked'[p] # 0 /\ locked[p] = 0 => c.kind = "LOCK"
      /\ locked'[p] = 0 /\ locked[p] # 0 => c.kind # "LOCK"
      /\ c.kind # "LOCK" => locked'[p] = 0
  BY <1>1, RunStakes
<1>4. /\ UNCHANGED <<match, result, view, expected>>
      /\ RequestOK(t) /\ CalmRequest(t) /\ ChallengeTypeOK
      /\ \A u, v \in Contenders : u = v
  BY DEF RunCommand, ChallengeIInv, escrow, Calm, CalmView
<1>5. /\ \/ /\ c.kind = "LOCK" /\ pc[c.slot] = "locking" /\ p = Who[c.slot]
            /\ view.status \in {"NONE", "OPEN"}
         \/ /\ c.kind = "REFUND" /\ pc[c.slot] = "cancelling" /\ p = Creator
            /\ view.status = "OPEN" /\ Op[c.slot] = "cancel"
         \/ /\ c.kind = "REFUND" /\ pc[c.slot] = "refunding" /\ p = Creator
            /\ view.status \in {"MATCHED", "VOID"} /\ result = "NEITHER"
         \/ /\ c.kind = "REFUND" /\ pc[c.slot] = "voiding"
            /\ view.status \in {"MATCHED", "VOID"} /\ result = "NEITHER"
         \/ /\ c.kind = "PAY" /\ pc[c.slot] = "paying"
            /\ view.status \in {"MATCHED", "SETTLED"} /\ result \in {"CREATOR", "OPPONENT"}
  BY <1>1, RunStage
<1>6. pc'[t] = pc[t] \/ pc'[t] = "idle"
  BY <1>1, <1>2, <1>4, RunPlace DEF ChallengeTypeOK
<1>7. CASE pc'[t] = "idle"
  BY <1>7 DEF CalmRequest
<1>8. CASE pc'[t] = pc[t] /\ pc[t] # "idle"
  <2>1. pc[t] # "undoing" /\ Stake # 0 /\ Creator \in Player
    BY <1>4, RakeFits, PlayersFacts DEF CalmRequest
  <2>2. pc[t] = "locking" => (Who[t] \in Pending(t) \/ locked[Who[t]] = Stake)'
    <3> SUFFICES ASSUME pc[t] = "locking" PROVE Who[t] \in Pending(t)' \/ locked'[Who[t]] = Stake
      OBVIOUS
    <3>1. Who[t] \in Player /\ (Who[t] \in Pending(t) \/ locked[Who[t]] = Stake)
      BY <1>4, PlayersFacts DEF CalmRequest
    <3>2. CASE c.kind = "LOCK"
      <4>1. CASE t = c.slot
        <5>1. p = Who[t] /\ (c.kind = "LOCK" => ~Broke(p))
          BY <1>1, <1>4, <1>5, <1>8, <3>2, <4>1, RunPlace DEF ChallengeTypeOK
        <5>2. locked'[p] = Stake
          BY <1>1, <1>2, <1>4, <3>2, <5>1, RunEffect
        <5> QED BY <5>1, <5>2
      <4>2. CASE t # c.slot
        BY <1>2, <1>3, <2>1, <3>1, <3>2, <4>2
      <4> QED BY <4>1, <4>2
    <3>3. CASE c.kind # "LOCK"
      <4>1. view.status \in {"NONE", "OPEN"} /\ (view.status = "OPEN" => Op[t] # "create")
        BY <1>4 DEF RequestOK, CalmRequest, Opening
      <4>2. pc[c.slot] = "cancelling" /\ Op[c.slot] = "cancel" /\ view.status = "OPEN"
        BY <1>5, <3>3, <4>1
      <4>3. Op[t] = "accept"
        BY <1>4, <4>1, <4>2 DEF RequestOK
      <4>4. t \in Contenders /\ c.slot \in Contenders
        BY <1>2, <4>2, <4>3 DEF Contenders
      <4> QED BY <1>4, <4>2, <4>4
    <3> QED BY <3>2, <3>3
  <2>3. pc[t] \in {"locking", "cancelling"} /\ Op[t] # "create" =>
          view.status = "OPEN" /\ expected[t] \in {None, 1}
    BY <1>4 DEF CalmRequest
  <2>4. pc[t] = "publishing" /\ view.status = "OPEN" => Op[t] = "create" /\ expected[t] = 0
    BY <1>4 DEF CalmRequest
  <2>5. pc[t] \in {"paying", "refunding", "voiding"} => c.kind # "LOCK"
    BY <1>4, <1>5 DEF CalmRequest
  <2>6. ASSUME NEW q \in Player, c.kind # "LOCK", locked[q] = 0 \/ q \in Pending(t)
        PROVE  (locked[q] = 0 \/ q \in Pending(t))'
    <3>1. CASE q = p
      BY <1>3, <2>6, <3>1
    <3>2. CASE q # p
      BY <1>2, <1>3, <2>6, <3>2
    <3> QED BY <3>1, <3>2
  <2>7. ASSUME NEW q \in Player, c.kind # "LOCK", locked[q] = 0 PROVE locked'[q] = 0
    BY <1>3, <2>7
  <2>8. pc[t] \in {"paying", "refunding", "voiding"} => view.opponent \in Player
    BY <1>4, PlayersFacts DEF RequestOK, Settling, ChallengeTypeOK
  <2>9. pc[t] = "paying" =>
          /\ view.status \in {"MATCHED", "SETTLED"}
          /\ \A q \in Sides : (locked[q] = 0 \/ q \in Pending(t))'
    BY <1>4, <2>1, <2>5, <2>6, <2>8 DEF CalmRequest, Sides
  <2>10. pc[t] = "refunding" => (locked[Creator] = 0 \/ Creator \in Pending(t))'
    BY <1>4, <2>1, <2>5, <2>6 DEF CalmRequest
  <2>11. pc[t] = "voiding" =>
           /\ locked'[Creator] = 0
           /\ (locked[view.opponent] = 0 \/ view.opponent \in Pending(t))'
    <3> SUFFICES ASSUME pc[t] = "voiding", NEW o, o = view.opponent
                 PROVE  locked'[Creator] = 0 /\ (locked[o] = 0 \/ o \in Pending(t))'
      BY <1>4
    <3>1. o \in Player /\ c.kind # "LOCK" /\ locked[Creator] = 0 /\ (locked[o] = 0 \/ o \in Pending(t))
      BY <1>4, <2>5, <2>8 DEF CalmRequest
    <3> QED BY <2>1, <2>6, <2>7, <3>1
  <2>12. pc[t] \in {"refunding", "voiding"} => view.status \in {"MATCHED", "VOID"}
    BY <1>4 DEF CalmRequest
  <2>13. pc'[t] = pc[t] /\ expected'[t] = expected[t] /\ view' = view
    BY <1>4, <1>8
  <2> QED BY <2>1, <2>2, <2>3, <2>4, <2>9, <2>10, <2>11, <2>12, <2>13 DEF CalmRequest, Sides
<1> QED BY <1>6, <1>7, <1>8

\* The money and the mailboxes of an uncontested challenge, after a command.
LEMMA RunCalmMoney ==
  ASSUME ChallengeIInv, ~contested, NEW p \in Player, RunCommand(p), NEW q \in Player
  PROVE  CalmMoney(q)' /\ CalmMail(q)'
<1>1. PICK c : c = Head(mail[p])
  OBVIOUS
<1>2. /\ c \in Letters
      /\ c.kind = "PAY" =>
           p \in Sides /\ c.amount = IF p = Winner(view.opponent) THEN WinnerPayout ELSE 0
      /\ q # p => mail'[q] = mail[q]
      /\ \A i \in 1..Len(mail'[p]) : \E j \in 1..Len(mail[p]) : mail'[p][i] = mail[p][j]
  BY <1>1, RunMail
<1>3. /\ view' = view /\ result' = result
      /\ CalmMoney(q) /\ CalmMail(q) /\ ChallengeTypeOK
  BY DEF RunCommand, ChallengeIInv, escrow, Calm
<1>4. CalmMail(q)'
  <2>1. \A i \in 1..Len(mail'[q]) : \E j \in 1..Len(mail[q]) : mail'[q][i] = mail[q][j]
    BY <1>2
  <2> QED BY <1>3, <2>1 DEF CalmMail, Sides, Winner
<1>5. CASE free'[q] = free[q] /\ locked'[q] = locked[q]
  <2>1. CalmMoney(q)'
    BY <1>3, <1>5 DEF CalmMoney, Worth, Sides, Gain, Winner
  <2> QED BY <1>4, <2>1
<1>6. CASE ~(free'[q] = free[q] /\ locked'[q] = locked[q])
  <2>1. /\ q = p
        /\ \/ /\ c.kind = "LOCK" /\ locked[p] = 0
              /\ free'[p] = free[p] - Stake /\ locked'[p] = Stake
           \/ /\ c.kind = "REFUND" /\ locked[p] = Stake
              /\ free'[p] = free[p] + Stake /\ locked'[p] = 0
           \/ /\ c.kind = "PAY" /\ locked[p] = Stake
              /\ free'[p] = free[p] + c.amount /\ locked'[p] = 0
    <3>1. \A r \in Player : r # p => free'[r] = free[r] /\ locked'[r] = locked[r]
      BY <1>1, <1>2, <1>3, RunEffect
    <3>2. q = p
      BY <1>6, <3>1
    <3> QED BY <1>1, <1>2, <1>3, <1>6, <3>2, RunEffect
  <2>2. /\ Stake \in Nat /\ Stake # 0 /\ Rake \in Nat /\ Initial \in Nat
        /\ WinnerPayout = 2 * Stake - Rake /\ free[p] \in Nat
    BY <1>3, RakeFits DEF ChallengeTypeOK
  <2>3. /\ \/ /\ c.kind = "LOCK" /\ view.status \in {"NONE", "OPEN"}
           \/ /\ c.kind = "REFUND" /\ view.status = "OPEN"
           \/ /\ c.kind = "REFUND" /\ view.status \in {"MATCHED", "VOID"} /\ result = "NEITHER"
           \/ /\ c.kind = "PAY" /\ view.status \in {"MATCHED", "SETTLED"}
              /\ result \in {"CREATOR", "OPPONENT"}
    <3>1. \/ /\ c.kind = "LOCK" /\ pc[c.slot] = "locking" /\ p = Who[c.slot]
             /\ view.status \in {"NONE", "OPEN"}
          \/ /\ c.kind = "REFUND" /\ pc[c.slot] = "cancelling" /\ p = Creator
             /\ view.status = "OPEN" /\ Op[c.slot] = "cancel"
          \/ /\ c.kind = "REFUND" /\ pc[c.slot] = "refunding" /\ p = Creator
             /\ view.status \in {"MATCHED", "VOID"} /\ result = "NEITHER"
          \/ /\ c.kind = "REFUND" /\ pc[c.slot] = "voiding"
             /\ view.status \in {"MATCHED", "VOID"} /\ result = "NEITHER"
          \/ /\ c.kind = "PAY" /\ pc[c.slot] = "paying"
             /\ view.status \in {"MATCHED", "SETTLED"} /\ result \in {"CREATOR", "OPPONENT"}
      BY <1>1, RunStage
    <3> QED BY <3>1
  <2>4. CASE c.kind = "LOCK"
    <3>1. /\ view.status \in {"NONE", "OPEN"}
          /\ locked[p] = 0 /\ free'[p] = free[p] - Stake /\ locked'[p] = Stake
      BY <2>1, <2>3, <2>4
    <3>2. Worth(p) = Initial
      BY <1>3, <2>1, <3>1 DEF CalmMoney
    <3>3. free'[p] + locked'[p] = Initial
      BY <2>2, <3>1, <3>2 DEF Worth
    <3>4. CalmMoney(p)'
      BY <1>3, <3>1, <3>3 DEF CalmMoney, Worth
    <3> QED BY <1>4, <2>1, <3>4
  <2>5. CASE c.kind = "REFUND"
    <3>1. /\ view.status \in {"OPEN", "MATCHED", "VOID"} /\ (view.status = "MATCHED" => result = "NEITHER")
          /\ locked[p] = Stake /\ free'[p] = free[p] + Stake /\ locked'[p] = 0
      BY <2>1, <2>3, <2>5
    <3>2. Worth(p) = Initial
      BY <1>3, <2>1, <2>2, <3>1 DEF CalmMoney
    <3>3. free'[p] + locked'[p] = Initial
      BY <2>2, <3>1, <3>2 DEF Worth
    <3>4. CalmMoney(p)'
      BY <1>3, <3>1, <3>3 DEF CalmMoney, Worth
    <3> QED BY <1>4, <2>1, <3>4
  <2>6. CASE c.kind = "PAY"
    <3>1. /\ view.status \in {"MATCHED", "SETTLED"} /\ result \in {"CREATOR", "OPPONENT"}
          /\ locked[p] = Stake /\ free'[p] = free[p] + c.amount /\ locked'[p] = 0
          /\ p \in Sides /\ c.amount = IF p = Winner(view.opponent) THEN WinnerPayout ELSE 0
      BY <1>2, <2>1, <2>3, <2>6
    <3>2. Worth(p) = Initial
      BY <1>3, <2>1, <2>2, <3>1 DEF CalmMoney
    <3>3. free[p] + Stake = Initial
      BY <3>1, <3>2 DEF Worth
    <3>4. free'[p] + locked'[p] = Initial + Gain(p)
      <4>1. CASE p = Winner(view.opponent)
        <5>1. c.amount = WinnerPayout /\ Gain(p) = Stake - Rake
          BY <3>1, <4>1 DEF Gain
        <5> QED BY <2>2, <3>1, <3>3, <5>1
      <4>2. CASE p # Winner(view.opponent)
        <5>1. c.amount = 0 /\ Gain(p) = -Stake
          BY <3>1, <4>2 DEF Gain
        <5> QED BY <2>2, <3>1, <3>3, <5>1
      <4> QED BY <4>1, <4>2
    <3>5. Gain(p)' = Gain(p) /\ Sides' = Sides
      BY <1>3 DEF Gain, Winner, Sides
    <3>6. CalmMoney(p)'
      BY <1>3, <3>1, <3>4, <3>5 DEF CalmMoney, Worth
    <3> QED BY <1>4, <2>1, <3>6
  <2> QED BY <1>2, <2>4, <2>5, <2>6 DEF Letters
<1> QED BY <1>5, <1>6

\* The escrow's view of an uncontested challenge, after a command.
LEMMA RunCalmView ==
  ASSUME ChallengeIInv, ~contested, NEW p \in Player, RunCommand(p)
  PROVE  CalmView'
<1>1. PICK c : c = Head(mail[p])
  OBVIOUS
<1>2. /\ UNCHANGED <<view, result, stored, cached>>
      /\ CalmView /\ ChallengeTypeOK /\ ViewOK
  BY DEF RunCommand, ChallengeIInv, escrow, Calm
<1>3. /\ \A q \in Player : locked'[q] # locked[q] => q = p
      /\ locked[p] \in {0, Stake} /\ locked'[p] \in {0, Stake}
      /\ locked'[p] # 0 /\ locked[p] = 0 => c.kind = "LOCK"
      /\ locked'[p] = 0 /\ locked[p] # 0 => c.kind # "LOCK"
  BY <1>1, RunStakes
<1>4. c.slot \in Reqs /\
      \/ /\ c.kind = "LOCK" /\ pc[c.slot] = "locking" /\ p = Who[c.slot]
         /\ view.status \in {"NONE", "OPEN"}
      \/ /\ c.kind = "REFUND" /\ pc[c.slot] = "cancelling" /\ p = Creator
         /\ view.status = "OPEN" /\ Op[c.slot] = "cancel"
      \/ /\ c.kind = "REFUND" /\ pc[c.slot] = "refunding" /\ p = Creator
         /\ view.status \in {"MATCHED", "VOID"} /\ result = "NEITHER"
      \/ /\ c.kind = "REFUND" /\ pc[c.slot] = "voiding"
         /\ view.status \in {"MATCHED", "VOID"} /\ result = "NEITHER"
      \/ /\ c.kind = "PAY" /\ pc[c.slot] = "paying"
         /\ view.status \in {"MATCHED", "SETTLED"} /\ result \in {"CREATOR", "OPPONENT"}
  BY <1>1, RunStage
<1>5. /\ \A t \in Reqs : pc'[t] = pc[t] \/ pc'[t] = "idle"
      /\ \A t \in Reqs : pc[t] = "cancelling" => pc'[t] = "cancelling"
  BY <1>1, <1>2, <1>4, RunPlace DEF ChallengeTypeOK
<1>6. Creator \in Player /\ Stake # 0
  BY PlayersFacts, RakeFits
<1>7. \A t, u \in Contenders' : t = u
  <2>1. Contenders' \subseteq Contenders
    BY <1>5 DEF Contenders
  <2> QED BY <1>2, <2>1 DEF CalmView
<1>8. ASSUME view.status = "OPEN"
      PROVE  locked'[Creator] = Stake \/ \E s \in Reqs : pc'[s] = "cancelling"
  <2>1. locked[Creator] = Stake \/ \E s \in Reqs : pc[s] = "cancelling"
    BY <1>2, <1>8 DEF CalmView
  <2>2. CASE \E s \in Reqs : pc[s] = "cancelling"
    BY <1>5, <2>2
  <2>3. CASE locked[Creator] = Stake /\ locked'[Creator] # Stake
    <3>1. p = Creator /\ c.kind # "LOCK"
      BY <1>3, <1>6, <2>3
    <3>2. pc[c.slot] = "cancelling" /\ c.slot \in Reqs
      BY <1>4, <1>8, <3>1
    <3> QED BY <1>5, <3>2
  <2> QED BY <2>1, <2>2, <2>3
<1>9. ASSUME view.status \in {"SETTLED", "VOID"}
      PROVE  view.opponent # None /\ \A q \in Sides : locked'[q] = 0
  <2>1. view.opponent # None /\ \A q \in Sides : locked[q] = 0
    BY <1>2, <1>9 DEF CalmView
  <2>2. Sides \subseteq Player
    BY <1>2, <1>6, <2>1 DEF Sides, ChallengeTypeOK
  <2>3. c.kind # "LOCK"
    BY <1>4, <1>9
  <2> QED BY <1>3, <2>1, <2>2, <2>3
<1> QED BY <1>2, <1>7, <1>8, <1>9 DEF CalmView, Sides

\* A command keeps the invariant.
LEMMA RunCommandKeeps ==
  ASSUME ChallengeIInv, NEW p \in Player, RunCommand(p)
  PROVE  ChallengeIInv'
<1>1. PICK c : c = Head(mail[p])
  OBVIOUS
<1>2. /\ c \in Letters /\ mail' \in [Player -> Seq(Letters)]
      /\ waiting' \in [Reqs -> 0..2]
  BY <1>1, RunMail
<1>3. /\ UNCHANGED <<match, result, escrow, cached, expected, contested, crashes>>
      /\ ChallengeTypeOK /\ ViewOK
  BY DEF RunCommand, ChallengeIInv
<1>4. free' \in [Player -> Nat] /\ locked' \in [Player -> {0, Stake}]
  BY <1>1, <1>2, <1>3, RunEffect
<1>5. pc' = pc \/ pc' = [pc EXCEPT ![c.slot] = "idle"]
  BY <1>1, RunPlace
<1>6. ChallengeTypeOK'
  BY <1>2, <1>3, <1>4, <1>5 DEF ChallengeTypeOK, escrow
<1>7. ViewOK'
  <2>1. \A t \in Reqs : pc'[t] = pc[t] \/ pc'[t] = "idle"
    BY <1>3, <1>5 DEF ChallengeTypeOK
  <2> QED BY <1>3, <2>1 DEF ViewOK, Opening, escrow
<1>8. \A q \in Player : MailOK(q)' /\ StakeOK(q)'
  BY RunMailboxes
<1>9. \A t \in Reqs : RequestOK(t)'
  BY RunRequests
<1>10. Calm'
  <2> SUFFICES ASSUME ~contested PROVE Calm'
    BY <1>3 DEF Calm
  <2>1. \A t \in Reqs : CalmRequest(t)'
    BY RunCalmRequests
  <2>2. \A q \in Player : CalmMoney(q)' /\ CalmMail(q)'
    BY RunCalmMoney
  <2>3. CalmView'
    BY RunCalmView
  <2> QED BY <2>1, <2>2, <2>3 DEF Calm
<1> QED BY <1>2, <1>6, <1>7, <1>8, <1>9, <1>10 DEF ChallengeIInv

-----------------------------------------------------------------------------
(* Appends to the escrow's stream *)

\* What an append does to the view, and from where.
LEMMA AppendCases ==
  ASSUME ChallengeIInv, NEW s \in Reqs, AppendEvent(s)
  PROVE  \/ /\ Opening(s) /\ view.status = "NONE" /\ view.opponent = None /\ stored = 0 /\ cached = None
            /\ view' = [status |-> "OPEN", opponent |-> None] /\ managersPot' = managersPot
         \/ /\ pc[s] = "locking" /\ Op[s] = "accept" /\ Who[s] \in Player \ {Creator}
            /\ view.status # "NONE"
            /\ view' = [status |-> "MATCHED", opponent |-> Who[s]] /\ managersPot' = managersPot
         \/ /\ pc[s] = "cancelling" /\ Op[s] = "cancel" /\ view.status # "NONE"
            /\ view' = [status |-> "CANCELLED", opponent |-> view.opponent]
            /\ managersPot' = managersPot
         \/ /\ pc[s] = "voiding" /\ Settling(s) /\ result = "NEITHER"
            /\ view.status # "NONE" /\ view.opponent # None
            /\ view' = [status |-> "VOID", opponent |-> view.opponent] /\ managersPot' = managersPot
         \/ /\ pc[s] = "paying" /\ Settling(s) /\ result \in {"CREATOR", "OPPONENT"}
            /\ view.status # "NONE" /\ view.opponent # None
            /\ view' = [status |-> "SETTLED", opponent |-> view.opponent]
            /\ managersPot' = managersPot + Rake
<1>1. pc[s] \in {"locking", "cancelling", "paying", "voiding"} /\ Project(s)
  BY DEF AppendEvent, Appending
<1>2. RequestOK(s) /\ ViewOK /\ ChallengeTypeOK
  BY DEF ChallengeIInv
<1>3. view = [status |-> view.status, opponent |-> view.opponent]
  BY <1>2 DEF ChallengeTypeOK
<1>4. Op[s] \in {"create", "accept", "cancel", "settle"} /\ Who[s] \in Player
  BY PlayersFacts
<1>5. view.status = "NONE" => Opening(s)
  BY <1>1, <1>2 DEF ViewOK
<1>6. CASE pc[s] = "locking" /\ Op[s] = "create"
  <2>1. view' = [status |-> "OPEN", opponent |-> None] /\ managersPot' = managersPot
    BY <1>1, <1>6 DEF Project
  <2> QED BY <1>2, <1>6, <2>1 DEF RequestOK, Opening, ViewOK
<1>7. CASE pc[s] = "locking" /\ Op[s] = "accept"
  <2>1. view' = [status |-> "MATCHED", opponent |-> Who[s]] /\ managersPot' = managersPot
    BY <1>1, <1>7 DEF Project
  <2> QED BY <1>2, <1>4, <1>5, <1>7, <2>1 DEF RequestOK, Opening
<1>8. CASE pc[s] = "cancelling"
  <2>1. view' = [view EXCEPT !.status = "CANCELLED"] /\ managersPot' = managersPot
    BY <1>1, <1>8 DEF Project
  <2>2. view' = [status |-> "CANCELLED", opponent |-> view.opponent]
    BY <1>3, <2>1
  <2> QED BY <1>2, <1>5, <1>8, <2>1, <2>2 DEF RequestOK, Opening
<1>9. CASE pc[s] = "voiding"
  <2>1. view' = [view EXCEPT !.status = "VOID"] /\ managersPot' = managersPot
    BY <1>1, <1>9 DEF Project
  <2>2. view' = [status |-> "VOID", opponent |-> view.opponent]
    BY <1>3, <2>1
  <2> QED BY <1>2, <1>5, <1>9, <2>1, <2>2 DEF RequestOK, Opening, Settling
<1>10. CASE pc[s] = "paying"
  <2>1. view' = [view EXCEPT !.status = "SETTLED"] /\ managersPot' = managersPot + Rake
    BY <1>1, <1>10 DEF Project
  <2>2. view' = [status |-> "SETTLED", opponent |-> view.opponent]
    BY <1>3, <2>1
  <2> QED BY <1>2, <1>5, <1>10, <2>1, <2>2 DEF RequestOK, Opening, Settling
<1>11. pc[s] = "locking" => Op[s] \in {"create", "accept"}
  BY <1>2 DEF RequestOK
<1> QED BY <1>1, <1>6, <1>7, <1>8, <1>9, <1>10, <1>11

\* The parts of the invariant that contests do not touch, after an append.
LEMMA AppendPlain ==
  ASSUME ChallengeIInv, NEW s \in Reqs, AppendEvent(s)
  PROVE  /\ waiting[s] = 0 /\ Pending(s) = {} /\ pc'[s] = "publishing" /\ expected'[s] = stored
         /\ \A t \in Reqs : t # s => pc'[t] = pc[t] /\ expected'[t] = expected[t]
         /\ \A t \in Reqs : Pending(t)' = Pending(t)
         /\ UNCHANGED <<match, result, cached, money, mail, waiting, contested, crashes>>
         /\ mail' \in [Player -> Seq(Letters)]
         /\ \A p \in Player : MailOK(p)' /\ StakeOK(p)'
<1>1. /\ waiting[s] = 0 /\ expected' = [expected EXCEPT ![s] = stored] /\ MoveTo(s, "publishing")
      /\ UNCHANGED <<match, result, cached, money, mail, waiting, contested, crashes>>
  BY DEF AppendEvent, Appending
<1>2. /\ ChallengeTypeOK /\ \A t \in Reqs : RequestOK(t)
      /\ mail \in [Player -> Seq(Letters)]
      /\ \A p \in Player : MailOK(p) /\ StakeOK(p)
  BY DEF ChallengeIInv
<1>3. /\ pc'[s] = "publishing" /\ expected'[s] = stored
      /\ \A t \in Reqs : t # s => pc'[t] = pc[t] /\ expected'[t] = expected[t]
  BY <1>1, <1>2 DEF ChallengeTypeOK, MoveTo
<1>4. /\ UNCHANGED <<mail, money>> /\ (match = "RESOLVED" => match' = "RESOLVED")
      /\ \A t \in Reqs : waiting[t] # 0 => pc'[t] = pc[t]
  BY <1>1, <1>3
<1>5. /\ \A p \in Player : MailOK(p)' /\ StakeOK(p)'
      /\ \A t \in Reqs : Pending(t)' = Pending(t)
  BY <1>2, <1>4, MailKept
<1>6. Pending(s) = {}
  BY <1>1, <1>2, NoneAwaited
<1> QED BY <1>1, <1>2, <1>3, <1>5, <1>6

\* The requests and the view, after an append.
LEMMA AppendRequests ==
  ASSUME ChallengeIInv, NEW s \in Reqs, AppendEvent(s)
  PROVE  /\ ChallengeTypeOK' /\ ViewOK'
         /\ \A t \in Reqs : RequestOK(t)'
<1>1. /\ waiting[s] = 0 /\ pc'[s] = "publishing" /\ expected'[s] = stored
      /\ \A t \in Reqs : t # s => pc'[t] = pc[t] /\ expected'[t] = expected[t]
      /\ \A t \in Reqs : Pending(t)' = Pending(t)
      /\ UNCHANGED <<match, result, cached, money, mail, waiting, contested, crashes>>
  BY AppendPlain
<1>2. /\ ChallengeTypeOK /\ ViewOK /\ \A t \in Reqs : RequestOK(t)
  BY DEF ChallengeIInv
<1>3. /\ view' \in [status : {"OPEN", "MATCHED", "SETTLED", "VOID", "CANCELLED"},
                   opponent : (Player \ {Creator}) \cup {None}]
      /\ view'.status = "MATCHED" => view'.opponent # None
      /\ view.opponent # None => view'.opponent # None
      /\ managersPot' \in {managersPot, managersPot + Rake}
      /\ view.status = "NONE" => Opening(s)
  <2>1. view.opponent \in (Player \ {Creator}) \cup {None} /\ None \notin Player
    BY <1>2, PlayersFacts DEF ChallengeTypeOK
  <2>2. \/ /\ Opening(s) /\ view.opponent = None
           /\ view' = [status |-> "OPEN", opponent |-> None] /\ managersPot' = managersPot
        \/ /\ Who[s] \in Player \ {Creator} /\ view.status # "NONE"
           /\ view' = [status |-> "MATCHED", opponent |-> Who[s]] /\ managersPot' = managersPot
        \/ /\ view.status # "NONE"
           /\ \E status \in {"CANCELLED", "VOID", "SETTLED"} :
                view' = [status |-> status, opponent |-> view.opponent]
           /\ managersPot' \in {managersPot, managersPot + Rake}
    BY AppendCases
  <2> QED BY <2>1, <2>2
<1>4. pc[s] \in {"locking", "cancelling", "paying", "voiding"} /\ stored' = stored + 1
      /\ expected' = [expected EXCEPT ![s] = stored] /\ pc' = [pc EXCEPT ![s] = "publishing"]
  BY DEF AppendEvent, Appending, MoveTo
<1>5. ChallengeTypeOK'
  <2>1. view' \in [status : {"NONE", "OPEN", "MATCHED", "SETTLED", "VOID", "CANCELLED"},
                   opponent : (Player \ {Creator}) \cup {None}]
    BY <1>3
  <2>2. stored' \in Nat /\ managersPot' \in Nat
    BY <1>2, <1>3, <1>4, RakeFits DEF ChallengeTypeOK
  <2>3. expected' \in [Reqs -> Nat \cup {None}]
        /\ pc' \in [Reqs -> {"idle", "locking", "undoing", "cancelling", "refunding", "voiding",
                             "paying", "publishing"}]
    BY <1>2, <1>4 DEF ChallengeTypeOK
  <2> QED BY <1>1, <1>2, <2>1, <2>2, <2>3 DEF ChallengeTypeOK, money
<1>6. ViewOK'
  <2>1. view'.status # "NONE"
    BY <1>3
  <2> QED BY <1>1, <1>2, <1>3, <2>1 DEF ViewOK
<1>7. ASSUME NEW t \in Reqs, t # s PROVE RequestOK(t)'
  <2>1. ~ Opening(t)
    <3> SUFFICES ASSUME Opening(t) PROVE FALSE
      OBVIOUS
    <3>1. view.status = "NONE"
      BY <1>2 DEF RequestOK
    <3>2. Opening(s)
      BY <1>3, <3>1
    <3>3. s = t
      BY <3>2, PlayersFacts DEF Opening
    <3> QED BY <1>7, <3>3
  <2>2. /\ RequestOK(t) /\ waiting'[t] = waiting[t] /\ pc'[t] = pc[t] /\ expected'[t] = expected[t]
        /\ Pending(t)' = Pending(t) /\ match' = match /\ result' = result
    BY <1>1, <1>2, <1>7
  <2>3. view.opponent # None => view'.opponent # None
    BY <1>3
  <2> QED BY <2>1, <2>2, <2>3, RequestKept
<1>8. RequestOK(s)'
  <2>1. RequestOK(s)
    BY <1>2
  <2>2. waiting'[s] = 0 /\ (waiting[s] = Cardinality(Pending(s)))'
    BY <1>1, <2>1 DEF RequestOK
  <2>3. expected'[s] # None
    BY <1>1, <1>2, PlayersFacts DEF ChallengeTypeOK
  <2> QED BY <1>1, <1>4, <2>1, <2>2, <2>3 DEF RequestOK, Settling, Opening
<1> QED BY <1>5, <1>6, <1>7, <1>8

\* What an uncontested challenge was before an append, request by request.
LEMMA AppendCalmBefore ==
  ASSUME ChallengeIInv, ~contested, NEW s \in Reqs, AppendEvent(s)
  PROVE  /\ pc[s] = "locking" => Who[s] \in Player /\ locked[Who[s]] = Stake
         /\ pc[s] \in {"locking", "cancelling"} /\ view.status # "NONE" => view.status = "OPEN"
         /\ pc[s] \in {"locking", "cancelling"} /\ view.status # "NONE" =>
              \A t \in Reqs : t # s => pc[t] \notin {"locking", "cancelling"}
         /\ pc[s] = "voiding" => view.status \in {"MATCHED", "VOID"}
         /\ pc[s] = "paying" => view.status \in {"MATCHED", "SETTLED"}
         /\ pc[s] \in {"voiding", "paying"} => \A p \in Sides : locked[p] = 0
         /\ pc[s] \in {"voiding", "paying"} => \A t \in Reqs : pc[t] \notin {"locking", "cancelling"}
<1>1. /\ waiting[s] = 0 /\ Pending(s) = {}
  BY AppendPlain
<1>2. /\ CalmView /\ \A t \in Reqs : CalmRequest(t) /\ RequestOK(t)
  BY DEF ChallengeIInv, Calm
<1>3. CalmRequest(s) /\ RequestOK(s)
  BY <1>2
<1>4. pc[s] = "locking" => Who[s] \in Player /\ locked[Who[s]] = Stake
  BY <1>1, <1>3, PlayersFacts DEF CalmRequest
<1>5. ASSUME NEW t \in Reqs, pc[t] \in {"locking", "cancelling"}, view.status # "NONE"
      PROVE  view.status = "OPEN" /\ t \in Contenders
  <2>1. CalmRequest(t) /\ RequestOK(t)
    BY <1>2
  <2>2. Op[t] \in {"accept", "cancel"}
    BY <1>5, <2>1 DEF RequestOK, Opening
  <2>3. t \in Contenders
    BY <1>5, <2>2 DEF Contenders
  <2> QED BY <1>5, <2>1, <2>2, <2>3 DEF CalmRequest
<1>6. ASSUME pc[s] \in {"locking", "cancelling"}, view.status # "NONE", NEW t \in Reqs, t # s,
             pc[t] \in {"locking", "cancelling"}
      PROVE  FALSE
  <2>1. s \in Contenders /\ t \in Contenders
    BY <1>5, <1>6
  <2> QED BY <1>2, <1>6, <2>1 DEF CalmView
<1>7. /\ pc[s] = "voiding" => view.status \in {"MATCHED", "VOID"}
      /\ pc[s] = "paying" => view.status \in {"MATCHED", "SETTLED"}
  BY <1>3 DEF CalmRequest
<1>8. pc[s] \in {"voiding", "paying"} => \A p \in Sides : locked[p] = 0
  BY <1>1, <1>3 DEF CalmRequest, Sides
<1>9. ASSUME pc[s] \in {"voiding", "paying"}, NEW t \in Reqs, pc[t] \in {"locking", "cancelling"}
      PROVE  FALSE
  <2>1. view.status = "OPEN"
    BY <1>5, <1>7, <1>9
  <2> QED BY <1>7, <1>9, <2>1
<1> QED BY <1>4, <1>5, <1>6, <1>7, <1>8, <1>9

\* An append keeps the requests of an uncontested challenge calm.
LEMMA AppendCalmRequests ==
  ASSUME ChallengeIInv, ~contested, NEW s \in Reqs, AppendEvent(s), NEW t \in Reqs
  PROVE  CalmRequest(t)'
<1>1. /\ pc'[s] = "publishing" /\ expected'[s] = stored
      /\ \A u \in Reqs : u # s => pc'[u] = pc[u] /\ expected'[u] = expected[u]
      /\ \A u \in Reqs : Pending(u)' = Pending(u)
      /\ UNCHANGED <<match, result, cached, money, mail, waiting, contested, crashes>>
  BY AppendPlain
<1>2. RequestOK(t) /\ CalmRequest(t) /\ ViewOK
  BY DEF ChallengeIInv, Calm
<1>3. /\ pc[s] \in {"locking", "cancelling"} /\ view.status # "NONE" => view.status = "OPEN"
      /\ pc[s] \in {"locking", "cancelling"} /\ view.status # "NONE" =>
           \A u \in Reqs : u # s => pc[u] \notin {"locking", "cancelling"}
      /\ pc[s] \in {"voiding", "paying"} => \A u \in Reqs : pc[u] \notin {"locking", "cancelling"}
  BY AppendCalmBefore
<1>4. \/ /\ Opening(s) /\ view.status = "NONE" /\ view.opponent = None /\ stored = 0 /\ cached = None
         /\ view' = [status |-> "OPEN", opponent |-> None] /\ managersPot' = managersPot
      \/ /\ pc[s] = "locking" /\ Op[s] = "accept" /\ Who[s] \in Player \ {Creator}
         /\ view.status # "NONE"
         /\ view' = [status |-> "MATCHED", opponent |-> Who[s]] /\ managersPot' = managersPot
      \/ /\ pc[s] = "cancelling" /\ Op[s] = "cancel" /\ view.status # "NONE"
         /\ view' = [status |-> "CANCELLED", opponent |-> view.opponent]
         /\ managersPot' = managersPot
      \/ /\ pc[s] = "voiding" /\ Settling(s) /\ result = "NEITHER"
         /\ view.status # "NONE" /\ view.opponent # None
         /\ view' = [status |-> "VOID", opponent |-> view.opponent] /\ managersPot' = managersPot
      \/ /\ pc[s] = "paying" /\ Settling(s) /\ result \in {"CREATOR", "OPPONENT"}
         /\ view.status # "NONE" /\ view.opponent # None
         /\ view' = [status |-> "SETTLED", opponent |-> view.opponent]
         /\ managersPot' = managersPot + Rake
  BY AppendCases
<1>5. CASE t = s
  BY <1>1, <1>4, <1>5 DEF CalmRequest, Opening
<1>6. CASE t # s /\ view.status = "NONE"
  <2>1. pc[t] = "idle" \/ Opening(t)
    BY <1>2, <1>6 DEF ViewOK
  <2>2. Opening(s) \/ pc[s] \in {"voiding", "paying"}
    BY <1>4, <1>6
  <2>3. Opening(s)
    BY <1>6, <2>2, AppendCases
  <2>4. pc[t] = "idle"
    BY <1>6, <2>1, <2>3, PlayersFacts DEF Opening
  <2> QED BY <1>1, <1>6, <2>4 DEF CalmRequest
<1>7. CASE t # s /\ view.status # "NONE"
  <2>1. pc'[t] = pc[t] /\ expected'[t] = expected[t] /\ pc[t] \notin {"locking", "cancelling", "undoing"}
    BY <1>1, <1>2, <1>3, <1>4, <1>7 DEF CalmRequest
  <2>2. view'.status # "OPEN"
    BY <1>4, <1>7
  <2>3. CASE pc[t] \notin {"paying", "refunding", "voiding"}
    BY <2>1, <2>2, <2>3 DEF CalmRequest
  <2>4. CASE pc[t] \in {"paying", "refunding", "voiding"}
    <3>1. /\ view.status \in {"MATCHED", "VOID", "SETTLED"}
          /\ pc[t] = "paying" => result \in {"CREATOR", "OPPONENT"}
          /\ pc[t] \in {"refunding", "voiding"} => result = "NEITHER"
      BY <1>2, <2>4 DEF RequestOK, CalmRequest
    <3>2. pc[s] \in {"voiding", "paying"}
      BY <1>3, <1>4, <1>7, <3>1 DEF Opening
    <3>3. view'.opponent = view.opponent
      BY <1>4, <3>2 DEF Opening
    <3>4. /\ pc[t] = "paying" => view'.status = "SETTLED"
          /\ pc[t] \in {"refunding", "voiding"} => view'.status = "VOID"
      BY <1>4, <3>1, <3>2 DEF Opening
    <3> QED BY <1>1, <1>2, <2>1, <2>2, <2>4, <3>3, <3>4 DEF CalmRequest, Sides, money
  <2> QED BY <2>3, <2>4
<1> QED BY <1>5, <1>6, <1>7

\* An append keeps the money and the mailboxes of an uncontested challenge calm.
LEMMA AppendCalmMoney ==
  ASSUME ChallengeIInv, ~contested, NEW s \in Reqs, AppendEvent(s), NEW p \in Player
  PROVE  CalmMoney(p)' /\ CalmMail(p)'
<1>1. UNCHANGED <<match, result, cached, money, mail, waiting, contested, crashes>>
  BY AppendPlain
<1>2. /\ CalmMoney(p) /\ CalmMail(p) /\ CalmView /\ ViewOK /\ ChallengeTypeOK
      /\ \A t \in Reqs : CalmRequest(t)
  BY DEF ChallengeIInv, Calm
<1>3. /\ pc[s] = "locking" => Who[s] \in Player /\ locked[Who[s]] = Stake
      /\ pc[s] \in {"locking", "cancelling"} /\ view.status # "NONE" => view.status = "OPEN"
      /\ pc[s] \in {"locking", "cancelling"} /\ view.status # "NONE" =>
           \A t \in Reqs : t # s => pc[t] \notin {"locking", "cancelling"}
      /\ pc[s] = "voiding" => view.status \in {"MATCHED", "VOID"}
      /\ pc[s] = "paying" => view.status \in {"MATCHED", "SETTLED"}
      /\ pc[s] \in {"voiding", "paying"} => \A q \in Sides : locked[q] = 0
  BY AppendCalmBefore
<1>4. \/ /\ Opening(s) /\ view.status = "NONE" /\ view.opponent = None /\ stored = 0 /\ cached = None
         /\ view' = [status |-> "OPEN", opponent |-> None] /\ managersPot' = managersPot
      \/ /\ pc[s] = "locking" /\ Op[s] = "accept" /\ Who[s] \in Player \ {Creator}
         /\ view.status # "NONE"
         /\ view' = [status |-> "MATCHED", opponent |-> Who[s]] /\ managersPot' = managersPot
      \/ /\ pc[s] = "cancelling" /\ Op[s] = "cancel" /\ view.status # "NONE"
         /\ view' = [status |-> "CANCELLED", opponent |-> view.opponent]
         /\ managersPot' = managersPot
      \/ /\ pc[s] = "voiding" /\ Settling(s) /\ result = "NEITHER"
         /\ view.status # "NONE" /\ view.opponent # None
         /\ view' = [status |-> "VOID", opponent |-> view.opponent] /\ managersPot' = managersPot
      \/ /\ pc[s] = "paying" /\ Settling(s) /\ result \in {"CREATOR", "OPPONENT"}
         /\ view.status # "NONE" /\ view.opponent # None
         /\ view' = [status |-> "SETTLED", opponent |-> view.opponent]
         /\ managersPot' = managersPot + Rake
  BY AppendCases
<1>5. Stake # 0 /\ free' = free /\ locked' = locked /\ Worth(p)' = Worth(p)
  BY <1>1, RakeFits DEF money, Worth
<1>6. CASE pc[s] \in {"locking", "cancelling"}
  <2>1. view.status \in {"NONE", "OPEN"}
    BY <1>3, <1>6
  <2>2. Worth(p) = Initial
    BY <1>2, <2>1 DEF CalmMoney
  <2>3. CalmMail(p)'
    <3>1. ASSUME NEW i \in 1..Len(mail[p]), NEW c, c = mail[p][i], c.kind = "PAY" PROVE FALSE
      <4>1. c.slot \in Reqs /\ Awaited(p, c)
        BY <3>1, LettersTyped DEF ChallengeIInv, MailOK
      <4>2. pc[c.slot] = "paying" /\ CalmRequest(c.slot)
        BY <1>2, <3>1, <4>1 DEF Awaited
      <4> QED BY <2>1, <4>2 DEF CalmRequest
    <3> QED BY <1>1, <3>1 DEF CalmMail
  <2>4. view'.status \in {"OPEN", "CANCELLED"} \/ view'.status = "MATCHED"
    BY <1>4, <1>6
  <2>5. CASE view'.status # "MATCHED"
    <3>1. CalmMoney(p)'
      BY <1>5, <2>2, <2>4, <2>5 DEF CalmMoney
    <3> QED BY <2>3, <3>1
  <2>6. CASE view'.status = "MATCHED"
    <3>1. /\ pc[s] = "locking" /\ view.status = "OPEN" /\ view'.opponent = Who[s]
          /\ locked[Who[s]] = Stake
      BY <1>3, <1>4, <1>6, <2>6
    <3>2. locked[Creator] = Stake
      <4>1. locked[Creator] = Stake \/ \E t \in Reqs : pc[t] = "cancelling"
        BY <1>2, <3>1 DEF CalmView
      <4>2. \A t \in Reqs : pc[t] # "cancelling"
        BY <1>3, <3>1
      <4> QED BY <4>1, <4>2
    <3>3. p \in Sides' => locked[p] = Stake
      BY <3>1, <3>2 DEF Sides
    <3>4. CalmMoney(p)'
      BY <1>5, <2>2, <2>6, <3>3 DEF CalmMoney
    <3> QED BY <2>3, <3>4
  <2> QED BY <2>5, <2>6
<1>7. CASE pc[s] \in {"voiding", "paying"}
  <2>1. view'.opponent = view.opponent
    BY <1>4, <1>7 DEF Opening
  <2>2. Sides' = Sides /\ Winner(view.opponent)' = Winner(view.opponent) /\ Gain(p)' = Gain(p)
    BY <1>1, <2>1 DEF Sides, Winner, Gain
  <2>3. CalmMail(p)'
    BY <1>1, <1>2, <2>2 DEF CalmMail
  <2>4. CASE pc[s] = "voiding"
    <3>1. result = "NEITHER" /\ view'.status = "VOID"
      BY <1>4, <2>4 DEF Opening
    <3>2. Worth(p) = Initial
      BY <1>2, <3>1 DEF CalmMoney
    <3>3. CalmMoney(p)'
      BY <1>5, <3>1, <3>2 DEF CalmMoney
    <3> QED BY <2>3, <3>3
  <2>5. CASE pc[s] = "paying"
    <3>1. /\ result \in {"CREATOR", "OPPONENT"} /\ view'.status = "SETTLED"
          /\ view.status \in {"MATCHED", "SETTLED"} /\ (p \in Sides => locked[p] = 0)
      BY <1>3, <1>4, <2>5 DEF Opening
    <3>2. CASE p \in Sides
      <4>1. locked[p] = 0 /\ Worth(p) = Initial + Gain(p)
        BY <1>2, <1>5, <3>1, <3>2 DEF CalmMoney
      <4>2. CalmMoney(p)'
        BY <1>1, <1>5, <2>2, <3>1, <3>2, <4>1 DEF CalmMoney
      <4> QED BY <2>3, <4>2
    <3>3. CASE p \notin Sides
      <4>1. Worth(p) = Initial
        BY <1>2, <3>3 DEF CalmMoney
      <4>2. CalmMoney(p)'
        BY <1>5, <2>2, <3>3, <4>1 DEF CalmMoney
      <4> QED BY <2>3, <4>2
    <3> QED BY <3>2, <3>3
  <2> QED BY <1>7, <2>4, <2>5
<1> QED BY <1>4, <1>6, <1>7 DEF Opening

\* An append keeps the view of an uncontested challenge calm.
LEMMA AppendCalmView ==
  ASSUME ChallengeIInv, ~contested, NEW s \in Reqs, AppendEvent(s)
  PROVE  CalmView'
<1>1. /\ pc'[s] = "publishing" /\ pc[s] # "idle"
      /\ \A t \in Reqs : t # s => pc'[t] = pc[t]
      /\ UNCHANGED <<match, result, cached, money, mail, waiting, contested, crashes>>
      /\ stored' = stored + 1
  <2>1. pc[s] # "idle" /\ stored' = stored + 1
    BY DEF AppendEvent, Appending
  <2> QED BY <2>1, AppendPlain
<1>2. /\ CalmView /\ ViewOK /\ ChallengeTypeOK
  BY DEF ChallengeIInv, Calm
<1>3. /\ pc[s] = "locking" => Who[s] \in Player /\ locked[Who[s]] = Stake
      /\ pc[s] \in {"voiding", "paying"} => \A q \in Sides : locked[q] = 0
  BY AppendCalmBefore
<1>4. \/ /\ Opening(s) /\ view.status = "NONE" /\ view.opponent = None /\ stored = 0 /\ cached = None
         /\ view' = [status |-> "OPEN", opponent |-> None]
      \/ view' = [status |-> "MATCHED", opponent |-> Who[s]]
      \/ view' = [status |-> "CANCELLED", opponent |-> view.opponent]
      \/ /\ pc[s] = "voiding" /\ result = "NEITHER" /\ view.opponent # None
         /\ view' = [status |-> "VOID", opponent |-> view.opponent]
      \/ /\ pc[s] = "paying" /\ result \in {"CREATOR", "OPPONENT"} /\ view.opponent # None
         /\ view' = [status |-> "SETTLED", opponent |-> view.opponent]
  BY AppendCases
<1>5. \A t, u \in Contenders' : t = u
  <2>1. Contenders' \subseteq Contenders
    BY <1>1 DEF Contenders
  <2> QED BY <1>2, <2>1 DEF CalmView
<1>6. view'.status = "OPEN" => stored' = 1 /\ cached' \in {None, 1} /\ locked'[Creator] = Stake
  <2> SUFFICES ASSUME view'.status = "OPEN" PROVE stored' = 1 /\ cached' \in {None, 1} /\ locked'[Creator] = Stake
    OBVIOUS
  <2>1. Opening(s) /\ stored = 0 /\ cached = None
    BY <1>4
  <2>2. Who[s] = Creator
    BY <2>1, PlayersFacts DEF Opening
  <2> QED BY <1>1, <1>3, <2>1, <2>2 DEF Opening, money
<1>7. /\ view'.status = "SETTLED" => result' \in {"CREATOR", "OPPONENT"}
      /\ view'.status = "VOID" => result' = "NEITHER"
  BY <1>1, <1>4
<1>8. view'.status \in {"SETTLED", "VOID"} =>
        view'.opponent # None /\ \A q \in {Creator, view'.opponent} : locked'[q] = 0
  <2> SUFFICES ASSUME view'.status \in {"SETTLED", "VOID"}
               PROVE  view'.opponent # None /\ \A q \in {Creator, view'.opponent} : locked'[q] = 0
    OBVIOUS
  <2>1. pc[s] \in {"voiding", "paying"} /\ view'.opponent = view.opponent /\ view.opponent # None
    BY <1>4
  <2> QED BY <1>1, <1>3, <2>1 DEF Sides, money
<1> QED BY <1>5, <1>6, <1>7, <1>8 DEF CalmView, Sides

\* An append keeps the invariant.
LEMMA AppendEventKeeps ==
  ASSUME ChallengeIInv, NEW s \in Reqs, AppendEvent(s)
  PROVE  ChallengeIInv'
<1>1. /\ contested' = contested /\ mail' \in [Player -> Seq(Letters)]
      /\ \A p \in Player : MailOK(p)' /\ StakeOK(p)'
  BY AppendPlain
<1>2. ChallengeTypeOK' /\ ViewOK' /\ \A t \in Reqs : RequestOK(t)'
  BY AppendRequests
<1>3. Calm'
  <2> SUFFICES ASSUME ~contested PROVE Calm'
    BY <1>1 DEF Calm
  <2>1. \A t \in Reqs : CalmRequest(t)'
    BY AppendCalmRequests
  <2>2. \A p \in Player : CalmMoney(p)' /\ CalmMail(p)'
    BY AppendCalmMoney
  <2>3. CalmView'
    BY AppendCalmView
  <2> QED BY <2>1, <2>2, <2>3 DEF Calm
<1> QED BY <1>1, <1>2, <1>3 DEF ChallengeIInv

-----------------------------------------------------------------------------
(* Every run *)

\* The invariant holds at first.
LEMMA ChallengeStarts == ChallengeInit => ChallengeIInv
<1> SUFFICES ASSUME ChallengeInit PROVE ChallengeIInv
  OBVIOUS
<1>1. /\ match = "OPEN" /\ result = "NONE" /\ view = [status |-> "NONE", opponent |-> None]
      /\ stored = 0 /\ cached = None /\ managersPot = 0 /\ contested = FALSE /\ crashes = 0
      /\ free = [p \in Player |-> Initial] /\ locked = [p \in Player |-> 0]
      /\ mail = [p \in Player |-> <<>>]
      /\ pc = [s \in Reqs |-> "idle"] /\ expected = [s \in Reqs |-> None]
      /\ waiting = [s \in Reqs |-> 0]
  BY DEF ChallengeInit
<1>2. Initial \in Nat /\ Stake \in Nat /\ MaxCrashes \in Nat
  <2>1. MaxCrashes \in Nat
    BY MoneyAssumption
  <2> QED BY <2>1, RakeFits
<1>3. ChallengeTypeOK
  <2>1. /\ view \in [status : {"NONE", "OPEN", "MATCHED", "SETTLED", "VOID", "CANCELLED"},
                   opponent : (Player \ {Creator}) \cup {None}]
        /\ stored \in Nat /\ cached \in Nat \cup {None} /\ managersPot \in Nat
        /\ crashes \in 0..MaxCrashes
    BY <1>1, <1>2
  <2>2. free \in [Player -> Nat] /\ locked \in [Player -> {0, Stake}]
    BY <1>1, <1>2
  <2>3. expected \in [Reqs -> Nat \cup {None}] /\ waiting \in [Reqs -> 0..2]
    BY <1>1
  <2> QED BY <1>1, <2>1, <2>2, <2>3 DEF ChallengeTypeOK
<1>4. mail \in [Player -> Seq(Letters)] /\ \A p \in Player : Len(mail[p]) = 0
  BY <1>1
<1>5. ViewOK
  BY <1>1 DEF ViewOK
<1>6. \A p \in Player : Worth(p) = Initial
  BY <1>1, <1>2 DEF Worth
<1>7. \A p \in Player : MailOK(p) /\ StakeOK(p)
  BY <1>4, <1>6 DEF MailOK, StakeOK
<1>8. ASSUME NEW s \in Reqs PROVE RequestOK(s) /\ CalmRequest(s)
  <2>1. Pending(s) = {}
    BY <1>4 DEF Pending, Has
  <2>2. waiting[s] = Cardinality(Pending(s))
    BY <1>1, <2>1, FS_EmptySet
  <2>3. pc[s] = "idle" /\ expected[s] = None /\ waiting[s] = 0
    BY <1>1
  <2> QED BY <2>2, <2>3 DEF RequestOK, Settling, Opening, CalmRequest
<1>9. Calm
  <2>1. CalmView
    BY <1>1 DEF CalmView, Contenders
  <2>2. \A p \in Player : CalmMoney(p) /\ CalmMail(p)
    BY <1>1, <1>4, <1>6 DEF CalmMoney, CalmMail
  <2> QED BY <1>8, <2>1, <2>2 DEF Calm
<1> QED BY <1>3, <1>4, <1>5, <1>7, <1>8, <1>9 DEF ChallengeIInv

\* Nothing of the invariant depends on more than the variables.
LEMMA ChallengeStutters ==
  ASSUME ChallengeIInv, UNCHANGED challengeVars
  PROVE  ChallengeIInv'
<1>1. /\ UNCHANGED <<match, result, view, stored, managersPot, cached, free, locked, mail>>
      /\ UNCHANGED <<pc, expected, waiting, contested, crashes>>
  BY DEF challengeVars, escrow, money, request
<1>2. /\ ChallengeTypeOK /\ ViewOK /\ \A t \in Reqs : RequestOK(t)
      /\ mail \in [Player -> Seq(Letters)]
      /\ \A p \in Player : MailOK(p) /\ StakeOK(p)
  BY DEF ChallengeIInv
<1>3. /\ UNCHANGED <<mail, money>> /\ (match = "RESOLVED" => match' = "RESOLVED")
      /\ \A t \in Reqs : waiting[t] # 0 => pc'[t] = pc[t]
  BY <1>1 DEF money
<1>4. /\ \A p \in Player : MailOK(p)' /\ StakeOK(p)'
      /\ \A t \in Reqs : Pending(t)' = Pending(t)
  BY <1>2, <1>3, MailKept
<1>5. \A t \in Reqs : RequestOK(t)'
  BY <1>1, <1>2, <1>4, RequestKept
<1>6. ChallengeTypeOK' /\ ViewOK'
  BY <1>1, <1>2 DEF ChallengeTypeOK, ViewOK, Opening
<1>7. Calm'
  <2> SUFFICES ASSUME ~contested PROVE Calm'
    BY <1>1 DEF Calm
  <2>1. /\ CalmView /\ \A t \in Reqs : CalmRequest(t)
        /\ \A p \in Player : CalmMoney(p) /\ CalmMail(p)
    BY DEF ChallengeIInv, Calm
  <2>2. \A t \in Reqs : CalmRequest(t)'
    BY <1>1, <1>4, <2>1, CalmKept DEF money
  <2>3. CalmView'
    BY <1>1, <2>1 DEF CalmView, Contenders, Sides
  <2>4. \A p \in Player : CalmMoney(p)' /\ CalmMail(p)'
    BY <1>1, <2>1 DEF CalmMoney, CalmMail, Worth, Sides, Gain, Winner
  <2> QED BY <2>2, <2>3, <2>4 DEF Calm
<1> QED BY <1>1, <1>2, <1>4, <1>5, <1>6, <1>7 DEF ChallengeIInv

\* Every step keeps the invariant.
LEMMA ChallengeSteps == ChallengeIInv /\ [ChallengeNext]_challengeVars => ChallengeIInv'
<1> SUFFICES ASSUME ChallengeIInv, [ChallengeNext]_challengeVars PROVE ChallengeIInv'
  OBVIOUS
<1>1. ASSUME NEW s \in Reqs, CreateStart(s) PROVE ChallengeIInv'
  BY <1>1, CreateStartKeeps
<1>2. ASSUME NEW s \in Reqs, AcceptStart(s) PROVE ChallengeIInv'
  BY <1>2, AcceptStartKeeps
<1>3. ASSUME NEW s \in Reqs, CancelStart(s) PROVE ChallengeIInv'
  BY <1>3, CancelStartKeeps
<1>4. ASSUME NEW s \in Reqs, EngineStep(s) PROVE ChallengeIInv'
  <2>1. CASE SettleStart(s)
    BY <2>1, SettleStartKeeps
  <2>2. CASE RefundOpponent(s)
    BY <2>2, RefundOpponentKeeps
  <2>3. CASE ReadVersion(s)
    BY <2>3, ReadVersionKeeps
  <2>4. CASE AppendEvent(s)
    BY <2>4, AppendEventKeeps
  <2>5. CASE Conflict(s)
    BY <2>5, ConflictKeeps
  <2>6. CASE Undone(s)
    BY <2>6, UndoneKeeps
  <2>7. CASE Publish(s)
    BY <2>7, PublishKeeps
  <2> QED BY <1>4, <2>1, <2>2, <2>3, <2>4, <2>5, <2>6, <2>7 DEF EngineStep
<1>5. ASSUME NEW p \in Player, RunCommand(p) PROVE ChallengeIInv'
  BY <1>5, RunCommandKeeps
<1>6. CASE LockMatch
  BY <1>6, LockMatchKeeps
<1>7. CASE ResolveMatch
  BY <1>7, ResolveMatchKeeps
<1>8. CASE Crash
  BY <1>8, CrashKeeps
<1>9. CASE UNCHANGED challengeVars
  BY <1>9, ChallengeStutters
<1> QED BY <1>1, <1>2, <1>3, <1>4, <1>5, <1>6, <1>7, <1>8, <1>9 DEF ChallengeNext

\* Only an append moves the view.
LEMMA ViewMoves ==
  ASSUME [ChallengeNext]_challengeVars
  PROVE  view' = view \/ \E s \in Reqs : AppendEvent(s)
BY DEF ChallengeNext, challengeVars, escrow, EngineStep, CreateStart, AcceptStart, CancelStart,
   SettleStart, RefundOpponent, ReadVersion, Conflict, Undone, Publish, RunCommand, LockMatch,
   ResolveMatch, Crash

\* The invariant holds in every state of every run.
THEOREM ChallengeInvariance == ChallengeSpec => []ChallengeIInv
BY ChallengeStarts, ChallengeSteps, PTL DEF ChallengeSpec

\* An open challenge has no opponent yet.
FreshOpen == view.status = "OPEN" => view.opponent = None

LEMMA FreshOpenStep ==
  ChallengeIInv /\ FreshOpen /\ [ChallengeNext]_challengeVars => FreshOpen'
<1> SUFFICES ASSUME ChallengeIInv, FreshOpen, [ChallengeNext]_challengeVars PROVE FreshOpen'
  OBVIOUS
<1>1. CASE view' = view
  BY <1>1 DEF FreshOpen
<1>2. ASSUME NEW s \in Reqs, AppendEvent(s) PROVE FreshOpen'
  <2>1. \/ view' = [status |-> "OPEN", opponent |-> None]
        \/ \E o : \E x \in {"MATCHED", "CANCELLED", "VOID", "SETTLED"} :
             view' = [status |-> x, opponent |-> o]
    BY <1>2, AppendCases
  <2> QED BY <2>1 DEF FreshOpen
<1> QED BY <1>1, <1>2, ViewMoves

\* How an uncontested challenge goes on.
Life == {<<"NONE", "OPEN">>, <<"OPEN", "MATCHED">>, <<"OPEN", "CANCELLED">>,
         <<"MATCHED", "SETTLED">>, <<"MATCHED", "VOID">>}
GoesOn ==
  /\ view'.status # view.status => <<view.status, view'.status>> \in Life
  /\ view.opponent # None => view'.opponent = view.opponent

LEMMA LifeStep ==
  ChallengeIInv /\ FreshOpen /\ [ChallengeNext]_challengeVars => (~contested' => GoesOn)
<1> SUFFICES ASSUME ChallengeIInv, FreshOpen, [ChallengeNext]_challengeVars, ~contested'
             PROVE  GoesOn
  OBVIOUS
<1>1. CASE view' = view
  BY <1>1 DEF GoesOn
<1>2. ASSUME NEW s \in Reqs, AppendEvent(s) PROVE GoesOn
  <2>1. ~contested
    BY <1>2, AppendPlain
  <2>2. CalmRequest(s)
    BY <2>1 DEF ChallengeIInv, Calm
  <2>3. CASE Opening(s) /\ view.status = "NONE" /\ view.opponent = None
             /\ view' = [status |-> "OPEN", opponent |-> None]
    BY <2>3 DEF GoesOn, Life
  <2>4. CASE pc[s] = "locking" /\ Op[s] = "accept"
             /\ view' = [status |-> "MATCHED", opponent |-> Who[s]]
    <3>1. view.status = "OPEN"
      BY <2>2, <2>4 DEF CalmRequest
    <3> QED BY <2>4, <3>1 DEF FreshOpen, GoesOn, Life
  <2>5. CASE pc[s] = "cancelling" /\ Op[s] = "cancel"
             /\ view' = [status |-> "CANCELLED", opponent |-> view.opponent]
    <3>1. view.status = "OPEN"
      BY <2>2, <2>5 DEF CalmRequest
    <3> QED BY <2>5, <3>1 DEF GoesOn, Life
  <2>6. CASE pc[s] = "voiding" /\ view' = [status |-> "VOID", opponent |-> view.opponent]
    <3>1. view.status \in {"MATCHED", "VOID"}
      BY <2>2, <2>6 DEF CalmRequest
    <3> QED BY <2>6, <3>1 DEF GoesOn, Life
  <2>7. CASE pc[s] = "paying" /\ view' = [status |-> "SETTLED", opponent |-> view.opponent]
    <3>1. view.status \in {"MATCHED", "SETTLED"}
      BY <2>2, <2>7 DEF CalmRequest
    <3> QED BY <2>7, <3>1 DEF GoesOn, Life
  <2> QED BY <1>2, <2>3, <2>4, <2>5, <2>6, <2>7, AppendCases
<1> QED BY <1>1, <1>2, ViewMoves

\* An uncontested challenge is opened, accepted or cancelled, settled or voided, once
\* and in this order, and keeps the opponent who accepted it, through any restart that
\* interrupts no cancel.
THEOREM LifeInOrder ==
  ChallengeSpec =>
    [][~contested' =>
         /\ view'.status # view.status => <<view.status, view'.status>> \in Life
         /\ view.opponent # None => view'.opponent = view.opponent]_challengeVars
<1>1. ChallengeInit => FreshOpen
  BY DEF ChallengeInit, FreshOpen
<1>2. ChallengeIInv /\ FreshOpen /\ [ChallengeNext]_challengeVars => FreshOpen'
  BY FreshOpenStep
<1>3. ChallengeIInv /\ FreshOpen /\ [ChallengeNext]_challengeVars =>
        [~contested' =>
           /\ view'.status # view.status => <<view.status, view'.status>> \in Life
           /\ view.opponent # None => view'.opponent = view.opponent]_challengeVars
  BY LifeStep DEF GoesOn
<1> QED BY <1>1, <1>2, <1>3, ChallengeInvariance, PTL DEF ChallengeSpec

\* Every field stays in its range.
THEOREM ChallengeTypeCorrect == ChallengeSpec => []ChallengeTypeOK
<1>1. ChallengeIInv => ChallengeTypeOK
  BY DEF ChallengeIInv
<1> QED BY <1>1, ChallengeInvariance, PTL

\* However requests race, and wherever restarts interrupt them, a challenge costs a
\* player at most one stake and wins at most one pot.
THEOREM NeverTwoStakes == ChallengeSpec => []OneStakeAtRisk
<1>1. ChallengeIInv => OneStakeAtRisk
  <2> SUFFICES ASSUME ChallengeIInv, NEW p \in Player
               PROVE  /\ free[p] + locked[p] >= Initial - Stake
                      /\ free[p] + locked[p] <= Initial + Stake - Rake
    BY DEF OneStakeAtRisk
  <2>1. /\ Stake \in Nat /\ Initial \in Nat /\ Rake \in Nat /\ Rake <= Stake
    BY RakeFits
  <2>2. Worth(p) \in {Initial, Initial - Stake, Initial + Stake - Rake}
    BY DEF ChallengeIInv, StakeOK
  <2> QED BY <2>1, <2>2 DEF Worth
<1> QED BY <1>1, ChallengeInvariance, PTL

\* An uncontested challenge reads SETTLED or VOID only once both stakes are closed.
THEOREM SettledAfterPaid == ChallengeSpec => []SettledIsPaid
<1>1. ChallengeIInv => SettledIsPaid
  BY DEF ChallengeIInv, Calm, CalmView, SettledIsPaid, Sides
<1> QED BY <1>1, ChallengeInvariance, PTL

\* What the players of an uncontested challenge hold outside of its settlement.
LEMMA HoldingsConserved == ChallengeIInv => Conserved
<1> SUFFICES ASSUME ChallengeIInv, view.status # "MATCHED", ~contested
             PROVE  Total = N * Initial - (IF view.status = "SETTLED" THEN Rake ELSE 0)
  BY DEF Conserved
<1> DEFINE Holds == [p \in Player |-> free[p] + locked[p]]
<1>1. /\ Stake \in Nat /\ Initial \in Nat /\ Rake \in Nat /\ N \in Nat /\ Player = 1..N
      /\ Creator \in Player /\ Creator # None
  BY RakeFits, PlayersFacts
<1>2. /\ \A p \in Player : CalmMoney(p)
      /\ CalmView /\ ChallengeTypeOK
  BY DEF ChallengeIInv, Calm
<1>3. Holds \in [1..N -> Int] /\ \A p \in Player : Holds[p] = Worth(p)
  BY <1>1, <1>2 DEF ChallengeTypeOK, Worth
<1>4. Total = SumTo(Holds, N)
  BY DEF Total
<1> HIDE DEF Holds
<1>5. CASE view.status # "SETTLED"
  <2>1. \A p \in 1..N : Holds[p] = Initial
    BY <1>1, <1>2, <1>3, <1>5 DEF CalmMoney
  <2>2. SumTo(Holds, N) = N * Initial
    BY <1>1, <1>3, <2>1, SumOfConstant
  <2>3. N * Initial \in Int
    BY <1>1
  <2> QED BY <1>4, <1>5, <2>2, <2>3
<1>6. CASE view.status = "SETTLED"
  <2>1. PICK o : o = view.opponent
    OBVIOUS
  <2>2. /\ o \in Player /\ o # Creator /\ o # None /\ Sides = {Creator, o}
        /\ result \in {"CREATOR", "OPPONENT"}
    BY <1>2, <1>6, <2>1 DEF CalmView, ChallengeTypeOK, Sides
  <2>3. /\ \A p \in Player : p \in Sides => Holds[p] = Initial + Gain(p)
        /\ \A p \in Player : p \notin Sides => Holds[p] = Initial
    BY <1>2, <1>3, <1>6 DEF CalmMoney
  <2>4. /\ Gain(Creator) \in Int /\ Gain(o) \in Int /\ Gain(Creator) + Gain(o) = -Rake
    <3>1. Winner(o) = IF result = "CREATOR" THEN Creator ELSE o
      BY <2>2 DEF Winner
    <3>2. CASE result = "CREATOR"
      <4>1. Gain(Creator) = Stake - Rake /\ Gain(o) = -Stake
        BY <2>1, <2>2, <3>1, <3>2 DEF Gain
      <4> QED BY <1>1, <4>1
    <3>3. CASE result # "CREATOR"
      <4>1. Gain(Creator) = -Stake /\ Gain(o) = Stake - Rake
        BY <2>1, <2>2, <3>1, <3>3 DEF Gain
      <4> QED BY <1>1, <4>1
    <3> QED BY <3>2, <3>3
  <2> DEFINE base == [p \in 1..N |-> Initial]
             won == [p \in 1..N |-> IF p = Creator THEN Initial + Gain(Creator) ELSE Initial]
  <2>5. base \in [1..N -> Int] /\ won \in [1..N -> Int] /\ \A p \in 1..N : base[p] = Initial
    BY <1>1, <2>4
  <2>6. /\ Creator \in 1..N /\ \A p \in 1..N : p # Creator => won[p] = base[p]
        /\ won[Creator] - base[Creator] = Gain(Creator)
    BY <1>1, <2>4
  <2>7. /\ o \in 1..N /\ \A p \in 1..N : p # o => Holds[p] = won[p]
        /\ Holds[o] - won[o] = Gain(o)
    <3>1. ASSUME NEW p \in 1..N, p # o PROVE Holds[p] = won[p]
      BY <1>1, <2>2, <2>3, <3>1
    <3>2. Holds[o] = Initial + Gain(o) /\ won[o] = Initial
      BY <1>1, <2>2, <2>3
    <3>3. Holds[o] - won[o] = Gain(o)
      BY <1>1, <2>4, <3>2
    <3> QED BY <1>1, <2>2, <3>1, <3>3
  <2> HIDE DEF base, won
  <2>8. SumTo(base, N) = N * Initial
    BY <1>1, <2>5, SumOfConstant
  <2>9. SumTo(won, N) = SumTo(base, N) + (won[Creator] - base[Creator])
    BY <1>1, <2>5, <2>6, SumUpdate
  <2>10. SumTo(Holds, N) = SumTo(won, N) + (Holds[o] - won[o])
    BY <1>1, <1>3, <2>5, <2>7, SumUpdate
  <2>11. N * Initial \in Int
    BY <1>1
  <2>12. SumTo(Holds, N) = (N * Initial + Gain(Creator)) + Gain(o)
    BY <2>6, <2>7, <2>8, <2>9, <2>10
  <2> DEFINE total == N * Initial
  <2> HIDE DEF total
  <2>13. (total + Gain(Creator)) + Gain(o) = total - Rake
    BY <1>1, <2>4, <2>11 DEF total
  <2> QED BY <1>4, <1>6, <2>12, <2>13 DEF total
<1> QED BY <1>5, <1>6

\* An uncontested challenge makes and loses no money but one rake.
THEOREM ChallengeConserves == ChallengeSpec => []Conserved
BY HoldingsConserved, ChallengeInvariance, PTL

===============================================================================
