----------------------------- MODULE IndexerProofs -----------------------------
(***************************************************************************)
(* Proofs about Indexer for any number of players, of overlapping passes    *)
(* and of transactions, and any chunk and retry limits.                     *)
(***************************************************************************)
EXTENDS Indexer, TLAPS

-----------------------------------------------------------------------------
(* The inductive invariant *)

Skipped == dropped \union unread
Covered(n) == \A i \in (1..n) \ Skipped : Applied(i, Skipped)

(* A pass that works on one transaction has covered those before it.       *)
Working(r) == pass[r].at \in {"load", "pot", "write"}
SoundPass(r) ==
  /\ At(r, "scan") => pass[r].from \in 0..Len(chain) /\ Covered(pass[r].from)
  /\ Working(r) =>
       /\ pass[r].last <= Len(chain) /\ pass[r].next <= pass[r].last
       /\ pass[r].some => pass[r].next > 1
       /\ Covered(pass[r].next - 1)
  /\ At(r, "write") => chain[pass[r].next].kind # "failed"
  /\ At(r, "pot") => chain[pass[r].next].kind # "failed"
  /\ At(r, "advance") => pass[r].to <= Len(chain) /\ Covered(pass[r].to)

IInv ==
  /\ TypeOK
  /\ Covered(cursor)
  /\ \A r \in Passes : SoundPass(r)

Positions == {"none", "PENDING", "OPEN", "SETTLED", "CLAIMED"}
Shown == {"OPEN", "SETTLED", "CLAIMED"}

(* No step takes back what a row shows, what was skipped or what was sent.  *)
Grows ==
  /\ Len(chain) <= Len(chain)'
  /\ \A i \in 1..Len(chain) : chain'[i] = chain[i]
  /\ Skipped \subseteq Skipped'
  /\ \A p \in Players :
       /\ position[p] \in Shown => position'[p] \in Shown
       /\ position[p] \in {"SETTLED", "CLAIMED"} => position'[p] \in {"SETTLED", "CLAIMED"}
       /\ position[p] = "CLAIMED" => position'[p] = "CLAIMED"

-----------------------------------------------------------------------------
(* Operators *)

\* The transactions of the chain, by kind.
LEMMA TxKinds ==
  ASSUME NEW tx \in Txs
  PROVE  /\ tx.kind \in {"place_call", "claim", "settle_pot", "failed"}
         /\ tx.kind \in {"place_call", "claim"} =>
              tx.player \in Players /\ tx = [kind |-> tx.kind, player |-> tx.player]
         /\ \A kind, p : tx = [kind |-> kind, player |-> p] => tx.kind = kind
BY DEF Txs

\* What a pass remembers at each place it may be at.
LEMMA PassFields ==
  ASSUME NEW x \in Pass
  PROVE  /\ x.at \in {"idle", "scan", "load", "pot", "write", "advance"}
         /\ x.at = "idle" => x = Idle
         /\ x.at = "scan" => x.from \in 0..MaxTxs
         /\ x.at \in {"load", "pot", "write"} =>
              /\ x.next \in 1..MaxTxs /\ x.last \in 1..MaxTxs /\ x.some \in BOOLEAN
              /\ x = [at |-> x.at, next |-> x.next, last |-> x.last, some |-> x.some]
         /\ x.at = "advance" => x.to \in 1..MaxTxs
BY DEF Pass, Idle

\* The places a pass goes to are places.
LEMMA PassesMade ==
  /\ Idle \in Pass
  /\ \A i \in 0..MaxTxs : [at |-> "scan", from |-> i] \in Pass
  /\ \A place \in {"load", "pot", "write"}, i, j \in 1..MaxTxs, some \in BOOLEAN :
       [at |-> place, next |-> i, last |-> j, some |-> some] \in Pass
  /\ \A i \in 1..MaxTxs : [at |-> "advance", to |-> i] \in Pass
BY DEF Pass

\* What applying one transaction does to the rows (the SQL functions' gates).
LEMMA EffectFacts ==
  ASSUME position \in [Players -> Positions], NEW tx \in Txs
  PROVE  /\ Effect(tx) \in [Players -> Positions]
         /\ \A p \in Players :
              /\ position[p] \in Shown => Effect(tx)[p] \in Shown
              /\ position[p] \in {"SETTLED", "CLAIMED"} => Effect(tx)[p] \in {"SETTLED", "CLAIMED"}
              /\ position[p] = "CLAIMED" => Effect(tx)[p] = "CLAIMED"
              /\ tx = [kind |-> "place_call", player |-> p] => Effect(tx)[p] \in Shown
              /\ tx.kind = "settle_pot" /\ position[p] \in Shown => Effect(tx)[p] \in {"SETTLED", "CLAIMED"}
              /\ tx = [kind |-> "claim", player |-> p] /\ position[p] \in Shown => Effect(tx)[p] = "CLAIMED"
<1>1. tx.kind = "settle_pot" => \A p \in Players : tx # [kind |-> "place_call", player |-> p] /\ tx # [kind |-> "claim", player |-> p]
  BY TxKinds
<1>2. \A p, q \in Players : [kind |-> "place_call", player |-> p] # [kind |-> "claim", player |-> q]
  OBVIOUS
<1> DEFINE E(p) ==
    CASE tx = [kind |-> "place_call", player |-> p] /\ position[p] \in {"none", "PENDING"} -> "OPEN"
      [] tx = [kind |-> "claim", player |-> p] /\ position[p] # "none" -> "CLAIMED"
      [] tx.kind = "settle_pot" /\ position[p] \in {"PENDING", "OPEN"} -> "SETTLED"
      [] OTHER -> position[p]
<1>3. \A p \in Players : Effect(tx)[p] = E(p)
  BY DEF Effect
<1>4. ASSUME NEW p \in Players PROVE position[p] \in Positions
  OBVIOUS
<1>5. ASSUME NEW p \in Players, tx = [kind |-> "place_call", player |-> p]
      PROVE  E(p) = IF position[p] \in {"none", "PENDING"} THEN "OPEN" ELSE position[p]
  BY <1>1, <1>2, <1>5
<1>6. ASSUME NEW p \in Players, tx = [kind |-> "claim", player |-> p]
      PROVE  E(p) = IF position[p] # "none" THEN "CLAIMED" ELSE position[p]
  BY <1>1, <1>2, <1>6
<1>7. ASSUME NEW p \in Players, tx.kind = "settle_pot"
      PROVE  E(p) = IF position[p] \in {"PENDING", "OPEN"} THEN "SETTLED" ELSE position[p]
  BY <1>1, <1>7
<1>8. ASSUME NEW p \in Players, tx # [kind |-> "place_call", player |-> p], tx # [kind |-> "claim", player |-> p], tx.kind # "settle_pot"
      PROVE  E(p) = position[p]
  BY <1>8
<1> HIDE DEF E
<1>9. \A p \in Players : E(p) \in Positions
  BY <1>4, <1>5, <1>6, <1>7, <1>8 DEF Positions
<1>10. Effect(tx) \in [Players -> Positions]
  BY <1>3, <1>9 DEF Effect
<1> QED
  BY <1>1, <1>2, <1>3, <1>4, <1>5, <1>6, <1>7, <1>8, <1>10 DEF Positions, Shown

-----------------------------------------------------------------------------
(* What was covered stays covered *)

LEMMA CoveredStable ==
  ASSUME TypeOK, Grows, NEW n \in 0..Len(chain), Covered(n)
  PROVE  Covered(n)'
<1> SUFFICES ASSUME NEW i \in (1..n) \ Skipped', NEW p \in Players, Opened(p, i, Skipped)'
             PROVE  CASE chain'[i].kind = "settle_pot" -> position'[p] \in {"SETTLED", "CLAIMED"}
                      [] chain'[i] = [kind |-> "claim", player |-> p] -> position'[p] = "CLAIMED"
                      [] OTHER -> position'[p] \in {"OPEN", "SETTLED", "CLAIMED"}
  BY DEF Covered, Applied
<1>1. i \in 1..Len(chain) /\ Len(chain) \in Nat /\ chain'[i] = chain[i] /\ i \notin Skipped
  BY DEF Grows, TypeOK
<1>2. Opened(p, i, Skipped)
  BY <1>1 DEF Opened, Grows
<1>3. (CASE chain[i].kind = "settle_pot" -> position[p] \in {"SETTLED", "CLAIMED"}
         [] chain[i] = [kind |-> "claim", player |-> p] -> position[p] = "CLAIMED"
         [] OTHER -> position[p] \in {"OPEN", "SETTLED", "CLAIMED"})
  BY <1>1, <1>2 DEF Covered, Applied
<1>4. chain[i] \in Txs /\ (chain[i] = [kind |-> "claim", player |-> p] => chain[i].kind # "settle_pot")
  BY <1>1 DEF TypeOK
<1> QED
  BY <1>1, <1>3, <1>4 DEF Grows, Shown

-----------------------------------------------------------------------------
(* Types *)

\* Where a pass goes when it extends its run, and when it stops.
LEMMA WalkMoves ==
  ASSUME TypeOK, NEW r \in Passes, Working(r), SoundPass(r)
  PROVE  /\ pass[r].next \in 1..Len(chain) /\ pass[r].next \in 1..MaxTxs
         /\ Walk(r) =>
              /\ pass' \in [Passes -> Pass]
              /\ \A q \in Passes \ {r} : pass'[q] = pass[q]
              /\ \/ /\ pass'[r].at = "load" /\ pass'[r].next = pass[r].next + 1
                    /\ pass'[r].last = pass[r].last /\ pass'[r].next <= pass[r].last
                 \/ pass'[r].at = "advance" /\ pass'[r].to = pass[r].next
         /\ Halt(r) =>
              /\ pass' \in [Passes -> Pass]
              /\ \A q \in Passes \ {r} : pass'[q] = pass[q]
              /\ \/ pass'[r] = Idle
                 \/ pass'[r].at = "advance" /\ pass'[r].to = pass[r].next - 1
<1> DEFINE x == pass[r]
<1>1. x \in Pass /\ x.at \in {"load", "pot", "write"} /\ Len(chain) \in Nat /\ Len(chain) <= MaxTxs
  BY DEF TypeOK, Working
<1>2. x.next \in 1..MaxTxs /\ x.last \in 1..MaxTxs /\ x.some \in BOOLEAN
      /\ x = [at |-> x.at, next |-> x.next, last |-> x.last, some |-> x.some]
  BY <1>1, PassFields
<1>3. x.last <= Len(chain) /\ x.next <= x.last /\ (x.some => x.next > 1)
  BY DEF SoundPass
<1>4. MaxTxs \in Nat
  BY IndexerAssumption
<1>5. ASSUME Walk(r), x.next < x.last
      PROVE  /\ pass'[r] = [at |-> "load", next |-> x.next + 1, last |-> x.last, some |-> TRUE]
             /\ pass' = [pass EXCEPT ![r] = [at |-> "load", next |-> x.next + 1, last |-> x.last, some |-> TRUE]]
  BY <1>5 DEF Walk, TypeOK
<1>6. ASSUME Walk(r), ~(x.next < x.last)
      PROVE  pass' = [pass EXCEPT ![r] = [at |-> "advance", to |-> x.next]]
  BY <1>6 DEF Walk, AdvanceTo
<1>7. ASSUME Walk(r)
      PROVE  /\ pass' \in [Passes -> Pass]
             /\ \A q \in Passes \ {r} : pass'[q] = pass[q]
             /\ \/ /\ pass'[r].at = "load" /\ pass'[r].next = x.next + 1
                   /\ pass'[r].last = x.last /\ pass'[r].next <= x.last
                \/ pass'[r].at = "advance" /\ pass'[r].to = x.next
  <2>1. CASE x.next < x.last
    <3>1. x.next + 1 \in 1..MaxTxs
      BY <1>2, <1>4, <2>1
    <3>2. [at |-> "load", next |-> x.next + 1, last |-> x.last, some |-> TRUE] \in Pass
      BY <1>2, <3>1, PassesMade
    <3>3. pass' = [pass EXCEPT ![r] = [at |-> "load", next |-> x.next + 1, last |-> x.last, some |-> TRUE]]
      BY <1>5, <1>7, <2>1
    <3>4. pass' \in [Passes -> Pass] /\ \A q \in Passes \ {r} : pass'[q] = pass[q]
      BY <3>2, <3>3 DEF TypeOK
    <3>5. pass'[r] = [at |-> "load", next |-> x.next + 1, last |-> x.last, some |-> TRUE]
      BY <1>5, <1>7, <2>1
    <3>6. x.next + 1 <= x.last
      BY <1>2, <2>1
    <3> QED
      BY <3>4, <3>5, <3>6
  <2>2. CASE ~(x.next < x.last)
    BY <1>2, <1>6, <1>7, <2>2, PassesMade DEF TypeOK
  <2> QED
    BY <2>1, <2>2
<1>8. ASSUME Halt(r)
      PROVE  /\ pass' \in [Passes -> Pass]
             /\ \A q \in Passes \ {r} : pass'[q] = pass[q]
             /\ \/ pass'[r] = Idle
                \/ pass'[r].at = "advance" /\ pass'[r].to = x.next - 1
  <2>1. CASE x.some
    <3>1. x.next - 1 \in 1..MaxTxs
      BY <1>2, <1>3, <1>4, <2>1
    <3>2. pass' = [pass EXCEPT ![r] = [at |-> "advance", to |-> x.next - 1]]
      BY <1>8, <2>1 DEF Halt
    <3> QED
      BY <3>1, <3>2, PassesMade DEF TypeOK
  <2>2. CASE ~x.some
    <3>1. pass' = [pass EXCEPT ![r] = Idle]
      BY <1>8, <2>2 DEF Halt
    <3> QED
      BY <3>1, PassesMade DEF TypeOK
  <2> QED
    BY <2>1, <2>2
<1>9. x.next \in 1..Len(chain)
  BY <1>1, <1>2, <1>3, <1>4
<1> QED
  BY <1>2, <1>7, <1>8, <1>9

LEMMA TypeStep ==
  ASSUME IInv, [Next]_vars
  PROVE  TypeOK'
<1> USE DEF TypeOK, external, history
<1>0. MaxTxs \in Nat /\ MaxNullRetries \in Nat
  BY IndexerAssumption
<1>1. ASSUME NEW tx \in Txs, Transact(tx)
      PROVE  TypeOK'
  <2>1. chain' \in Seq(Txs) /\ served' \in Seq(BOOLEAN) /\ Len(chain') = Len(chain) + 1 /\ Len(served') = Len(chain')
    <3>1. chain \in Seq(Txs) /\ served \in Seq(BOOLEAN) /\ Len(served) = Len(chain)
      BY DEF IInv
    <3>2. chain' = Append(chain, tx) /\ served' = Append(served, FALSE)
      BY <1>1 DEF Transact
    <3> QED
      BY ONLY <3>1, <3>2, tx \in Txs
  <2> QED
    BY <1>0, <1>1, <2>1 DEF IInv, Transact
<1>2. ASSUME NEW i \in DOMAIN chain, Appear(i)
      PROVE  TypeOK'
  BY <1>2 DEF IInv, Appear
<1>3. ASSUME NEW p \in Players, Mirror(p) \/ Confirm(p)
      PROVE  TypeOK'
  BY <1>3 DEF IInv, Mirror, Confirm
<1>4. ASSUME NEW r \in Passes, Start(r)
      PROVE  TypeOK'
  <2>1. cursor \in 0..MaxTxs
    BY <1>0 DEF IInv
  <2> QED
    BY <1>4, <2>1, PassesMade DEF IInv, Start
<1>5. ASSUME NEW r \in Passes, Done(r)
      PROVE  pass' \in [Passes -> Pass]
  BY <1>5, PassesMade DEF IInv, Done
<1>6. ASSUME NEW r \in Passes, Scan(r)
      PROVE  TypeOK'
  <2> DEFINE from == pass[r].from
  <2>1. from \in 0..Len(chain) /\ MaxPerPass \in Nat \ {0} /\ Len(chain) \in Nat /\ Len(chain) <= MaxTxs
    BY <1>6, IndexerAssumption DEF IInv, SoundPass, Scan
  <2>2. CASE Len(chain) <= from
    BY <1>5, <1>6, <2>2 DEF IInv, Scan
  <2>3. CASE ~(Len(chain) <= from)
    <3>1. First(from) \in 1..MaxTxs /\ Last(from) \in 1..MaxTxs
      <4> HIDE DEF from
      <4>1. from \in Nat /\ from < Len(chain)
        BY ONLY <2>1, <2>3
      <4>2. from + 1 \in 1..MaxTxs
        BY ONLY <1>0, <2>1, <4>1
      <4>3. Last(from) \in 1..MaxTxs
        BY ONLY <1>0, <2>1, <4>1 DEF First, Last
      <4> QED BY ONLY <4>2, <4>3 DEF First
    <3>2. [at |-> "load", next |-> First(from), last |-> Last(from), some |-> FALSE] \in Pass
      BY <3>1, PassesMade
    <3> QED
      BY <1>6, <2>3, <3>2 DEF IInv, Scan
  <2> QED
    BY <2>2, <2>3
<1>7. ASSUME NEW r \in Passes, Working(r)
      PROVE  /\ pass[r].next \in 1..Len(chain) /\ pass[r].next \in 1..MaxTxs
             /\ Walk(r) \/ Halt(r) => pass' \in [Passes -> Pass]
  BY <1>7, WalkMoves DEF IInv
<1>8. ASSUME NEW r \in Passes, Working(r), NEW place \in {"pot", "write"}, pass' = [pass EXCEPT ![r].at = place]
      PROVE  pass' \in [Passes -> Pass]
  <2> DEFINE x == pass[r]
  <2>1. x.next \in 1..MaxTxs /\ x.last \in 1..MaxTxs /\ x.some \in BOOLEAN
        /\ x = [at |-> x.at, next |-> x.next, last |-> x.last, some |-> x.some]
    BY <1>8, PassFields DEF IInv, Working
  <2>2. [x EXCEPT !.at = place] = [at |-> place, next |-> x.next, last |-> x.last, some |-> x.some]
    BY <2>1
  <2>3. [x EXCEPT !.at = place] \in Pass
    BY <2>1, <2>2, PassesMade
  <2> QED
    BY <1>8, <2>3 DEF IInv
<1>9. ASSUME NEW r \in Passes, Load(r)
      PROVE  TypeOK'
  <2> DEFINE i == pass[r].next
  <2>1. Working(r)
    BY <1>9 DEF Load, Working, At
  <2>2. i \in 1..MaxTxs /\ i \in DOMAIN chain
    BY <1>7, <2>1 DEF IInv
  <2>3. ASSUME Walk(r), UNCHANGED <<nulls, dropped>>
        PROVE  TypeOK'
    BY <1>7, <1>9, <2>1, <2>3 DEF IInv, Load
  <2>4. ASSUME NEW place \in {"pot", "write"}, nulls' = [nulls EXCEPT ![i] = 0], pass' = [pass EXCEPT ![r].at = place], UNCHANGED dropped
        PROVE  TypeOK'
    <3>1. nulls' \in [1..MaxTxs -> 0..MaxNullRetries]
      <4>1. 0 \in 0..MaxNullRetries
        BY <1>0
      <4>2. nulls \in [1..MaxTxs -> 0..MaxNullRetries]
        BY DEF IInv
      <4> QED
        BY <2>4, <4>1, <4>2
    <3>2. pass' \in [Passes -> Pass]
      BY <1>8, <2>1, <2>4
    <3> QED
      BY <1>9, <2>4, <3>1, <3>2 DEF IInv, Load
  <2>5. ASSUME ~GivenUp(i), nulls' = [nulls EXCEPT ![i] = @ + 1], Halt(r), UNCHANGED dropped
        PROVE  TypeOK'
    <3>1. pass' \in [Passes -> Pass]
      BY <1>7, <2>1, <2>5
    <3>2. nulls' \in [1..MaxTxs -> 0..MaxNullRetries]
      BY <1>0, <2>2, <2>5 DEF IInv, GivenUp
    <3> QED
      BY <1>9, <2>5, <3>1, <3>2 DEF IInv, Load
  <2>6. ASSUME nulls' = [nulls EXCEPT ![i] = 0], dropped' = dropped \union {i}, Walk(r)
        PROVE  TypeOK'
    BY <1>0, <1>7, <1>9, <2>1, <2>2, <2>6 DEF IInv, Load
  <2> QED
    BY <1>9, <2>3, <2>4, <2>5, <2>6 DEF Load
<1>10. ASSUME NEW r \in Passes, ReadPot(r)
       PROVE  TypeOK'
  BY <1>8, <1>10 DEF IInv, ReadPot, Working, At
<1>11. ASSUME NEW r \in Passes, MissPot(r)
       PROVE  TypeOK'
  <2>1. Working(r)
    BY <1>11 DEF MissPot, Working, At
  <2> QED
    BY <1>7, <1>11, <2>1 DEF IInv, MissPot
<1>12. ASSUME NEW r \in Passes, Write(r)
       PROVE  TypeOK'
  <2>1. Working(r)
    BY <1>12 DEF Write, Working, At
  <2>2. chain[pass[r].next] \in Txs
    BY <1>7, <2>1 DEF IInv
  <2>3. position' \in [Players -> Positions]
    BY <1>12, <2>2, EffectFacts DEF IInv, Write, Positions
  <2> QED
    BY <1>7, <1>12, <2>1, <2>3 DEF IInv, Write, Positions
<1>13. ASSUME NEW r \in Passes, Advance(r)
       PROVE  TypeOK'
  <2>1. pass[r].to \in 0..Len(chain)
    BY <1>13, PassFields DEF IInv, SoundPass, Advance, At
  <2> QED
    BY <1>5, <1>13, <2>1 DEF IInv, Advance
<1>14. ASSUME NEW r \in Passes, Fail(r)
       PROVE  TypeOK'
  BY <1>5, <1>7, <1>14 DEF IInv, Fail, Working
<1>15. ASSUME Restart \/ Recover
       PROVE  TypeOK'
  <2>1. CASE Restart
    <3>1. pass' \in [Passes -> Pass]
      BY <2>1, PassesMade DEF Restart
    <3>2. nulls' \in [1..MaxTxs -> 0..MaxNullRetries]
      BY <1>0, <2>1 DEF Restart
    <3> QED
      BY <2>1, <3>1, <3>2 DEF IInv, Restart
  <2>2. CASE Recover
    BY <2>2 DEF IInv, Recover
  <2> QED
    BY <1>15, <2>1, <2>2
<1>16. ASSUME UNCHANGED vars
       PROVE  TypeOK'
  BY <1>16 DEF IInv, vars
<1> QED
  BY <1>1, <1>2, <1>3, <1>4, <1>6, <1>9, <1>10, <1>11, <1>12, <1>13, <1>14, <1>15, <1>16 DEF Next, Step

-----------------------------------------------------------------------------
(* The inductive invariant is preserved *)

LEMMA StepGrows ==
  ASSUME IInv, [Next]_vars
  PROVE  Grows
<1> USE DEF TypeOK, external, history
<1>1. ASSUME NEW tx \in Txs, Transact(tx)
      PROVE  Grows
  BY <1>1 DEF IInv, Transact, Grows, Skipped
<1>2. ASSUME NEW p \in Players, Mirror(p) \/ Confirm(p)
      PROVE  Grows
  BY <1>2 DEF IInv, Mirror, Confirm, Grows, Skipped, Shown
<1>3. ASSUME NEW r \in Passes, Write(r)
      PROVE  Grows
  <2>1. Working(r) /\ SoundPass(r)
    BY <1>3 DEF IInv, Write, Working, At
  <2>2. chain[pass[r].next] \in Txs
    BY <2>1, WalkMoves DEF IInv
  <2> QED
    BY <1>3, <2>2, EffectFacts DEF IInv, Write, Grows, Skipped, Positions
<1>4. ASSUME chain' = chain, position' = position, dropped \subseteq dropped', unread \subseteq unread'
      PROVE  Grows
  BY <1>4 DEF IInv, Grows, Skipped
<1>5. ASSUME NEW r \in Passes, Start(r) \/ Scan(r) \/ Load(r) \/ ReadPot(r) \/ MissPot(r) \/ Advance(r) \/ Fail(r)
      PROVE  Grows
  BY <1>4, <1>5 DEF Start, Scan, Load, ReadPot, MissPot, Advance, Fail
<1>6. CASE Restart \/ Recover \/ UNCHANGED vars \/ \E i \in DOMAIN chain : Appear(i)
  BY <1>4, <1>6 DEF Restart, Recover, vars, Appear
<1> QED
  BY <1>1, <1>2, <1>3, <1>5, <1>6 DEF Next, Step

\* A transaction that is skipped, has no effect or was just applied is covered.
LEMMA CoveredNext ==
  ASSUME TypeOK, TypeOK', Grows, NEW i \in 1..Len(chain), Covered(i - 1),
         \/ i \in Skipped'
         \/ chain[i].kind = "failed"
         \/ position' = Effect(chain[i])
  PROVE  Covered(i)'
<1>0. Len(chain) \in Nat /\ i - 1 \in 0..Len(chain) /\ chain[i] \in Txs /\ chain'[i] = chain[i]
  BY DEF TypeOK, Grows
<1>1. Covered(i - 1)'
  BY <1>0, CoveredStable
<1>2. i \in Skipped' \/ Applied(i, Skipped)'
  <2> SUFFICES ASSUME i \notin Skipped', NEW p \in Players, Opened(p, i, Skipped)'
               PROVE  CASE chain'[i].kind = "settle_pot" -> position'[p] \in {"SETTLED", "CLAIMED"}
                        [] chain'[i] = [kind |-> "claim", player |-> p] -> position'[p] = "CLAIMED"
                        [] OTHER -> position'[p] \in {"OPEN", "SETTLED", "CLAIMED"}
    BY DEF Applied
  <2>1. PICK j \in (1..i) \ Skipped' : chain'[j] = [kind |-> "place_call", player |-> p]
    BY DEF Opened
  <2>2. chain[j] = [kind |-> "place_call", player |-> p] /\ j \notin Skipped
    BY <1>0, <2>1 DEF Grows
  <2>3. j # i => j \in (1..(i - 1)) \ Skipped /\ Opened(p, j, Skipped)
    BY <1>0, <2>1, <2>2 DEF Opened
  <2>4. j # i => position[p] \in Shown
    <3>1. ASSUME j # i PROVE Applied(j, Skipped)
      BY <2>3, <3>1 DEF Covered
    <3>2. chain[j].kind # "settle_pot" /\ chain[j] # [kind |-> "claim", player |-> p]
      BY <2>2
    <3>3. ASSUME j # i PROVE position[p] \in {"OPEN", "SETTLED", "CLAIMED"}
      BY <2>3, <3>1, <3>2, <3>3 DEF Applied
    <3> QED
      BY <3>3 DEF Shown
  <2>5. chain[i].kind \in {"settle_pot", "claim", "failed"} => j # i
    BY <2>2
  <2>6. position \in [Players -> Positions]
    BY DEF TypeOK, Positions
  <2>7. position'[p] \in Shown
    BY <1>0, <2>2, <2>4, <2>6, EffectFacts, <2>5 DEF Grows
  <2>8. chain[i].kind = "settle_pot" => position'[p] \in {"SETTLED", "CLAIMED"}
    BY <1>0, <2>4, <2>5, <2>6, EffectFacts
  <2>9. chain[i] = [kind |-> "claim", player |-> p] => position'[p] = "CLAIMED" /\ chain[i].kind = "claim"
    BY <1>0, <2>4, <2>5, <2>6, EffectFacts
  <2> QED
    BY <1>0, <2>7, <2>8, <2>9 DEF Shown
<1>3. i \in 1..i /\ \A k \in 1..i : k = i \/ k \in 1..(i - 1)
  OBVIOUS
<1> QED
  BY <1>1, <1>2, <1>3 DEF Covered

LEMMA CoveredStays ==
  ASSUME IInv, [Next]_vars, NEW n \in 0..Len(chain), Covered(n)
  PROVE  Covered(n)' /\ n <= Len(chain)'
<1>1. Grows
  BY StepGrows
<1>2. Len(chain) \in Nat /\ Len(chain)' \in Nat
  BY TypeStep DEF IInv, TypeOK
<1> QED
  BY <1>1, <1>2, CoveredStable DEF IInv, Grows

\* A pass is sound where it goes to.
LEMMA SoundIdle ==
  ASSUME NEW r \in Passes, pass'[r].at = "idle"
  PROVE  SoundPass(r)'
BY DEF SoundPass, At, Working

LEMMA SoundScan ==
  ASSUME NEW r \in Passes, NEW n \in 0..Len(chain)', Covered(n)',
         pass'[r].at = "scan", pass'[r].from = n
  PROVE  SoundPass(r)'
BY DEF SoundPass, At, Working, Covered

LEMMA SoundWork ==
  ASSUME NEW r \in Passes, NEW n \in Nat, Covered(n)',
         pass'[r].at \in {"load", "pot", "write"}, pass'[r].next = n + 1,
         pass'[r].last <= Len(chain)', n + 1 <= pass'[r].last,
         pass'[r].some => n > 0,
         pass'[r].at # "load" => chain'[n + 1].kind # "failed"
  PROVE  SoundPass(r)'
<1>1. pass'[r].next - 1 = n
  OBVIOUS
<1>2. Covered(pass[r].next - 1)'
  BY <1>1 DEF Covered
<1> QED
  BY <1>2 DEF SoundPass, At, Working

LEMMA SoundAdvance ==
  ASSUME NEW r \in Passes, NEW n, n <= Len(chain)', Covered(n)',
         pass'[r].at = "advance", pass'[r].to = n
  PROVE  SoundPass(r)'
BY DEF SoundPass, At, Working, Covered

\* A pass that does not move stays sound, whatever the others do.
LEMMA Unmoved ==
  ASSUME IInv, [Next]_vars, NEW r \in Passes, pass'[r] = pass[r]
  PROVE  SoundPass(r)'
<1>1. Grows /\ TypeOK /\ TypeOK' /\ SoundPass(r) /\ pass[r] \in Pass
  BY StepGrows, TypeStep DEF IInv, TypeOK
<1>2. Len(chain) \in Nat /\ Len(chain)' \in Nat /\ Len(chain) <= Len(chain)'
  BY <1>1 DEF TypeOK, Grows
<1>3. CASE pass[r].at = "idle"
  BY <1>3, SoundIdle
<1>4. CASE pass[r].at = "scan"
  <2>1. PICK n \in 0..Len(chain) : n = pass[r].from /\ Covered(n)
    BY <1>1, <1>4 DEF SoundPass, At
  <2>2. Covered(n)' /\ n \in 0..Len(chain)'
    BY <1>2, <2>1, CoveredStays
  <2> QED
    BY <1>4, <2>1, <2>2, SoundScan
<1>5. CASE pass[r].at \in {"load", "pot", "write"}
  <2>1. pass[r].next \in 1..MaxTxs /\ pass[r].last \in 1..MaxTxs
    BY <1>1, <1>5, PassFields
  <2>2. /\ pass[r].last <= Len(chain) /\ pass[r].next <= pass[r].last
        /\ pass[r].some => pass[r].next > 1
        /\ Covered(pass[r].next - 1)
        /\ pass[r].at # "load" => chain[pass[r].next].kind # "failed"
    BY <1>1, <1>5 DEF SoundPass, Working, At
  <2>3. MaxTxs \in Nat
    BY IndexerAssumption
  <2>4. PICK n \in 0..Len(chain) : pass[r].next = n + 1 /\ Covered(n)
    <3>1. pass[r].next - 1 \in 0..Len(chain) /\ pass[r].next = (pass[r].next - 1) + 1
      BY <1>2, <2>1, <2>2, <2>3
    <3> QED
      BY <2>2, <3>1
  <2>5. Covered(n)' /\ n \in Nat
    BY <1>2, <2>4, CoveredStays
  <2>6. chain'[n + 1] = chain[n + 1]
    BY <1>1, <1>2, <2>1, <2>2, <2>3, <2>4 DEF Grows
  <2>7. pass[r].last <= Len(chain)'
    BY <1>2, <2>1, <2>2, <2>3
  <2>8. pass[r].some => n > 0
    BY <2>2, <2>4
  <2> QED
    BY <1>5, <2>2, <2>4, <2>5, <2>6, <2>7, <2>8, SoundWork
<1>6. CASE pass[r].at = "advance"
  <2>1. pass[r].to \in 0..Len(chain) /\ Covered(pass[r].to)
    BY <1>1, <1>2, <1>6, PassFields DEF SoundPass, At
  <2>2. PICK n \in 0..Len(chain) : n = pass[r].to /\ Covered(n)
    BY <2>1
  <2>3. Covered(n)' /\ n <= Len(chain)'
    BY <1>2, <2>2, CoveredStays
  <2> QED
    BY <1>6, <2>2, <2>3, SoundAdvance
<1> QED
  BY <1>1, <1>3, <1>4, <1>5, <1>6, PassFields

\* What a working pass knows of the transaction it is at.
LEMMA WorkFacts ==
  ASSUME IInv, [Next]_vars, NEW r \in Passes, Working(r)
  PROVE  /\ pass[r].next \in 1..Len(chain) /\ pass[r].last \in Nat
         /\ pass[r].next <= pass[r].last /\ pass[r].last <= Len(chain)
         /\ pass[r].some => pass[r].next > 1
         /\ \E n \in 0..Len(chain) :
              /\ pass[r].next = n + 1 /\ Covered(n) /\ Covered(n)'
              /\ chain'[n + 1] = chain[n + 1]
         /\ Len(chain) \in Nat /\ Len(chain)' \in Nat /\ Len(chain) <= Len(chain)'
<1>1. SoundPass(r) /\ pass[r] \in Pass /\ Grows /\ MaxTxs \in Nat
  BY StepGrows, IndexerAssumption DEF IInv, TypeOK
<1>2. Len(chain) \in Nat /\ Len(chain)' \in Nat /\ Len(chain) <= Len(chain)'
  BY <1>1, TypeStep DEF IInv, TypeOK, Grows
<1>3. pass[r].next \in 1..MaxTxs /\ pass[r].last \in 1..MaxTxs
  BY <1>1, PassFields DEF Working
<1>4. /\ pass[r].last <= Len(chain) /\ pass[r].next <= pass[r].last
      /\ pass[r].some => pass[r].next > 1
      /\ Covered(pass[r].next - 1)
  BY <1>1 DEF SoundPass
<1>5. pass[r].next - 1 \in 0..Len(chain) /\ pass[r].next = (pass[r].next - 1) + 1
  BY <1>1, <1>2, <1>3, <1>4
<1>6. PICK n \in 0..Len(chain) : pass[r].next = n + 1 /\ Covered(n)
  BY <1>4, <1>5
<1>7. Covered(n)' /\ chain'[n + 1] = chain[n + 1]
  <2>1. Covered(n)'
    BY <1>6, CoveredStays
  <2>2. n + 1 \in 1..Len(chain)
    BY <1>2, <1>3, <1>4, <1>6
  <2> QED
    BY <1>1, <2>1, <2>2 DEF Grows
<1> QED
  BY <1>1, <1>2, <1>3, <1>4, <1>6, <1>7

LEMMA Walked ==
  ASSUME IInv, [Next]_vars, NEW r \in Passes, Working(r), Walk(r),
         \/ pass[r].next \in Skipped'
         \/ chain[pass[r].next].kind = "failed"
         \/ position' = Effect(chain[pass[r].next])
  PROVE  SoundPass(r)'
<1>1. PICK n \in 0..Len(chain) : pass[r].next = n + 1 /\ Covered(n)
  BY WorkFacts
<1>2. n + 1 \in 1..Len(chain) /\ (n + 1) - 1 = n /\ pass[r].last \in Nat /\ n + 1 <= pass[r].last
      /\ pass[r].last <= Len(chain) /\ Len(chain) <= Len(chain)' /\ Len(chain) \in Nat /\ Len(chain)' \in Nat
  BY <1>1, WorkFacts
<1>3. PICK m \in 1..Len(chain) : m = n + 1
  BY <1>2
<1>4. Covered(m)'
  <2>1. Covered(m - 1)
    BY <1>1, <1>2, <1>3
  <2> QED
    BY <1>1, <1>3, <2>1, TypeStep, StepGrows, CoveredNext DEF IInv
<1>5. \/ /\ pass'[r].at = "load" /\ pass'[r].next = m + 1
         /\ pass'[r].last = pass[r].last /\ pass'[r].next <= pass[r].last
      \/ pass'[r].at = "advance" /\ pass'[r].to = m
  BY <1>1, <1>3, WalkMoves DEF IInv
<1>6. CASE pass'[r].at = "load"
  <2>1. m \in Nat /\ m > 0 /\ m + 1 <= pass'[r].last /\ pass'[r].last <= Len(chain)' /\ pass'[r].next = m + 1
    BY <1>2, <1>3, <1>5, <1>6
  <2> QED
    BY <1>4, <1>6, <2>1, SoundWork
<1>7. CASE pass'[r].at = "advance"
  <2>1. m <= Len(chain)' /\ pass'[r].to = m
    BY <1>2, <1>3, <1>5, <1>7
  <2> QED
    BY <1>4, <1>7, <2>1, SoundAdvance
<1> QED
  BY <1>5, <1>6, <1>7

LEMMA Halted ==
  ASSUME IInv, [Next]_vars, NEW r \in Passes, Working(r), Halt(r)
  PROVE  SoundPass(r)'
<1>1. PICK n \in 0..Len(chain) : pass[r].next = n + 1 /\ Covered(n)'
  BY WorkFacts
<1>2. n <= Len(chain)' /\ pass[r].next - 1 = n
  BY <1>1, WorkFacts
<1>3. pass'[r] = Idle \/ (pass'[r].at = "advance" /\ pass'[r].to = n)
  BY <1>2, WalkMoves DEF IInv
<1> QED
  BY <1>1, <1>2, <1>3, SoundIdle, SoundAdvance DEF Idle

\* A pass that has found its transaction stays sound.
LEMMA Lined ==
  ASSUME IInv, [Next]_vars, NEW r \in Passes, Working(r), NEW place \in {"pot", "write"},
         pass' = [pass EXCEPT ![r].at = place],
         chain[pass[r].next].kind # "failed"
  PROVE  SoundPass(r)'
<1> DEFINE x == pass[r]
<1>1. PICK n \in 0..Len(chain) : x.next = n + 1 /\ Covered(n)' /\ chain'[n + 1] = chain[n + 1]
  BY WorkFacts
<1>2. x = [at |-> x.at, next |-> x.next, last |-> x.last, some |-> x.some]
  BY PassFields DEF IInv, TypeOK, Working
<1>3. [x EXCEPT !.at = place] = [at |-> place, next |-> x.next, last |-> x.last, some |-> x.some]
  BY <1>2
<1>4. pass'[r] = [x EXCEPT !.at = place]
  BY DEF IInv, TypeOK
<1>5. /\ pass'[r].at = place /\ pass'[r].next = x.next
      /\ pass'[r].last = x.last /\ pass'[r].some = x.some
  BY <1>3, <1>4
<1>6. n \in Nat /\ x.last <= Len(chain)' /\ n + 1 <= x.last /\ (x.some => n > 0)
  BY <1>1, WorkFacts
<1> QED
  BY <1>1, <1>5, <1>6, SoundWork

LEMMA SoundStep ==
  ASSUME IInv, [Next]_vars, NEW q \in Passes
  PROVE  SoundPass(q)'
<1>1. pass \in [Passes -> Pass]
  BY DEF IInv, TypeOK
<1>2. ASSUME pass'[q] # pass[q], ~(pass'[q] = Idle)
      PROVE  Start(q) \/ Step(q) \/ Fail(q)
  <2>1. PICK r \in Passes : Start(r) \/ Step(r) \/ Fail(r)
    BY <1>1, <1>2 DEF Next, vars, Transact, Appear, Mirror, Confirm, Restart, Recover, external, history
  <2>2. \E e : pass' = [pass EXCEPT ![r] = e]
    BY <2>1 DEF Start, Step, Scan, Load, ReadPot, MissPot, Write, Advance, Fail, Walk, Halt, Done
  <2> QED
    BY <1>1, <1>2, <2>1, <2>2
<1>3. CASE pass'[q] = pass[q]
  BY <1>3, Unmoved
<1>4. CASE pass'[q] = Idle
  BY <1>4, SoundIdle DEF Idle
<1>5. CASE Start(q)
  <2>1. pass'[q] = [at |-> "scan", from |-> cursor]
    BY <1>1, <1>5 DEF Start
  <2>2. PICK n \in 0..Len(chain) : n = cursor /\ Covered(n)
    BY DEF IInv, TypeOK
  <2>3. Covered(n)' /\ n \in 0..Len(chain)'
    BY <2>2, CoveredStays, TypeStep DEF IInv, TypeOK
  <2> QED
    BY <2>1, <2>2, <2>3, SoundScan
<1>6. CASE Scan(q) /\ pass'[q] # Idle
  <2> DEFINE from == pass[q].from
  <2>1. ~(Len(chain) <= from)
    BY <1>1, <1>6 DEF Scan, Done
  <2>2. pass'[q] = [at |-> "load", next |-> First(from), last |-> Last(from), some |-> FALSE]
    BY <1>1, <1>6, <2>1 DEF Scan
  <2>3. PICK n \in 0..Len(chain) : n = from /\ Covered(n)
    BY <1>6 DEF IInv, SoundPass, Scan
  <2>4. Len(chain) \in Nat /\ chain' = chain /\ MaxPerPass \in Nat \ {0}
    BY <1>6, IndexerAssumption DEF IInv, TypeOK, Scan, external
  <2>5. First(from) = n + 1 /\ n + 1 <= Last(from) /\ Last(from) <= Len(chain)' /\ n \in Nat
    BY <2>1, <2>3, <2>4 DEF First, Last
  <2>6. Covered(n)'
    BY <2>3, CoveredStays
  <2> QED
    BY <2>2, <2>5, <2>6, SoundWork
<1>7. CASE Load(q)
  <2> DEFINE i == pass[q].next
  <2>1. Working(q)
    BY <1>7 DEF Load, Working, At
  <2>2. CASE Halt(q)
    BY <2>1, <2>2, Halted
  <2>3. CASE Walk(q) /\ (chain[i].kind = "failed" \/ i \in Skipped')
    BY <2>1, <2>3, Walked
  <2>4. ASSUME NEW place \in {"pot", "write"}, pass' = [pass EXCEPT ![q].at = place], chain[i].kind # "failed"
        PROVE  SoundPass(q)'
    BY <2>1, <2>4, Lined
  <2>5. dropped' = dropped \union {i} => i \in Skipped'
    BY DEF Skipped
  <2> QED
    BY <1>7, <2>2, <2>3, <2>4, <2>5 DEF Load
<1>8. CASE ReadPot(q)
  <2>1. Working(q) /\ chain[pass[q].next].kind # "failed"
    BY <1>8 DEF ReadPot, Working, At, IInv, SoundPass
  <2> QED
    BY <1>8, <2>1, Lined DEF ReadPot
<1>9. CASE MissPot(q)
  <2>1. Working(q) /\ pass[q].next \in Skipped'
    BY <1>9 DEF MissPot, Working, At, Skipped
  <2> QED
    BY <1>9, <2>1, Walked DEF MissPot
<1>10. CASE Write(q)
  <2>1. Working(q)
    BY <1>10 DEF Write, Working, At
  <2> QED
    BY <1>10, <2>1, Walked, Halted DEF Write
<1>11. CASE Advance(q)
  BY <1>1, <1>11, SoundIdle DEF Advance, Done, Idle
<1>12. CASE Fail(q) /\ pass'[q] # Idle
  <2>1. Halt(q) /\ Working(q)
    BY <1>1, <1>12 DEF Fail, Done, Working
  <2> QED
    BY <2>1, Halted
<1> QED
  BY <1>2, <1>3, <1>4, <1>5, <1>6, <1>7, <1>8, <1>9, <1>10, <1>11, <1>12 DEF Step

LEMMA CursorStep ==
  ASSUME IInv, [Next]_vars
  PROVE  Covered(cursor)'
<1>1. ASSUME NEW n \in 0..Len(chain), Covered(n), cursor' = n
      PROVE  Covered(cursor)'
  <2>1. Covered(n)'
    BY <1>1, CoveredStays
  <2> QED
    BY <1>1, <2>1 DEF Covered
<1>2. cursor \in 0..Len(chain) /\ Covered(cursor)
  BY DEF IInv, TypeOK
<1>3. ASSUME NEW r \in Passes, Advance(r)
      PROVE  Covered(cursor)'
  <2>1. pass[r].to \in 0..Len(chain) /\ Covered(pass[r].to)
    BY <1>3, PassFields DEF IInv, TypeOK, SoundPass, Advance, At
  <2> QED
    BY <1>1, <1>2, <1>3, <2>1 DEF Advance
<1>4. CASE cursor' = cursor
  BY <1>1, <1>2, <1>4
<1> QED
  BY <1>3, <1>4 DEF Next, vars, Transact, Appear, Mirror, Confirm, Restart, Recover, Start, Step,
       Scan, Load, ReadPot, MissPot, Write, Fail, external, history

-----------------------------------------------------------------------------
(* Theorems *)

\* IInv holds in every reachable state.
THEOREM Invariance == Spec => []IInv
<1>1. Init => IInv
  <2> SUFFICES ASSUME Init PROVE IInv
    OBVIOUS
  <2>1. MaxTxs \in Nat /\ MaxNullRetries \in Nat
    BY IndexerAssumption
  <2>2. TypeOK
    BY <2>1, PassesMade DEF Init, TypeOK
  <2>3. Covered(cursor)
    BY DEF Init, Covered
  <2>4. \A r \in Passes : SoundPass(r)
    BY DEF Init, SoundPass, At, Working, Idle
  <2> QED
    BY <2>2, <2>3, <2>4 DEF IInv
<1>2. IInv /\ [Next]_vars => IInv'
  BY TypeStep, CursorStep, SoundStep DEF IInv
<1> QED
  BY <1>1, <1>2, PTL DEF Spec

\* Every field keeps its range; in particular no transaction is asked for in vain
\* more often than MAX_NULL_RETRIES, so none is asked for without end.
THEOREM IndexerTypes == Spec => []TypeOK
BY Invariance, PTL DEF IInv

\* However many passes overlap, whatever fails and whoever else writes the rows,
\* everything behind the cursor is applied but for the transactions walked past.
THEOREM CursorNeverAhead == Spec => []CursorCovers
<1>1. IInv => CursorCovers
  BY DEF IInv, Covered, Skipped, CursorCovers
<1> QED
  BY <1>1, Invariance, PTL

\* No pass takes back what another has written: a position never returns to an
\* earlier status, and a transaction that was walked past stays listed as such,
\* whatever order the passes and the other writers of the rows come in.
THEOREM RowsNeverGoBack == Spec => [][Grows]_vars
<1>1. IInv /\ [Next]_vars => Grows
  BY StepGrows
<1> QED
  BY <1>1, Invariance, PTL DEF Spec

================================================================================
