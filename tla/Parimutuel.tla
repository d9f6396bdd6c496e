------------------------------ MODULE Parimutuel ------------------------------
(***************************************************************************)
(* settleParimutuel: what every caller of one market is paid.  Callers are *)
(* numbered 1..n in the order of their call ids, the order in which the    *)
(* code hands out the rounding dust; stake[p] = 0 means p made no call.    *)
(* A market is the record [stake, bucket, n].                              *)
(***************************************************************************)
EXTENDS Sums, FiniteSets

Callers(mk) == {p \in 1..mk.n : mk.stake[p] > 0}
Wins(mk, w, p) == mk.stake[p] > 0 /\ mk.bucket[p] = w

Gross(mk) == SumTo(mk.stake, mk.n)
WinnersStake(mk, w) == SumTo([p \in 1..mk.n |-> IF Wins(mk, w, p) THEN mk.stake[p] ELSE 0], mk.n)
LosersStake(mk, w) == Gross(mk) - WinnersStake(mk, w)

(* "no calls", "thin pool", "no correct calls": everyone is refunded *)
Voids(mk, w, minParticipants) ==
  \/ Callers(mk) = {}
  \/ Cardinality(Callers(mk)) < minParticipants
  \/ WinnersStake(mk, w) = 0

RakeOf(mk, w, bps) == (LosersStake(mk, w) * bps) \div 10000
Distributable(mk, w, bps) == LosersStake(mk, w) - RakeOf(mk, w, bps)

Share(mk, w, bps, p) ==
  IF Wins(mk, w, p)
  THEN (Distributable(mk, w, bps) * mk.stake[p]) \div WinnersStake(mk, w) ELSE 0

Shares(mk, w, bps) == [p \in 1..mk.n |-> Share(mk, w, bps, p)]

Dust(mk, w, bps) == Distributable(mk, w, bps) - SumTo(Shares(mk, w, bps), mk.n)

(* What is left of the dust once callers 1..k were offered one unit each, *)
(* winners only.                                                          *)
DustLeft(mk, w, bps) ==
  LET left[k \in 0..mk.n] ==
        IF k = 0 THEN Dust(mk, w, bps)
        ELSE IF Wins(mk, w, k) /\ left[k-1] > 0 THEN left[k-1] - 1 ELSE left[k-1]
  IN  left

Payout_NoDust(mk, w, bps, p) ==  \* faulty: the dust stays with nobody
  IF Wins(mk, w, p) THEN mk.stake[p] + Share(mk, w, bps, p) ELSE 0

(* payouts of the PAID result *)
Payout(mk, w, bps, p) ==
  IF Wins(mk, w, p)
  THEN mk.stake[p] + Share(mk, w, bps, p) + (DustLeft(mk, w, bps)[p-1] - DustLeft(mk, w, bps)[p])
  ELSE 0

=============================================================================
