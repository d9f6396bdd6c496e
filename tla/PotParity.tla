------------------------------- MODULE PotParity -------------------------------
(***************************************************************************)
(* The on-chain pot beside the engine's settlement of the same stakes.     *)
(* The program and the backend compute what winners are paid on their own, *)
(* and the comments of claim.rs and parimutuel.ts say how the two differ.  *)
(***************************************************************************)
EXTENDS ArenaPot, Parimutuel

\* the positions of the pot as the engine would see them
Book == [stake |-> stake, bucket |-> bucket, n |-> N]

EnginePayout(p) == Payout(Book, winningBucket, RakeBps, p)

\* A settled pot from which nobody has claimed is one the engine would not void; the
\* engine withholds the same rake, pays every player what claim will, or one unit
\* of dust more, and leaves nothing over (claim, settleParimutuel).
EngineAgrees ==
  (status = "SETTLED" /\ SumTo(stake, N) = totalStake) =>
    /\ ~Voids(Book, winningBucket, MinParticipants)
    /\ Distributable(Book, winningBucket, RakeBps) = distributable
    /\ \A p \in Player : EnginePayout(p) - Owed(p) \in {0, 1}
    /\ SumTo([p \in Player |-> EnginePayout(p)], N) = winnersStake + distributable

=============================================================================
