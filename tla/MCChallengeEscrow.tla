-------------------------- MODULE MCChallengeEscrow --------------------------
(* Small instances of ChallengeEscrow for TLC. *)
EXTENDS ChallengeEscrow, TLC

\* An opponent who may submit twice, a creator who may think better of it, two
\* ticks that may overlap.
MCOp == "c" :> "create" @@ "a" :> "accept" @@ "b" :> "accept" @@ "x" :> "cancel"
          @@ "s" :> "settle" @@ "t" :> "settle"
MCWho == "c" :> 1 @@ "a" :> 2 @@ "b" :> 2 @@ "x" :> 1 @@ "s" :> 1 @@ "t" :> 1

\* Two opponents after the same challenge.
RaceOp == "c" :> "create" @@ "a" :> "accept" @@ "b" :> "accept"
RaceWho == "c" :> 1 @@ "a" :> 2 @@ "b" :> 3
=============================================================================
