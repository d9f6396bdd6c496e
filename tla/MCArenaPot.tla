----------------------------- MODULE MCArenaPot -----------------------------
(* Small instances of ArenaPot for TLC. *)
EXTENDS PotParity, TLC

Batch(f, t, st) == [fixture |-> f, ts |-> t, stat |-> st]

\* home 2 - 1 away in the last second of the window of kickoff 1, a batch of
\* another fixture at the same instant that says the opposite, and one just
\* after the window.
MCFeed ==
  {Batch("F", 5, ("h" :> 2) @@ ("a" :> 1)),
   Batch("G", 5, ("h" :> 0) @@ ("a" :> 3)),
   Batch("F", 6, ("h" :> 0) @@ ("a" :> 1))}

\* over and under 1.5 goals, and the highest line there is
TwoLines == {[op |-> "ADD", floor |-> f, a |-> "h", b |-> "a"] : f \in {1, 3}}

SomeGifts == {1}
=============================================================================
