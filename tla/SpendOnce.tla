------------------------------- MODULE SpendOnce -------------------------------
(***************************************************************************)
(* What a ledger of signed transactions promises about money, whatever it   *)
(* asks the chain and in whatever order: an intent is signed at most once,  *)
(* one intent at a time may still move money, what is called dead never     *)
(* does, and a person is told the outcome only when it is certain.          *)
(***************************************************************************)
CONSTANT Intents   \* the intents that compete for one slot

VARIABLES
  forever,   \* fixed at the start: money moved for one intent keeps the slot taken
  status,    \* "unsigned", "live", "moved" or "dead"
  told       \* what the owner has been told: "nothing", "moved" or "dead"

vars == <<forever, status, told>>

Init ==
  /\ forever \in BOOLEAN
  /\ status = [i \in Intents |-> "unsigned"]
  /\ told = [i \in Intents |-> "nothing"]

Sign(i) ==
  /\ status[i] = "unsigned"
  /\ \A j \in Intents \ {i} : status[j] # "live" /\ (forever => status[j] # "moved")
  /\ status' = [status EXCEPT ![i] = "live"]
  /\ UNCHANGED <<forever, told>>

Move(i) ==
  /\ status[i] = "live"
  /\ status' = [status EXCEPT ![i] = "moved"]
  /\ UNCHANGED <<forever, told>>

Tell(i) ==
  /\ status[i] = "moved" /\ told[i] = "nothing"
  /\ told' = [told EXCEPT ![i] = "moved"]
  /\ UNCHANGED <<forever, status>>

Drop(i) ==
  /\ status[i] \in {"unsigned", "live"}
  /\ status' = [status EXCEPT ![i] = "dead"]
  /\ told' = [told EXCEPT ![i] = "dead"]
  /\ UNCHANGED forever

Next == \E i \in Intents : Sign(i) \/ Move(i) \/ Tell(i) \/ Drop(i)

Spec == Init /\ [][Next]_vars
================================================================================
