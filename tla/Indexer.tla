-------------------------------- MODULE Indexer --------------------------------
(***************************************************************************)
(* How the social read model follows the arena program.  The reconciler     *)
(* walks the program's transactions forward from a durable cursor, oldest   *)
(* first, and applies what each one did to the positions; the app mirrors   *)
(* the positions it opens, and the webhook confirms them.  One pot, one     *)
(* call per player, one instruction per transaction.                        *)
(*                                                                          *)
(* Passes are started by an interval, whether or not the last one has       *)
(* ended, and stop where an await fails.                                    *)
(***************************************************************************)
EXTENDS Integers, Sequences

CONSTANTS
  Players,
  Passes,        \* passes that may be under way at once
  MaxPerPass,    \* signatures a pass processes at most
  MaxNullRetries,
  MaxTxs         \* bound on the transactions of the chain

ASSUME IndexerAssumption ==
  /\ MaxPerPass \in Nat \ {0} /\ MaxNullRetries \in Nat /\ MaxTxs \in Nat

VARIABLES
  chain,     \* the program's transactions, in the order of the chain
  served,    \* of each, whether the RPC returns it when asked
  position,  \* status of the row of each player's position
  cursor,    \* transactions up to the durable cursor
  nulls,     \* nullRetries: how often each was asked for in vain
  pass,      \* where each pass is
  troubled,  \* an await may fail, the process may restart
  dropped,   \* history: transactions given up as gone
  unread     \* history: transactions walked past because their pot was not read

external == <<chain, served>>
history == <<dropped, unread>>
vars == <<external, position, cursor, nulls, pass, troubled, history>>

Idle == [at |-> "idle"]
Txs == [kind : {"place_call", "claim"}, player : Players] \union [kind : {"settle_pot", "failed"}]
Sent(tx) == \E i \in DOMAIN chain : chain[i] = tx
Placed(p) == Sent([kind |-> "place_call", player |-> p])

Init ==
  /\ chain = <<>> /\ served = <<>>
  /\ position = [p \in Players |-> "none"]
  /\ cursor = 0 /\ nulls = [i \in 1..MaxTxs |-> 0]
  /\ pass = [r \in Passes |-> Idle]
  /\ troubled = TRUE
  /\ dropped = {} /\ unread = {}

-----------------------------------------------------------------------------
(* The chain *)

Possible(tx) ==
  \/ tx.kind \in {"settle_pot", "failed"} /\ ~Sent(tx)
  \/ tx.kind = "place_call" /\ ~Sent(tx) /\ ~Sent([kind |-> "settle_pot"])
  \/ tx.kind = "claim" /\ ~Sent(tx) /\ Placed(tx.player) /\ Sent([kind |-> "settle_pot"])

Transact(tx) ==
  /\ Len(chain) < MaxTxs /\ Possible(tx)
  /\ chain' = Append(chain, tx)
  /\ served' = Append(served, FALSE)
  /\ UNCHANGED <<position, cursor, nulls, pass, troubled, history>>

(* one that never appears was dropped by a reorganisation *)
Appear(i) ==
  /\ chain[i].kind # "failed" /\ ~served[i] /\ served' = [served EXCEPT ![i] = TRUE]
  /\ UNCHANGED <<chain, position, cursor, nulls, pass, troubled, history>>

-----------------------------------------------------------------------------
(* The app mirrors what it signed, the webhook confirms it; either may be late, *)
(* repeated or lost.                                                            *)

Mirror(p) ==
  /\ Placed(p) /\ position[p] = "none"
  /\ position' = [position EXCEPT ![p] = "PENDING"]
  /\ UNCHANGED <<external, cursor, nulls, pass, troubled, history>>

Confirm(p) ==
  /\ Placed(p) /\ position[p] = "PENDING"
  /\ position' = [position EXCEPT ![p] = "OPEN"]
  /\ UNCHANGED <<external, cursor, nulls, pass, troubled, history>>

-----------------------------------------------------------------------------
(* A pass *)

At(r, place) == pass[r].at = place
Done(r) == pass' = [pass EXCEPT ![r] = Idle]

Start(r) ==
  /\ At(r, "idle")
  /\ pass' = [pass EXCEPT ![r] = [at |-> "scan", from |-> cursor]]
  /\ UNCHANGED <<external, position, cursor, nulls, troubled, history>>

First_Newest(from) ==  \* faulty: a pass takes the newest of the backlog
  IF Len(chain) - MaxPerPass > from THEN Len(chain) - MaxPerPass + 1 ELSE from + 1
(* a pass takes the oldest of everything newer than the cursor *)
First(from) == from + 1
Last(from) ==
  IF First(from) + MaxPerPass <= Len(chain) THEN First(from) + MaxPerPass - 1 ELSE Len(chain)

(* readCursor has answered, and now signaturesSince *)
Scan(r) ==
  /\ At(r, "scan")
  /\ LET from == pass[r].from IN
     IF Len(chain) <= from THEN Done(r)
     ELSE pass' = [pass EXCEPT ![r] =
                     [at |-> "load", next |-> First(from), last |-> Last(from), some |-> FALSE]]
  /\ UNCHANGED <<external, position, cursor, nulls, troubled, history>>

AdvanceTo_Before(i) == i - 1  \* faulty: the cursor is moved before the transaction is processed
AdvanceTo(i) == i
(* extend the contiguous run by the transaction just processed *)
Walk(r) ==
  pass' = [pass EXCEPT ![r] =
             IF @.next < @.last
             THEN [at |-> "load", next |-> @.next + 1, last |-> @.last, some |-> TRUE]
             ELSE [at |-> "advance", to |-> AdvanceTo(@.next)]]

(* stop here; what was processed before it still advances the cursor *)
Halt(r) ==
  pass' = [pass EXCEPT ![r] = IF @.some THEN [at |-> "advance", to |-> @.next - 1] ELSE Idle]

GivenUp(i) == nulls[i] >= MaxNullRetries

(* processSignature, up to its first write *)
Load(r) ==
  LET i == pass[r].next
      kind == chain[i].kind IN
  /\ At(r, "load")
  /\ \/ kind = "failed" /\ Walk(r) /\ UNCHANGED <<nulls, dropped>>
     \/ /\ kind # "failed" /\ served[i]
        /\ nulls' = [nulls EXCEPT ![i] = 0]
        /\ pass' = [pass EXCEPT ![r].at = IF kind = "claim" THEN "write" ELSE "pot"]
        /\ UNCHANGED dropped
     \/ /\ kind # "failed" /\ ~served[i] /\ ~GivenUp(i)
        /\ nulls' = [nulls EXCEPT ![i] = @ + 1]
        /\ Halt(r) /\ UNCHANGED dropped
     \/ /\ kind # "failed" /\ ~served[i] /\ GivenUp(i)
        /\ nulls' = [nulls EXCEPT ![i] = 0]
        /\ dropped' = dropped \union {i}
        /\ Walk(r)
  /\ UNCHANGED <<external, position, cursor, troubled, unread>>

(* getPot: a pot that cannot be read is no error, and its transaction is walked past *)
ReadPot(r) ==
  /\ At(r, "pot")
  /\ pass' = [pass EXCEPT ![r].at = "write"]
  /\ UNCHANGED <<external, position, cursor, nulls, troubled, history>>

MissPot(r) ==
  /\ At(r, "pot")
  /\ unread' = unread \union {pass[r].next}
  /\ Walk(r)
  /\ UNCHANGED <<external, position, cursor, nulls, troubled, dropped>>

(* recordPredictionCall, applySettlement, applyClaim: status-gated updates *)
Effect(tx) ==
  [p \in Players |->
    CASE tx = [kind |-> "place_call", player |-> p] /\ position[p] \in {"none", "PENDING"} -> "OPEN"
      [] tx = [kind |-> "claim", player |-> p] /\ position[p] # "none" -> "CLAIMED"
      [] tx.kind = "settle_pot" /\ position[p] \in {"PENDING", "OPEN"} -> "SETTLED"
      [] OTHER -> position[p]]

Write(r) ==
  /\ At(r, "write")
  /\ position' = Effect(chain[pass[r].next])
  /\ Walk(r) \/ (troubled /\ Halt(r))  \* or the reply is lost
  /\ UNCHANGED <<external, cursor, nulls, troubled, history>>

(* advance_indexer_cursor: whether it may also move back is the database's *)
Advance(r) ==
  /\ At(r, "advance")
  /\ cursor' = pass[r].to \/ (cursor > pass[r].to /\ UNCHANGED cursor)
  /\ Done(r)
  /\ UNCHANGED <<external, position, nulls, troubled, history>>

(* an await of the pass fails: an RPC or the database *)
Fail(r) ==
  /\ troubled
  /\ \/ pass[r].at \in {"load", "write"} /\ Halt(r)
     \/ pass[r].at \in {"scan", "advance"} /\ Done(r)
  /\ UNCHANGED <<external, position, cursor, nulls, troubled, history>>

Restart ==
  /\ troubled
  /\ \E r \in Passes : ~At(r, "idle")
  /\ pass' = [r \in Passes |-> Idle]
  /\ nulls' = [i \in 1..MaxTxs |-> 0]
  /\ UNCHANGED <<external, position, cursor, troubled, history>>

(* the process, the RPC and the database are back for good *)
Recover ==
  /\ troubled /\ troubled' = FALSE
  /\ UNCHANGED <<external, position, cursor, nulls, pass, history>>

Step(r) == Scan(r) \/ Load(r) \/ ReadPot(r) \/ MissPot(r) \/ Write(r) \/ Advance(r)

Next ==
  \/ \E tx \in Txs : Transact(tx)
  \/ \E i \in DOMAIN chain : Appear(i)
  \/ \E p \in Players : Mirror(p) \/ Confirm(p)
  \/ \E r \in Passes : Start(r) \/ Step(r) \/ Fail(r)
  \/ Restart \/ Recover

Spec == Init /\ [][Next]_vars

(* The interval fires, awaits end, and the outages do too.                   *)
FairSpec == Spec /\ WF_vars(Recover) /\ \A r \in Passes : WF_vars(Start(r) \/ Step(r))

-----------------------------------------------------------------------------
Pass ==
  {Idle} \union [at : {"scan"}, from : 0..MaxTxs]
  \union [at : {"load", "pot", "write"}, next : 1..MaxTxs, last : 1..MaxTxs, some : BOOLEAN]
  \union [at : {"advance"}, to : 1..MaxTxs]
(* Every field keeps its range; the retries of one transaction are bounded.     *)
TypeOK ==
  /\ chain \in Seq(Txs) /\ Len(chain) <= MaxTxs
  /\ served \in Seq(BOOLEAN) /\ Len(served) = Len(chain)
  /\ position \in [Players -> {"none", "PENDING", "OPEN", "SETTLED", "CLAIMED"}]
  /\ cursor \in 0..Len(chain)
  /\ nulls \in [1..MaxTxs -> 0..MaxNullRetries]
  /\ pass \in [Passes -> Pass]
  /\ troubled \in BOOLEAN
  /\ dropped \subseteq DOMAIN chain /\ unread \subseteq DOMAIN chain

(* One of the first i transactions, not counting the skipped, placed the call of p. *)
Opened(p, i, skipped) ==
  \E j \in (1..i) \ skipped : chain[j] = [kind |-> "place_call", player |-> p]
(* What transaction i did on chain is in the rows, but for calls skipped before it. *)
Applied(i, skipped) ==
  \A p \in Players : Opened(p, i, skipped) =>
    CASE chain[i].kind = "settle_pot" -> position[p] \in {"SETTLED", "CLAIMED"}
      [] chain[i] = [kind |-> "claim", player |-> p] -> position[p] = "CLAIMED"
      [] OTHER -> position[p] \in {"OPEN", "SETTLED", "CLAIMED"}

(* Whatever fails, restarts, overlaps or was mirrored before: behind the cursor *)
(* every transaction is applied, in its order, but for those given up as gone   *)
(* and those whose pot was not read.                                            *)
CursorCovers ==
  \A i \in (1..cursor) \ (dropped \union unread) : Applied(i, dropped \union unread)

(* A backlog drains and no transaction wedges the cursor: once the chain is  *)
(* quiet everything is behind it, and stays there.                           *)
CatchesUp == <>[](cursor = Len(chain))

================================================================================
