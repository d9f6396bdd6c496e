----------------------------- MODULE CallResults -----------------------------
(***************************************************************************)
(* From what a venue publishes to the results of calls.  A single-flight    *)
(* pass walks the catalogue, re-reads markets that are no longer listed and *)
(* markets with pending calls, a slice of each at a time, and records what  *)
(* was published; then it derives the results of the calls.  Memory runs    *)
(* ahead of Postgres: every change is queued, written in order, and a write *)
(* that fails is passed over, until the process restarts from the database. *)
(*                                                                          *)
(* One call stands for all calls on its market; a result is named after the *)
(* resolution it was derived from.                                          *)
(***************************************************************************)
EXTENDS Integers, Sequences, FiniteSets, Functions

CONSTANTS
  N,        \* markets, numbered in the order of their venue ids
  Broken,   \* those whose detail has a shape the adapter refuses
  Budget    \* detail reads of one slice

ASSUME ResultsAssumption == N \in Nat /\ Broken \subseteq 1..N /\ Budget \in Nat \ {0}

VARIABLES
  venue,     \* what the venue says of each market
  mirror,    \* calls, evidence and results in memory
  disk,      \* and in Postgres
  queue,     \* writes that wait
  failed,    \* the queue has passed over a write
  worker,    \* where the pass is
  cursor,    \* where the two rotations stand
  shown,     \* results that were reported or served
  troubled   \* reads, writes and the process may still fail

rows == <<mirror, disk, queue, failed>>
vars == <<venue, rows, worker, cursor, shown, troubled>>

Markets == 1..N
Resolutions == {"YES", "NO"}
Settled(r) == r \in Resolutions

Nothing == [m \in Markets |-> "none"]
Idle == [at |-> "idle", todo |-> <<>>, bad |-> FALSE]
Init ==
  /\ venue = [m \in Markets |-> "open"]
  /\ mirror = [calls |-> {}, evidence |-> Nothing, results |-> Nothing] /\ disk = mirror
  /\ queue = <<>> /\ failed = FALSE
  /\ worker = Idle /\ cursor = [sweep |-> 0, called |-> 0]
  /\ shown = Nothing /\ troubled = TRUE

-----------------------------------------------------------------------------
(* The venue: a market closes, its result is published, and may be restated; *)
(* what becomes of one that is never read makes no difference to anybody       *)

Close(m) ==
  /\ venue[m] = "open" /\ venue' = [venue EXCEPT ![m] = "closed"]
  /\ UNCHANGED <<rows, worker, cursor, shown, troubled>>
Publish(m, r) ==
  /\ m \notin Broken /\ venue[m] # "open" /\ venue' = [venue EXCEPT ![m] = r]
  /\ UNCHANGED <<rows, worker, cursor, shown, troubled>>

-----------------------------------------------------------------------------
(* The queue and the database *)

Row(kind, m, val) == <<[kind |-> kind, market |-> m, val |-> val]>>

(* foreign keys, and the triggers that re-derive a result and keep it *)
Accepted(w) ==
  w.kind = "result" =>
    /\ w.market \in disk.calls
    /\ Settled(w.val) => disk.evidence[w.market] = w.val
    /\ Settled(disk.results[w.market]) => disk.results[w.market] = w.val
Applied(w) ==
  CASE w.kind = "call"     -> [disk EXCEPT !.calls = @ \union {w.market}]
    [] w.kind = "evidence" -> IF disk.evidence[w.market] # "none" THEN disk
                              ELSE [disk EXCEPT !.evidence[w.market] = w.val]
    [] w.kind = "result"   -> [disk EXCEPT !.results[w.market] = w.val]

Write ==
  /\ queue # <<>> /\ queue' = Tail(queue)
  /\ disk' = IF Accepted(Head(queue)) THEN Applied(Head(queue)) ELSE disk
  /\ failed' = (failed \/ ~Accepted(Head(queue)))
  /\ UNCHANGED <<venue, mirror, worker, cursor, shown, troubled>>
(* not written, or written and the reply lost *)
WriteFails ==
  /\ troubled /\ queue # <<>> /\ queue' = Tail(queue)
  /\ disk' \in {disk} \union IF Accepted(Head(queue)) THEN {Applied(Head(queue))} ELSE {}
  /\ failed' = TRUE
  /\ UNCHANGED <<venue, mirror, worker, cursor, shown, troubled>>

(* flush: whoever waits for the queue goes on only if every write went through *)
Drained == queue = <<>>
Clean_Drained == Drained  \* faulty: failures do not count
Clean == Drained /\ ~failed

(* a fresh process hydrates from Postgres, with whatever cursors it holds *)
Hydrate ==
  /\ mirror' = disk /\ queue' = <<>> /\ failed' = FALSE /\ worker' = Idle
  /\ cursor' \in [sweep : 0..N, called : 0..N]
  /\ UNCHANGED <<venue, disk, shown, troubled>>
Crash == troubled /\ Hydrate
Quarantine == failed /\ Drained /\ Hydrate

Recover ==
  /\ troubled /\ troubled' = FALSE
  /\ UNCHANGED <<venue, rows, worker, cursor, shown>>

-----------------------------------------------------------------------------
(* Requests: a call is locked, a market is read, a result is served *)

Call(m) ==
  /\ venue[m] = "open" /\ m \notin mirror.calls /\ mirror.evidence[m] = "none"
  /\ mirror' = [mirror EXCEPT !.calls = @ \union {m}, !.results[m] = "PENDING"]
  /\ queue' = queue \o Row("call", m, "") \o Row("result", m, "PENDING")
  /\ UNCHANGED <<venue, disk, failed, worker, cursor, shown, troubled>>

(* recordPublishedResolution: evidence is recorded once, and never overwritten *)
Recordable_Restated(m) == Settled(venue[m]) /\ mirror.evidence[m] # venue[m]  \* faulty
Recordable(m) == Settled(venue[m]) /\ mirror.evidence[m] = "none"
Record(m) ==
  IF Recordable(m)
  THEN /\ mirror' = [mirror EXCEPT !.evidence[m] = venue[m]]
       /\ queue' = queue \o Row("evidence", m, venue[m])
  ELSE UNCHANGED <<mirror, queue>>

(* persist: it does not look for earlier evidence, but the store refuses a second *)
(* result (INVALID_TRANSITION), which leaves the same state                       *)
Read(m) ==
  /\ m \notin Broken /\ Record(m)
  /\ UNCHANGED <<venue, disk, failed, worker, cursor, shown, troubled>>

Known == [m \in Markets |-> IF Settled(mirror.results[m]) THEN mirror.results[m] ELSE shown[m]]
Serve ==
  /\ Clean /\ shown' = Known
  /\ UNCHANGED <<venue, rows, worker, cursor, troubled>>

-----------------------------------------------------------------------------
(* CallResultWorker: one pass at a time *)

Goto(place) == worker' = [worker EXCEPT !.at = place, !.todo = <<>>]
GotoBad(place) == worker' = [at |-> place, todo |-> <<>>, bad |-> TRUE]

(* a slice of the ids, from the first one behind the cursor on, around the end *)
Before(i, j, after) ==
  \/ i > after /\ j <= after
  \/ (i > after) = (j > after) /\ i < j
Starts(s, ids, after) ==
  \A k \in DOMAIN s, j \in ids :
    (\E l \in 1..k : s[l] = j) \/ Before(s[k], j, after)
Length(ids) == IF Cardinality(ids) < Budget THEN Cardinality(ids) ELSE Budget
Slices(ids, after) == {s \in [1..Length(ids) -> ids] : Starts(s, ids, after)}

Tick ==
  /\ worker.at = "idle" /\ worker' = [Idle EXCEPT !.at = "walk"]
  /\ UNCHANGED <<venue, rows, cursor, shown, troubled>>

(* the catalogue's pages list some of the open markets; ended ones are left out *)
Walk ==
  /\ worker.at = "walk"
  /\ \E seen \in SUBSET {m \in Markets : venue[m] = "open"} :
     \E todo \in Slices({m \in Markets \ seen : mirror.evidence[m] = "none"}, cursor.sweep) :
       worker' = [worker EXCEPT !.at = "sweep", !.todo = todo]
  /\ UNCHANGED <<venue, rows, cursor, shown, troubled>>
WalkFails ==
  /\ troubled /\ worker.at = "walk" /\ GotoBad("flush")
  /\ UNCHANGED <<venue, rows, cursor, shown, troubled>>

(* sweepUnlisted: a refused detail is remembered, and the cursor moves on *)
SweptTo_Clean(m, bad) == IF bad THEN cursor.sweep ELSE m  \* faulty
SweptTo(m, bad) == m
SweepRead ==
  LET m == Head(worker.todo)
      bad == worker.bad \/ m \in Broken IN
  /\ worker.at = "sweep" /\ worker.todo # <<>>
  /\ \/ m \notin Broken /\ Record(m)
     \/ (troubled \/ m \in Broken) /\ UNCHANGED <<mirror, queue>>
  /\ worker' = [worker EXCEPT !.todo = Tail(@), !.bad = bad]
  /\ cursor' = IF Len(worker.todo) = 1 THEN [cursor EXCEPT !.sweep = SweptTo(m, bad)] ELSE cursor
  /\ UNCHANGED <<venue, disk, failed, shown, troubled>>
Swept ==
  /\ worker.at = "sweep" /\ worker.todo = <<>> /\ Goto("flush")
  /\ UNCHANGED <<venue, rows, cursor, shown, troubled>>

(* pendingTargets *)
Targets ==
  {m \in mirror.calls : /\ ~Settled(mirror.results[m])
                        /\ mirror.evidence[m] = "none" /\ venue[m] # "open"}
Flush ==
  /\ worker.at = "flush" /\ Drained
  /\ IF Clean
     THEN \E todo \in Slices(Targets, cursor.called) :
            worker' = [worker EXCEPT !.at = "called", !.todo = todo]
     ELSE GotoBad("flush again")
  /\ UNCHANGED <<venue, rows, cursor, shown, troubled>>

(* refreshCalledMarket: a refused detail ends the slice, and the cursor stays *)
CalledRead ==
  LET m == Head(worker.todo) IN
  /\ worker.at = "called" /\ worker.todo # <<>>
  /\ \/ m \notin Broken /\ Record(m)
     \/ troubled /\ UNCHANGED <<mirror, queue>>
  /\ worker' = [worker EXCEPT !.todo = Tail(@)]
  /\ cursor' = IF Len(worker.todo) = 1 THEN [cursor EXCEPT !.called = m] ELSE cursor
  /\ UNCHANGED <<venue, disk, failed, shown, troubled>>
CalledThrows ==
  /\ worker.at = "called" /\ worker.todo # <<>> /\ Head(worker.todo) \in Broken
  /\ GotoBad("flush again")
  /\ UNCHANGED <<venue, rows, cursor, shown, troubled>>
Called ==
  /\ worker.at = "called" /\ worker.todo = <<>> /\ Goto("flush again")
  /\ UNCHANGED <<venue, rows, cursor, shown, troubled>>

FlushAgain ==
  /\ worker.at = "flush again" /\ Drained
  /\ IF Clean THEN Goto("derive") ELSE worker' = Idle
  /\ UNCHANGED <<venue, rows, cursor, shown, troubled>>

(* ResolutionSync: every call without a settled result is derived again *)
Derived(m) == IF Settled(mirror.evidence[m]) THEN mirror.evidence[m] ELSE "PENDING"
Open == {m \in mirror.calls : ~Settled(mirror.results[m])}
Derive ==
  LET changed == {m \in Open : mirror.results[m] # Derived(m)}
      Rewrites(ms) == [k \in DOMAIN ms |-> [kind |-> "result", market |-> ms[k], val |-> Derived(ms[k])]] IN
  /\ worker.at = "derive" /\ Goto("report")
  /\ mirror' = [mirror EXCEPT !.results = [m \in Markets |-> IF m \in changed THEN Derived(m) ELSE @[m]]]
  /\ \E order \in Surjection(1..Cardinality(changed), changed) : queue' = queue \o Rewrites(order)
  /\ UNCHANGED <<venue, disk, failed, cursor, shown, troubled>>

(* never report a settlement before it is durable *)
Report ==
  /\ worker.at = "report" /\ Drained /\ worker' = Idle
  /\ shown' = IF Clean /\ ~worker.bad THEN Known ELSE shown
  /\ UNCHANGED <<venue, rows, cursor, troubled>>

Pass ==
  \/ Walk \/ WalkFails \/ SweepRead \/ Swept \/ Flush
  \/ CalledRead \/ CalledThrows \/ Called \/ FlushAgain \/ Derive \/ Report

Next ==
  \/ \E m \in Markets : Close(m) \/ Call(m) \/ Read(m) \/ \E r \in Resolutions : Publish(m, r)
  \/ Write \/ WriteFails \/ Crash \/ Quarantine \/ Recover
  \/ Serve \/ Tick \/ Pass

Spec == Init /\ [][Next]_vars

(* Passes are started on a timer, their awaits and the queue's writes end, a   *)
(* failed writer is restarted, and reads, writes and the process stop failing. *)
FairSpec ==
  /\ Spec /\ WF_vars(Tick) /\ WF_vars(Pass) /\ WF_vars(Write)
  /\ WF_vars(Quarantine) /\ WF_vars(Recover)

-----------------------------------------------------------------------------
Store == [calls : SUBSET Markets,
          evidence : [Markets -> {"none"} \union Resolutions],
          results : [Markets -> {"none", "PENDING"} \union Resolutions]]
Writes == [kind : {"call", "evidence", "result"}, market : Markets, val : {"", "PENDING"} \union Resolutions]
Places == {"idle", "walk", "sweep", "flush", "called", "flush again", "derive", "report"}
(* Every field keeps its range, and no slice is longer than its budget. *)
TypeOK ==
  /\ venue \in [Markets -> {"open", "closed"} \union Resolutions]
  /\ mirror \in Store /\ disk \in Store
  /\ queue \in Seq(Writes) /\ failed \in BOOLEAN /\ troubled \in BOOLEAN
  /\ worker \in [at : Places, todo : Seq(Markets), bad : BOOLEAN] /\ Len(worker.todo) <= Budget
  /\ cursor \in [sweep : 0..N, called : 0..N]
  /\ shown \in [Markets -> {"none"} \union Resolutions]

(* A settled result is what the recorded evidence says, in memory and on disk, *)
(* however the venue restates it and whatever was lost in between: re-deriving *)
(* it never contradicts it, so it never stops a pass.                          *)
EvidenceAgrees ==
  \A store \in {mirror, disk}, m \in Markets :
    Settled(store.results[m]) => store.evidence[m] = store.results[m]

(* No result that was reported or served is ever missing from Postgres or other there. *)
ShownStands == \A m \in Markets : Settled(shown[m]) => disk.results[m] = shown[m]

(* Every call on a market whose result is published gets it, durably, in spite *)
(* of markets that can never be read, of writes passed over and of restarts.   *)
Settles ==
  []<>(\A m \in disk.calls \ Broken : Settled(venue[m]) => Settled(disk.results[m]))

===============================================================================
