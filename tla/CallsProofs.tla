------------------------------ MODULE CallsProofs ------------------------------
(***************************************************************************)
(* Proofs about the results of calls and about the calls made with money.  *)
(*                                                                         *)
(* CallResults: for any number of markets, of markets that can never be    *)
(* read, and any budget.                                                   *)
(*                                                                         *)
(* MoneyCalls: for any requests, wallets and attempts, any windows and any *)
(* number of restarts.  Its names carry a prefix where both components use *)
(* the same one.                                                           *)
(***************************************************************************)
EXTENDS CallResults, MoneyCalls, FiniteSetTheorems, TLAPS

-----------------------------------------------------------------------------
(* The inductive invariant *)

\* What waits in the queue is what memory says.
Told ==
  \A k \in 1..Len(queue) :
    /\ queue[k].kind = "evidence" =>
         Settled(queue[k].val) /\ queue[k].val = mirror.evidence[queue[k].market]
    /\ queue[k].kind = "result" =>
         \/ queue[k].val = "PENDING"
         \/ Settled(queue[k].val) /\ queue[k].val = mirror.results[queue[k].market]

\* Postgres never contradicts memory.
Behind ==
  \A m \in Markets :
    /\ disk.evidence[m] # "none" => disk.evidence[m] = mirror.evidence[m]
    /\ Settled(disk.results[m]) => disk.results[m] = mirror.results[m]

\* A settled result is in Postgres or on its way, unless a write was passed over.
OnItsWay(m) ==
  \E k \in 1..Len(queue) :
    queue[k] = [kind |-> "result", market |-> m, val |-> mirror.results[m]]
Waiting ==
  ~failed => \A m \in Markets : Settled(mirror.results[m]) =>
               disk.results[m] = mirror.results[m] \/ OnItsWay(m)

IInv == TypeOK /\ EvidenceAgrees /\ ShownStands /\ Told /\ Behind /\ Waiting

\* What a step may do to the rows.
Recorded(m) ==
  /\ Recordable(m)
  /\ mirror' = [mirror EXCEPT !.evidence[m] = venue[m]]
  /\ queue' = queue \o Row("evidence", m, venue[m])
  /\ UNCHANGED <<disk, failed>>
Locked(m) ==
  /\ m \notin mirror.calls /\ mirror.evidence[m] = "none"
  /\ mirror' = [mirror EXCEPT !.calls = @ \union {m}, !.results[m] = "PENDING"]
  /\ queue' = queue \o Row("call", m, "") \o Row("result", m, "PENDING")
  /\ UNCHANGED <<disk, failed>>

-----------------------------------------------------------------------------
(* Slices *)

LEMMA SliceTypes ==
  ASSUME NEW ids \in SUBSET Markets, NEW after, NEW s \in Slices(ids, after)
  PROVE  s \in Seq(Markets) /\ Len(s) <= Budget
<1>1. Cardinality(ids) \in Nat
  <2>1. IsFiniteSet(1..N) BY ResultsAssumption, FS_Interval
  <2> QED BY <2>1, FS_Subset, FS_CardinalityType DEF Markets
<1>2. Length(ids) \in Nat /\ Length(ids) <= Budget
  BY <1>1, ResultsAssumption DEF Length
<1>3. s \in [1..Length(ids) -> Markets]
  BY DEF Slices
<1> QED
  BY <1>2, <1>3

-----------------------------------------------------------------------------
(* Steps *)

\* Whatever happens, the rows move in one of these ways.
LEMMA RowSteps ==
  ASSUME TypeOK, [Next]_vars
  PROVE  \/ UNCHANGED rows
         \/ \E m \in Markets : Recorded(m) \/ Locked(m)
         \/ Derive \/ Write \/ WriteFails \/ Hydrate
<1>1. ASSUME NEW m \in Markets, Record(m), UNCHANGED <<disk, failed>>
      PROVE  UNCHANGED rows \/ Recorded(m)
  BY <1>1 DEF Record, Recorded, rows
<1>2. ASSUME worker.todo # <<>>
      PROVE  Head(worker.todo) \in Markets
  BY <1>2 DEF TypeOK
<1>3. CASE \E m \in Markets : Read(m)
  BY <1>1, <1>3 DEF Read
<1>4. CASE \E m \in Markets : Call(m)
  BY <1>4 DEF Call, Locked
<1>5. CASE SweepRead
  BY <1>1, <1>2, <1>5 DEF SweepRead, rows
<1>6. CASE CalledRead
  BY <1>1, <1>2, <1>6 DEF CalledRead, rows
<1>7. CASE UNCHANGED vars
  BY <1>7 DEF vars
<1>8. CASE \/ \E m \in Markets : Close(m) \/ \E r \in Resolutions : Publish(m, r)
           \/ Recover \/ Serve \/ Tick
  BY <1>8 DEF Close, Publish, Recover, Serve, Tick
<1>9. CASE Walk \/ WalkFails \/ Swept \/ Flush \/ CalledThrows \/ Called \/ FlushAgain \/ Report
  BY <1>9 DEF Walk, WalkFails, Swept, Flush, CalledThrows, Called, FlushAgain, Report, rows
<1> QED
  BY <1>3, <1>4, <1>5, <1>6, <1>7, <1>8, <1>9 DEF Next, Pass, Crash, Quarantine

\* What recording evidence does to each field.
LEMMA RecordedFields ==
  ASSUME TypeOK, NEW m \in Markets, Recorded(m)
  PROVE  /\ mirror.evidence[m] = "none" /\ Settled(venue[m])
         /\ mirror' \in Store
         /\ mirror'.results = mirror.results /\ mirror'.calls = mirror.calls
         /\ mirror'.evidence[m] = venue[m]
         /\ \A x \in Markets \ {m} : mirror'.evidence[x] = mirror.evidence[x]
         /\ Len(queue') = Len(queue) + 1 /\ queue' \in Seq(Writes)
         /\ queue'[Len(queue) + 1] = [kind |-> "evidence", market |-> m, val |-> venue[m]]
         /\ \A k \in 1..Len(queue) : queue'[k] = queue[k]
         /\ disk' = disk /\ failed' = failed
<1>1. mirror.evidence[m] = "none" /\ Settled(venue[m]) /\ disk' = disk /\ failed' = failed
  BY DEF Recorded, Recordable
<1> DEFINE w == [kind |-> "evidence", market |-> m, val |-> venue[m]]
<1>2. w \in Writes /\ queue' = queue \o <<w>> /\ queue \in Seq(Writes)
  BY <1>1 DEF Recorded, Row, Writes, Settled, TypeOK
<1> HIDE DEF w
<1>3. /\ Len(queue') = Len(queue) + 1 /\ queue' \in Seq(Writes)
      /\ queue'[Len(queue) + 1] = w /\ \A k \in 1..Len(queue) : queue'[k] = queue[k]
  BY <1>2
<1>4. mirror \in Store /\ mirror' = [mirror EXCEPT !.evidence[m] = venue[m]]
  BY DEF TypeOK, Recorded
<1>5. /\ mirror' \in Store
      /\ mirror'.results = mirror.results /\ mirror'.calls = mirror.calls
      /\ mirror'.evidence[m] = venue[m]
      /\ \A x \in Markets \ {m} : mirror'.evidence[x] = mirror.evidence[x]
  BY <1>1, <1>4 DEF Store, Settled
<1> QED
  BY <1>1, <1>3, <1>5 DEF w

\* What locking a call does to each field.
LEMMA LockedFields ==
  ASSUME TypeOK, NEW m \in Markets, Locked(m)
  PROVE  /\ mirror.evidence[m] = "none"
         /\ mirror' \in Store
         /\ mirror'.evidence = mirror.evidence
         /\ mirror'.results[m] = "PENDING"
         /\ \A x \in Markets \ {m} : mirror'.results[x] = mirror.results[x]
         /\ Len(queue') = Len(queue) + 2 /\ queue' \in Seq(Writes)
         /\ queue'[Len(queue) + 1].kind = "call"
         /\ queue'[Len(queue) + 2] = [kind |-> "result", market |-> m, val |-> "PENDING"]
         /\ \A k \in 1..Len(queue) : queue'[k] = queue[k]
         /\ disk' = disk /\ failed' = failed
<1> DEFINE v == [kind |-> "call", market |-> m, val |-> ""]
           w == [kind |-> "result", market |-> m, val |-> "PENDING"]
<1>1. v \in Writes /\ w \in Writes /\ v.kind = "call"
  BY DEF Writes
<1>2. queue' = (queue \o <<v>>) \o <<w>> /\ queue \in Seq(Writes)
  BY DEF Locked, Row, TypeOK
<1> HIDE DEF v, w
<1>3. /\ Len(queue') = Len(queue) + 2 /\ queue' \in Seq(Writes)
      /\ queue'[Len(queue) + 1] = v /\ queue'[Len(queue) + 2] = w
      /\ \A k \in 1..Len(queue) : queue'[k] = queue[k]
  BY <1>1, <1>2
<1>4. mirror \in Store
      /\ mirror' = [mirror EXCEPT !.calls = @ \union {m}, !.results[m] = "PENDING"]
  BY DEF TypeOK, Locked
<1>5. /\ mirror' \in Store /\ mirror'.evidence = mirror.evidence
      /\ mirror'.results[m] = "PENDING"
      /\ \A x \in Markets \ {m} : mirror'.results[x] = mirror.results[x]
  BY <1>4 DEF Store
<1> QED
  BY <1>1, <1>3, <1>5 DEF w, Locked

\* What deriving the results does to each field.
Changed == {m \in Open : mirror.results[m] # Derived(m)}
LEMMA DeriveFields ==
  ASSUME TypeOK, Derive
  PROVE  /\ mirror' \in Store
         /\ mirror'.evidence = mirror.evidence
         /\ \A m \in Markets : mirror'.results[m] = IF m \in Changed THEN Derived(m) ELSE mirror.results[m]
         /\ queue' \in Seq(Writes) /\ Len(queue) <= Len(queue')
         /\ \A k \in 1..Len(queue) : queue'[k] = queue[k]
         /\ \A k \in 1..Len(queue') : k > Len(queue) =>
              \E m \in Changed : queue'[k] = [kind |-> "result", market |-> m, val |-> Derived(m)]
         /\ \A m \in Changed : \E k \in 1..Len(queue') :
              queue'[k] = [kind |-> "result", market |-> m, val |-> Derived(m)]
         /\ disk' = disk /\ failed' = failed
<1> DEFINE n == Cardinality(Changed)
           W(m) == [kind |-> "result", market |-> m, val |-> Derived(m)]
<1>1. Changed \subseteq Markets /\ n \in Nat
  <2>1. Changed \subseteq Markets BY DEF Changed, Open, TypeOK, Store
  <2>2. IsFiniteSet(1..N) BY ResultsAssumption, FS_Interval
  <2> QED BY <2>1, <2>2, FS_Subset, FS_CardinalityType DEF Markets
<1>2. \A m \in Markets : Derived(m) \in {"PENDING"} \union Resolutions /\ W(m) \in Writes
  BY DEF Derived, Settled, Writes
<1>3. PICK order \in Surjection(1..n, Changed) :
        queue' = queue \o [k \in DOMAIN order |-> W(order[k])]
  BY DEF Derive, Changed
<1> DEFINE q == [k \in 1..n |-> W(order[k])]
<1>4. /\ order \in [1..n -> Changed] /\ \A m \in Changed : \E k \in 1..n : order[k] = m
  BY DEF Surjection
<1>5. queue' = queue \o q
  BY <1>3, <1>4
<1>6. \A k \in 1..n : q[k] = W(order[k]) /\ order[k] \in Changed /\ q[k] \in Writes
  BY <1>1, <1>2, <1>4
<1>7. q \in Seq(Writes) /\ Len(q) = n
  BY <1>1, <1>6
<1>8. \A m \in Changed : \E k \in 1..n : q[k] = W(m)
  BY <1>4, <1>6
<1> HIDE DEF q, n, W
<1>9. /\ queue' \in Seq(Writes) /\ Len(queue') = Len(queue) + n
      /\ \A k \in 1..Len(queue) : queue'[k] = queue[k]
      /\ \A k \in 1..n : queue'[Len(queue) + k] = q[k]
      /\ Len(queue) \in Nat
  <2>1. queue \in Seq(Writes) /\ Len(queue) \in Nat BY DEF TypeOK
  <2>2. queue \o q \in Seq(Writes) /\ Len(queue \o q) = Len(queue) + n BY <1>7, <2>1
  <2>3. \A k \in 1..Len(queue) : (queue \o q)[k] = queue[k] BY <1>7, <2>1
  <2>4. \A k \in 1..n : (queue \o q)[Len(queue) + k] = q[k] BY <1>1, <1>7, <2>1
  <2> QED BY <1>5, <2>1, <2>2, <2>3, <2>4
<1>10. ASSUME NEW k \in 1..Len(queue'), k > Len(queue)
       PROVE  \E m \in Changed : queue'[k] = W(m)
  <2>1. k - Len(queue) \in 1..n /\ k = Len(queue) + (k - Len(queue)) BY <1>1, <1>9, <1>10
  <2> QED BY <1>6, <1>9, <2>1
<1>11. ASSUME NEW m \in Changed
       PROVE  \E k \in 1..Len(queue') : queue'[k] = W(m)
  <2>1. PICK k \in 1..n : q[k] = W(m) BY <1>8
  <2>2. Len(queue) + k \in 1..Len(queue') BY <1>1, <1>9, <2>1
  <2> QED BY <1>9, <2>1, <2>2
<1>12. mirror \in Store /\ disk' = disk /\ failed' = failed
       /\ mirror' = [mirror EXCEPT !.results = [m \in Markets |-> IF m \in Changed THEN Derived(m) ELSE @[m]]]
  BY DEF TypeOK, Derive, Changed
<1>13. /\ mirror' \in Store /\ mirror'.evidence = mirror.evidence
       /\ \A m \in Markets : mirror'.results[m] = IF m \in Changed THEN Derived(m) ELSE mirror.results[m]
  <2> DEFINE results == [m \in Markets |-> IF m \in Changed THEN Derived(m) ELSE mirror.results[m]]
  <2>1. results \in [Markets -> {"none", "PENDING"} \union Resolutions]
    BY <1>2, <1>12 DEF Store
  <2>2. mirror' = [mirror EXCEPT !.results = results]
    BY <1>12 DEF Store
  <2>4. \A m \in Markets : results[m] = IF m \in Changed THEN Derived(m) ELSE mirror.results[m]
    OBVIOUS
  <2> HIDE DEF results
  <2>3. mirror' \in Store /\ mirror'.evidence = mirror.evidence /\ mirror'.results = results
    BY <1>12, <2>1, <2>2 DEF Store
  <2> QED
    BY <2>3, <2>4
<1>14. \A k \in 1..Len(queue') : k > Len(queue) =>
         \E m \in Changed : queue'[k] = [kind |-> "result", market |-> m, val |-> Derived(m)]
  BY <1>10 DEF W
<1>15. \A m \in Changed : \E k \in 1..Len(queue') :
         queue'[k] = [kind |-> "result", market |-> m, val |-> Derived(m)]
  BY <1>11 DEF W
<1>16. Len(queue) <= Len(queue')
  BY <1>1, <1>9
<1> QED
  BY <1>9, <1>12, <1>13, <1>14, <1>15, <1>16

\* What a write that the database accepts does to each field.
LEMMA AppliedFields ==
  ASSUME disk \in Store, NEW w \in Writes, Accepted(w),
         w.kind = "evidence" => Settled(w.val),
         w.kind = "result" => w.val = "PENDING" \/ Settled(w.val)
  PROVE  /\ Applied(w) \in Store
         /\ \A m \in Markets :
              /\ Applied(w).evidence[m] =
                   IF w.kind = "evidence" /\ m = w.market /\ disk.evidence[m] = "none"
                   THEN w.val ELSE disk.evidence[m]
              /\ Applied(w).results[m] =
                   IF w.kind = "result" /\ m = w.market THEN w.val ELSE disk.results[m]
<1>1. w.market \in Markets /\ w.kind \in {"call", "evidence", "result"}
  BY DEF Writes
<1>2. CASE w.kind = "call"
  <2>1. Applied(w) = [disk EXCEPT !.calls = @ \union {w.market}]
    BY <1>2 DEF Applied
  <2> QED
    BY <1>1, <1>2, <2>1 DEF Store
<1>3. CASE w.kind = "evidence"
  <2>1. Applied(w) = IF disk.evidence[w.market] # "none" THEN disk
                     ELSE [disk EXCEPT !.evidence[w.market] = w.val]
    BY <1>3 DEF Applied
  <2> QED
    BY <1>1, <1>3, <2>1 DEF Store, Settled
<1>4. CASE w.kind = "result"
  <2>1. Applied(w) = [disk EXCEPT !.results[w.market] = w.val]
    BY <1>4 DEF Applied
  <2> QED
    BY <1>1, <1>4, <2>1 DEF Store, Settled
<1> QED
  BY <1>1, <1>2, <1>3, <1>4

\* What the queue's next write does, whether or not it goes through.
LEMMA WriteFields ==
  ASSUME TypeOK, Told, Write \/ WriteFails
  PROVE  /\ Len(queue) > 0 /\ queue[1] \in Writes /\ mirror' = mirror
         /\ queue' \in Seq(Writes) /\ Len(queue') = Len(queue) - 1
         /\ \A k \in 1..Len(queue') : queue'[k] = queue[k + 1]
         /\ disk' \in Store /\ failed' \in BOOLEAN
         /\ disk' = disk \/ (Accepted(queue[1]) /\ disk' = Applied(queue[1]))
         /\ ~failed' => ~failed /\ Accepted(queue[1]) /\ disk' = Applied(queue[1])
<1>1. queue \in Seq(Writes) /\ queue # <<>> /\ queue' = Tail(queue) /\ mirror' = mirror
  BY DEF TypeOK, Write, WriteFails
<1>2. /\ Len(queue) > 0 /\ Head(queue) = queue[1] /\ queue[1] \in Writes
      /\ queue' \in Seq(Writes) /\ Len(queue') = Len(queue) - 1
      /\ \A k \in 1..Len(queue') : queue'[k] = queue[k + 1]
  BY <1>1
<1>3. /\ disk' = disk \/ (Accepted(queue[1]) /\ disk' = Applied(queue[1]))
      /\ ~failed' => ~failed /\ Accepted(queue[1]) /\ disk' = Applied(queue[1])
      /\ failed' \in BOOLEAN
  BY <1>2 DEF TypeOK, Write, WriteFails
<1>4. Accepted(queue[1]) => Applied(queue[1]) \in Store
  <2>1. /\ disk \in Store /\ queue[1] \in Writes
        /\ queue[1].kind = "evidence" => Settled(queue[1].val)
        /\ queue[1].kind = "result" => queue[1].val = "PENDING" \/ Settled(queue[1].val)
    BY <1>2 DEF TypeOK, Told
  <2> QED BY ONLY <2>1, AppliedFields
<1> QED
  BY <1>1, <1>2, <1>3, <1>4 DEF TypeOK

-----------------------------------------------------------------------------
(* Types *)

LEMMA RowTypes ==
  ASSUME TypeOK, Told, [Next]_vars
  PROVE  mirror' \in Store /\ disk' \in Store /\ queue' \in Seq(Writes) /\ failed' \in BOOLEAN
<1>1. mirror \in Store /\ disk \in Store /\ queue \in Seq(Writes) /\ failed \in BOOLEAN
  BY DEF TypeOK
<1>2. CASE UNCHANGED rows
  BY <1>1, <1>2 DEF rows
<1>3. CASE \E m \in Markets : Recorded(m)
  BY <1>1, <1>3, RecordedFields
<1>4. CASE \E m \in Markets : Locked(m)
  BY <1>1, <1>4, LockedFields
<1>5. CASE Derive
  BY <1>1, <1>5, DeriveFields
<1>6. CASE Write \/ WriteFails
  BY <1>1, <1>6, WriteFields
<1>7. CASE Hydrate
  <2>1. <<>> \in Seq(Writes) OBVIOUS
  <2> QED BY <1>1, <1>7, <2>1 DEF Hydrate
<1> QED
  BY <1>2, <1>3, <1>4, <1>5, <1>6, <1>7, RowSteps

LEMMA WorkerType ==
  ASSUME TypeOK, [Next]_vars
  PROVE  worker' \in [at : Places, todo : Seq(Markets), bad : BOOLEAN] /\ Len(worker'.todo) <= Budget
<1> DEFINE Worker == [at : Places, todo : Seq(Markets), bad : BOOLEAN]
<1>1. worker \in Worker /\ Len(worker.todo) <= Budget /\ Budget \in Nat
  BY ResultsAssumption DEF TypeOK
<1>0. <<>> \in Seq(Markets) /\ Len(<<>>) = 0
  OBVIOUS
<1>2. ASSUME NEW place \in Places, NEW bad \in BOOLEAN,
             worker' = [at |-> place, todo |-> <<>>, bad |-> bad]
      PROVE  worker' \in Worker /\ Len(worker'.todo) <= Budget
  BY <1>0, <1>1, <1>2
<1>3. ASSUME NEW place \in Places, Goto(place) \/ GotoBad(place)
      PROVE  worker' \in Worker /\ Len(worker'.todo) <= Budget
  <2>1. Goto(place) => worker' = [at |-> place, todo |-> <<>>, bad |-> worker.bad]
    BY <1>1 DEF Goto
  <2> QED
    BY <1>1, <1>2, <1>3, <2>1 DEF GotoBad
<1>4. ASSUME NEW place \in Places, NEW ids \in SUBSET Markets, NEW after, NEW todo \in Slices(ids, after),
             worker' = [worker EXCEPT !.at = place, !.todo = todo]
      PROVE  worker' \in Worker /\ Len(worker'.todo) <= Budget
  BY <1>1, <1>4, SliceTypes
<1>5. ASSUME worker.todo # <<>>
      PROVE  Tail(worker.todo) \in Seq(Markets) /\ Len(Tail(worker.todo)) <= Budget
  BY <1>1, <1>5
<1>6. CASE UNCHANGED worker
  BY <1>1, <1>6
<1>7. CASE Walk
  BY <1>4, <1>7 DEF Walk, Places
<1>8. CASE Flush
  <2>1. Targets \subseteq Markets BY DEF Targets, TypeOK, Store
  <2> QED BY <1>3, <1>4, <1>8, <2>1 DEF Flush, Places
<1>9. CASE SweepRead
  <2>1. (worker.bad \/ Head(worker.todo) \in Broken) \in BOOLEAN OBVIOUS
  <2> QED BY <1>1, <1>5, <1>9, <2>1 DEF SweepRead
<1>10. CASE CalledRead
  BY <1>1, <1>5, <1>10 DEF CalledRead
<1>11. CASE Tick
  BY <1>2, <1>11 DEF Tick, Idle, Places
<1>12. CASE WalkFails \/ Swept \/ CalledThrows \/ Called \/ Derive
  BY <1>3, <1>12 DEF WalkFails, Swept, CalledThrows, Called, Derive, Places
<1>13. CASE FlushAgain \/ Report
  BY <1>2, <1>3, <1>13 DEF FlushAgain, Report, Idle, Places
<1>14. CASE Crash \/ Quarantine
  BY <1>2, <1>14 DEF Crash, Quarantine, Hydrate, Idle, Places
<1>15. CASE \/ \E m \in Markets : Close(m) \/ Call(m) \/ Read(m) \/ \E r \in Resolutions : Publish(m, r)
            \/ Write \/ WriteFails \/ Recover \/ Serve
  BY <1>6, <1>15 DEF Close, Call, Read, Publish, Write, WriteFails, Recover, Serve
<1> QED
  BY <1>6, <1>7, <1>8, <1>9, <1>10, <1>11, <1>12, <1>13, <1>14, <1>15 DEF Next, Pass, vars

LEMMA TypeStep ==
  ASSUME TypeOK, Told, [Next]_vars
  PROVE  TypeOK'
<1>1. venue' \in [Markets -> {"open", "closed"} \union Resolutions]
  <2>1. CASE \E m \in Markets : Close(m) \/ \E r \in Resolutions : Publish(m, r)
    BY <2>1 DEF TypeOK, Close, Publish
  <2>2. CASE UNCHANGED venue
    BY <2>2 DEF TypeOK
  <2> QED
    BY <2>1, <2>2 DEF Next, Pass, vars, Call, Read, Write, WriteFails, Crash, Quarantine, Hydrate, Recover, Serve,
      Tick, Walk, WalkFails, SweepRead, Swept, Flush, CalledRead, CalledThrows, Called, FlushAgain, Derive, Report
<1>2. cursor' \in [sweep : 0..N, called : 0..N]
  <2>1. cursor \in [sweep : 0..N, called : 0..N] /\ Markets \subseteq 0..N
    BY ResultsAssumption DEF TypeOK, Markets
  <2>2. worker.todo # <<>> => Head(worker.todo) \in 0..N
    <3>1. worker.todo \in Seq(Markets) BY DEF TypeOK
    <3>2. worker.todo # <<>> => Head(worker.todo) \in Markets BY <3>1
    <3> QED BY <2>1, <3>2
  <2>3. CASE SweepRead
    BY <2>1, <2>2, <2>3 DEF SweepRead, SweptTo
  <2>4. CASE CalledRead
    BY <2>1, <2>2, <2>4 DEF CalledRead
  <2>5. CASE Crash \/ Quarantine
    BY <2>5 DEF Crash, Quarantine, Hydrate
  <2>6. CASE UNCHANGED cursor
    BY <2>1, <2>6
  <2> QED
    BY <2>3, <2>4, <2>5, <2>6 DEF Next, Pass, vars, Close, Publish, Call, Read, Write, WriteFails, Recover, Serve,
      Tick, Walk, WalkFails, Swept, Flush, CalledThrows, Called, FlushAgain, Derive, Report
<1>3. shown' \in [Markets -> {"none"} \union Resolutions]
  <2>1. shown \in [Markets -> {"none"} \union Resolutions]
    BY DEF TypeOK
  <2>2. Known \in [Markets -> {"none"} \union Resolutions]
    BY <2>1 DEF Known, Settled
  <2>3. CASE Serve \/ Report
    BY <2>1, <2>2, <2>3 DEF Serve, Report
  <2>4. CASE UNCHANGED shown
    BY <2>1, <2>4
  <2> QED
    BY <2>3, <2>4 DEF Next, Pass, vars, Close, Publish, Call, Read, Write, WriteFails, Crash, Quarantine, Hydrate,
      Recover, Tick, Walk, WalkFails, SweepRead, Swept, Flush, CalledRead, CalledThrows, Called, FlushAgain, Derive
<1>4. troubled' \in BOOLEAN
  <2>1. CASE UNCHANGED troubled
    BY <2>1 DEF TypeOK
  <2> QED
    BY <2>1 DEF Next, Pass, vars, Close, Publish, Call, Read, Write, WriteFails, Crash, Quarantine, Hydrate, Recover,
      Serve, Tick, Walk, WalkFails, SweepRead, Swept, Flush, CalledRead, CalledThrows, Called, FlushAgain, Derive, Report
<1> QED
  BY <1>1, <1>2, <1>3, <1>4, RowTypes, WorkerType DEF TypeOK

-----------------------------------------------------------------------------
(* The rows, one way of moving at a time *)

RowInv == EvidenceAgrees /\ Told /\ Behind /\ Waiting

LEMMA QueueTypes ==
  ASSUME TypeOK
  PROVE  /\ Len(queue) \in Nat
         /\ \A k \in 1..Len(queue) : queue[k] \in Writes /\ queue[k].market \in Markets
<1>1. queue \in Seq(Writes)
  BY DEF TypeOK
<1>2. \A w \in Writes : w.market \in Markets
  BY DEF Writes
<1>3. Len(queue) \in Nat /\ \A k \in 1..Len(queue) : queue[k] \in Writes
  BY <1>1
<1> QED
  BY <1>2, <1>3

\* A result that is settled in memory has evidence.
LEMMA SettledHasEvidence ==
  ASSUME EvidenceAgrees, NEW m \in Markets, mirror.evidence[m] = "none"
  PROVE  ~Settled(mirror.results[m])
BY DEF EvidenceAgrees, Settled, Resolutions

LEMMA RecordedKeeps ==
  ASSUME TypeOK, RowInv, NEW m \in Markets, Recorded(m)
  PROVE  RowInv'
<1>1. ~Settled("none")
  BY DEF Settled, Resolutions
<1>a. /\ mirror.evidence[m] = "none" /\ mirror'.results = mirror.results
      /\ mirror'.evidence[m] = venue[m] /\ Settled(venue[m])
      /\ \A x \in Markets \ {m} : mirror'.evidence[x] = mirror.evidence[x]
      /\ disk' = disk /\ failed' = failed
  BY RecordedFields
<1>b. /\ Len(queue') = Len(queue) + 1
      /\ queue'[Len(queue) + 1] = [kind |-> "evidence", market |-> m, val |-> venue[m]]
      /\ \A k \in 1..Len(queue) : queue'[k] = queue[k]
  BY RecordedFields
<1>c. /\ Len(queue) \in Nat /\ \A k \in 1..Len(queue) : queue[k].market \in Markets
  BY QueueTypes
<1>2. EvidenceAgrees'
  BY <1>1, <1>a, SettledHasEvidence DEF RowInv, EvidenceAgrees
<1>3. Told'
  <2> SUFFICES ASSUME NEW k \in 1..Len(queue')
               PROVE  /\ queue'[k].kind = "evidence" =>
                           Settled(queue'[k].val) /\ queue'[k].val = mirror'.evidence[queue'[k].market]
                      /\ queue'[k].kind = "result" =>
                           \/ queue'[k].val = "PENDING"
                           \/ Settled(queue'[k].val) /\ queue'[k].val = mirror'.results[queue'[k].market]
    BY DEF Told
  <2>1. k \in 1..Len(queue) \/ k = Len(queue) + 1
    BY <1>b, <1>c
  <2>2. CASE k \in 1..Len(queue)
    <3>1. queue'[k] = queue[k] /\ queue[k].market \in Markets
      BY <2>2, <1>b, <1>c
    <3> QED
      BY <1>1, <2>2, <3>1, <1>a DEF RowInv, Told
  <2>3. CASE k = Len(queue) + 1
    BY <2>3, <1>a, <1>b
  <2> QED
    BY <2>1, <2>2, <2>3
<1>4. Behind'
  BY <1>a DEF RowInv, Behind
<1>5. Waiting'
  <2>1. \A x \in Markets : OnItsWay(x) => OnItsWay(x)'
    BY <1>a, <1>b, <1>c DEF OnItsWay
  <2> QED
    BY <2>1, <1>a DEF RowInv, Waiting
<1> QED
  BY <1>2, <1>3, <1>4, <1>5 DEF RowInv

LEMMA LockedKeeps ==
  ASSUME TypeOK, RowInv, NEW m \in Markets, Locked(m)
  PROVE  RowInv'
<1>1. ~Settled("PENDING") /\ ~Settled(mirror.results[m])
  BY LockedFields, SettledHasEvidence DEF Settled, Resolutions, RowInv
<1>a. /\ mirror'.evidence = mirror.evidence /\ mirror'.results[m] = "PENDING"
      /\ \A x \in Markets \ {m} : mirror'.results[x] = mirror.results[x]
      /\ disk' = disk /\ failed' = failed
  BY LockedFields
<1>b. /\ Len(queue') = Len(queue) + 2
      /\ queue'[Len(queue) + 1].kind = "call"
      /\ queue'[Len(queue) + 2] = [kind |-> "result", market |-> m, val |-> "PENDING"]
      /\ \A k \in 1..Len(queue) : queue'[k] = queue[k]
  BY LockedFields
<1>c. /\ Len(queue) \in Nat /\ \A k \in 1..Len(queue) : queue[k].market \in Markets
  BY QueueTypes
<1>2. EvidenceAgrees'
  BY <1>1, <1>a DEF RowInv, EvidenceAgrees
<1>3. Told'
  <2> SUFFICES ASSUME NEW k \in 1..Len(queue')
               PROVE  /\ queue'[k].kind = "evidence" =>
                           Settled(queue'[k].val) /\ queue'[k].val = mirror'.evidence[queue'[k].market]
                      /\ queue'[k].kind = "result" =>
                           \/ queue'[k].val = "PENDING"
                           \/ Settled(queue'[k].val) /\ queue'[k].val = mirror'.results[queue'[k].market]
    BY DEF Told
  <2>1. k \in 1..Len(queue) \/ k = Len(queue) + 1 \/ k = Len(queue) + 2
    BY <1>b, <1>c
  <2>2. CASE k \in 1..Len(queue)
    <3>1. queue'[k] = queue[k] /\ queue[k].market \in Markets
      BY <2>2, <1>b, <1>c
    <3> QED
      BY <1>1, <2>2, <3>1, <1>a DEF RowInv, Told
  <2>3. CASE k = Len(queue) + 1 \/ k = Len(queue) + 2
    BY <2>3, <1>a, <1>b
  <2> QED
    BY <2>1, <2>2, <2>3
<1>4. Behind'
  BY <1>1, <1>a DEF RowInv, Behind
<1>5. Waiting'
  <2>1. \A x \in Markets \ {m} : OnItsWay(x) => OnItsWay(x)'
    BY <1>a, <1>b, <1>c DEF OnItsWay
  <2> QED
    BY <1>1, <2>1, <1>a DEF RowInv, Waiting
<1> QED
  BY <1>2, <1>3, <1>4, <1>5 DEF RowInv

LEMMA DeriveKeeps ==
  ASSUME TypeOK, RowInv, Derive
  PROVE  RowInv'
<1>1. \A m \in Changed : /\ m \in Markets /\ ~Settled(mirror.results[m])
                         /\ Settled(Derived(m)) => Derived(m) = mirror.evidence[m]
                         /\ Settled(Derived(m)) \/ Derived(m) = "PENDING"
  BY DEF Changed, Open, Derived, TypeOK, Store, Settled, Resolutions
<1>2. EvidenceAgrees'
  BY <1>1, DeriveFields DEF RowInv, EvidenceAgrees
<1>3. Told'
  <2> SUFFICES ASSUME NEW k \in 1..Len(queue')
               PROVE  /\ queue'[k].kind = "evidence" =>
                           Settled(queue'[k].val) /\ queue'[k].val = mirror'.evidence[queue'[k].market]
                      /\ queue'[k].kind = "result" =>
                           \/ queue'[k].val = "PENDING"
                           \/ Settled(queue'[k].val) /\ queue'[k].val = mirror'.results[queue'[k].market]
    BY DEF Told
  <2>1. k \in 1..Len(queue) \/ k > Len(queue)
    BY DEF TypeOK
  <2>2. CASE k \in 1..Len(queue)
    <3>1. queue'[k] = queue[k] /\ queue[k].market \in Markets
      BY <2>2, DeriveFields, QueueTypes
    <3> QED
      BY <1>1, <2>2, <3>1, DeriveFields DEF RowInv, Told
  <2>3. CASE k > Len(queue)
    <3>1. PICK m \in Changed : queue'[k] = [kind |-> "result", market |-> m, val |-> Derived(m)]
      BY <2>3, DeriveFields
    <3> QED
      BY <1>1, <3>1, DeriveFields
  <2> QED
    BY <2>1, <2>2, <2>3
<1>4. Behind'
  BY <1>1, DeriveFields DEF RowInv, Behind
<1>5. Waiting'
  <2> SUFFICES ASSUME ~failed, NEW m \in Markets, Settled(mirror'.results[m])
               PROVE  disk'.results[m] = mirror'.results[m] \/ OnItsWay(m)'
    BY DeriveFields DEF Waiting
  <2>1. CASE m \in Changed
    BY <2>1, DeriveFields DEF OnItsWay
  <2>2. CASE m \notin Changed
    <3>1. mirror'.results[m] = mirror.results[m] BY <2>2, DeriveFields
    <3>2. OnItsWay(m) => OnItsWay(m)' BY <3>1, DeriveFields DEF OnItsWay, TypeOK
    <3> QED BY <3>1, <3>2, DeriveFields DEF RowInv, Waiting
  <2> QED
    BY <2>1, <2>2
<1> QED
  BY <1>2, <1>3, <1>4, <1>5 DEF RowInv

\* The database takes a write that memory agrees with, and keeps what is settled.
LEMMA WriteKeepsSettled ==
  ASSUME TypeOK, RowInv, Write \/ WriteFails,
         NEW m \in Markets, Settled(disk.results[m])
  PROVE  disk'.results[m] = disk.results[m]
<1>1. CASE disk' = disk
  BY <1>1
<1>2. CASE Accepted(queue[1]) /\ disk' = Applied(queue[1])
  <2>1. Told /\ 1 \in 1..Len(queue) /\ queue[1] \in Writes /\ disk \in Store
    BY WriteFields DEF RowInv, TypeOK
  <2>2. disk'.results[m] = IF queue[1].kind = "result" /\ m = queue[1].market THEN queue[1].val ELSE disk.results[m]
    BY <1>2, <2>1, AppliedFields DEF Told
  <2> QED
    BY <1>2, <2>2 DEF Accepted
<1> QED
  BY <1>1, <1>2, WriteFields DEF RowInv

LEMMA WriteKeeps ==
  ASSUME TypeOK, RowInv, Write \/ WriteFails
  PROVE  RowInv'
<1> DEFINE w == queue[1]
<1>1. /\ Told /\ 1 \in 1..Len(queue) /\ w \in Writes /\ disk \in Store /\ mirror' = mirror
      /\ w.market \in Markets /\ w.kind \in {"call", "evidence", "result"}
  <2>1. Told /\ Len(queue) > 0 /\ Len(queue) \in Nat /\ w \in Writes /\ disk \in Store /\ mirror' = mirror
    BY WriteFields DEF RowInv, TypeOK
  <2>2. \A x \in Writes : x.market \in Markets /\ x.kind \in {"call", "evidence", "result"}
    BY DEF Writes
  <2> QED
    BY <2>1, <2>2
<1>2. /\ w.kind = "evidence" => Settled(w.val) /\ w.val = mirror.evidence[w.market]
      /\ w.kind = "result" => \/ w.val = "PENDING"
                              \/ Settled(w.val) /\ w.val = mirror.results[w.market]
  BY <1>1 DEF Told
<1>3. ASSUME Accepted(w), disk' = Applied(w)
      PROVE  \A m \in Markets :
               /\ disk'.evidence[m] =
                    IF w.kind = "evidence" /\ m = w.market /\ disk.evidence[m] = "none"
                    THEN w.val ELSE disk.evidence[m]
               /\ disk'.results[m] = IF w.kind = "result" /\ m = w.market THEN w.val ELSE disk.results[m]
  BY <1>1, <1>2, <1>3, AppliedFields
<1>4. ~Settled("PENDING") /\ ~Settled("none")
  BY DEF Settled, Resolutions
<1>5. disk' = disk \/ (Accepted(w) /\ disk' = Applied(w))
  BY WriteFields DEF RowInv
<1> HIDE DEF w
<1>6. EvidenceAgrees'
  <2>1. \A m \in Markets : Settled(disk'.results[m]) => disk'.evidence[m] = disk'.results[m]
    <3>1. CASE disk' = disk
      BY <3>1 DEF RowInv, EvidenceAgrees
    <3>2. CASE Accepted(w) /\ disk' = Applied(w)
      <4> SUFFICES ASSUME NEW m \in Markets, Settled(disk'.results[m])
                   PROVE  disk'.evidence[m] = disk'.results[m]
        OBVIOUS
      <4>1. CASE w.kind = "result" /\ m = w.market
        BY <1>3, <3>2, <4>1 DEF Accepted
      <4>2. CASE ~(w.kind = "result" /\ m = w.market)
        BY <1>3, <1>4, <3>2, <4>2 DEF RowInv, EvidenceAgrees
      <4> QED
        BY <4>1, <4>2
    <3> QED
      BY <1>5, <3>1, <3>2
  <2> QED
    BY <1>1, <2>1 DEF RowInv, EvidenceAgrees
<1>7. Told'
  <2> SUFFICES ASSUME NEW k \in 1..Len(queue')
               PROVE  /\ queue'[k].kind = "evidence" =>
                           Settled(queue'[k].val) /\ queue'[k].val = mirror.evidence[queue'[k].market]
                      /\ queue'[k].kind = "result" =>
                           \/ queue'[k].val = "PENDING"
                           \/ Settled(queue'[k].val) /\ queue'[k].val = mirror.results[queue'[k].market]
    BY <1>1 DEF Told
  <2>1. queue'[k] = queue[k + 1] /\ k + 1 \in 1..Len(queue)
    BY <1>1, WriteFields DEF TypeOK
  <2> QED
    BY <1>1, <2>1 DEF Told
<1>8. Behind'
  <2>1. CASE disk' = disk
    BY <1>1, <2>1 DEF RowInv, Behind
  <2>2. CASE Accepted(w) /\ disk' = Applied(w)
    BY <1>1, <1>2, <1>3, <1>4, <2>2 DEF RowInv, Behind
  <2> QED
    BY <1>5, <2>1, <2>2
<1>9. Waiting'
  <2> SUFFICES ASSUME ~failed', NEW m \in Markets, Settled(mirror.results[m])
               PROVE  disk'.results[m] = mirror.results[m] \/ OnItsWay(m)'
    BY <1>1 DEF Waiting
  <2>1. ~failed /\ Accepted(w) /\ disk' = Applied(w)
    BY WriteFields DEF RowInv, w
  <2>2. CASE disk.results[m] = mirror.results[m]
    BY <2>2, WriteKeepsSettled
  <2>3. CASE OnItsWay(m)
    <3>1. PICK k \in 1..Len(queue) :
            queue[k] = [kind |-> "result", market |-> m, val |-> mirror.results[m]]
      BY <2>3 DEF OnItsWay
    <3>2. CASE k = 1
      BY <1>3, <2>1, <3>1, <3>2 DEF w
    <3>3. CASE k # 1
      <4>1. k - 1 \in 1..Len(queue') /\ queue'[k - 1] = queue[k]
        <5>1. /\ Len(queue) \in Nat /\ Len(queue') = Len(queue) - 1
              /\ \A l \in 1..Len(queue') : queue'[l] = queue[l + 1]
          BY WriteFields DEF RowInv, TypeOK
        <5> QED
          BY <3>3, <5>1
      <4> QED
        BY <1>1, <3>1, <4>1 DEF OnItsWay
    <3> QED
      BY <3>2, <3>3
  <2> QED
    BY <2>1, <2>2, <2>3 DEF RowInv, Waiting
<1> QED
  BY <1>6, <1>7, <1>8, <1>9 DEF RowInv

LEMMA RowInvStep ==
  ASSUME TypeOK, RowInv, [Next]_vars
  PROVE  RowInv'
<1>1. CASE UNCHANGED rows
  BY <1>1 DEF rows, RowInv, EvidenceAgrees, Told, Behind, Waiting, OnItsWay
<1>2. CASE Hydrate
  <2>1. mirror' = disk /\ disk' = disk /\ queue' = <<>> /\ Len(<<>>) = 0
    BY <1>2 DEF Hydrate
  <2> QED
    BY <2>1 DEF RowInv, EvidenceAgrees, Told, Behind, Waiting
<1> QED
  BY <1>1, <1>2, RecordedKeeps, LockedKeeps, DeriveKeeps, WriteKeeps, RowSteps

-----------------------------------------------------------------------------
(* What was reported or served *)

LEMMA ShownStep ==
  ASSUME TypeOK, RowInv, ShownStands, [Next]_vars
  PROVE  ShownStands'
<1>1. CASE disk' = disk /\ shown' = shown
  BY <1>1 DEF ShownStands
<1>2. CASE Write \/ WriteFails
  <2>1. shown' = shown BY <1>2 DEF Write, WriteFails
  <2> QED BY <1>2, <2>1, WriteKeepsSettled DEF ShownStands
<1>3. CASE Serve \/ (Report /\ shown' # shown)
  <2>1. Clean /\ shown' = Known /\ disk' = disk
    BY <1>3 DEF Serve, Report, rows
  <2>2. \A m \in Markets : Settled(mirror.results[m]) => disk.results[m] = mirror.results[m]
    <3>1. queue = <<>> /\ ~failed /\ Len(<<>>) = 0 BY <2>1 DEF Clean, Drained
    <3> QED BY <3>1 DEF RowInv, Waiting, OnItsWay
  <2>3. \A m \in Markets : Known[m] = IF Settled(mirror.results[m]) THEN mirror.results[m] ELSE shown[m]
    BY DEF Known
  <2> HIDE DEF Known
  <2> QED
    BY <2>1, <2>2, <2>3 DEF ShownStands
<1> QED
  BY <1>1, <1>2, <1>3 DEF Next, Pass, vars, rows, Close, Publish, Call, Read, Crash, Quarantine, Hydrate, Recover,
    Tick, Walk, WalkFails, SweepRead, Swept, Flush, CalledRead, CalledThrows, Called, FlushAgain, Derive, Report

-----------------------------------------------------------------------------
(* Theorems *)

LEMMA InitIInv == Init => IInv
<1> SUFFICES ASSUME Init PROVE IInv
  OBVIOUS
<1>1. Nothing \in [Markets -> {"none"} \union Resolutions] /\ Nothing \in [Markets -> {"none", "PENDING"} \union Resolutions]
  BY DEF Nothing
<1>2. \A m \in Markets : Nothing[m] = "none" /\ ~Settled("none")
  BY DEF Nothing, Settled, Resolutions
<1>3. <<>> \in Seq(Writes) /\ <<>> \in Seq(Markets) /\ Len(<<>>) = 0 /\ 0 \in 0..N /\ 0 <= Budget
  BY ResultsAssumption
<1> HIDE DEF Nothing
<1>4. TypeOK
  <2>1. mirror \in Store /\ disk \in Store /\ shown \in [Markets -> {"none"} \union Resolutions]
    BY <1>1 DEF Init, Store
  <2>2. worker \in [at : Places, todo : Seq(Markets), bad : BOOLEAN] /\ Len(worker.todo) <= Budget
    BY <1>3 DEF Init, Idle, Places
  <2>3. /\ venue \in [Markets -> {"open", "closed"} \union Resolutions]
        /\ queue \in Seq(Writes) /\ failed \in BOOLEAN /\ troubled \in BOOLEAN
        /\ cursor \in [sweep : 0..N, called : 0..N]
    BY <1>3 DEF Init
  <2> QED
    BY <2>1, <2>2, <2>3 DEF TypeOK
<1>5. /\ mirror.evidence = Nothing /\ mirror.results = Nothing /\ disk = mirror
      /\ queue = <<>> /\ shown = Nothing
  BY DEF Init
<1>6. EvidenceAgrees /\ ShownStands /\ Behind /\ Waiting
  BY <1>2, <1>5 DEF EvidenceAgrees, ShownStands, Behind, Waiting
<1>7. Told
  BY <1>3, <1>5 DEF Told
<1> QED
  BY <1>4, <1>6, <1>7 DEF IInv

\* The inductive invariant holds in every reachable state, for any number of
\* markets and any budget.
THEOREM Invariance == Spec => []IInv
<1>1. IInv /\ [Next]_vars => IInv'
  <2> SUFFICES ASSUME IInv, [Next]_vars PROVE IInv'
    OBVIOUS
  <2>1. TypeOK /\ RowInv /\ ShownStands /\ Told
    BY DEF IInv, RowInv
  <2> QED
    BY <2>1, TypeStep, RowInvStep, ShownStep DEF IInv, RowInv
<1> QED
  BY <1>1, InitIInv, PTL DEF Spec

\* Every field keeps its range, and no slice is longer than its budget.
THEOREM ResultTypes == Spec => []TypeOK
<1>1. IInv => TypeOK
  BY DEF IInv
<1> QED
  BY <1>1, Invariance, PTL

\* A settled result is what the recorded evidence says, in memory and on disk.
THEOREM EvidenceAlwaysAgrees == Spec => []EvidenceAgrees
<1>1. IInv => EvidenceAgrees
  BY DEF IInv
<1> QED
  BY <1>1, Invariance, PTL

\* A result that was reported or served stands in Postgres, whatever writes
\* are lost and whenever the process restarts.
THEOREM ShownAlwaysStands == Spec => []ShownStands
<1>1. IInv => ShownStands
  BY DEF IInv
<1> QED
  BY <1>1, Invariance, PTL

-----------------------------------------------------------------------------
(* Money calls.  The rows are read in one step and used in another, so the  *)
(* invariant says, for every request, what the row it holds can still be    *)
(* and what it may already say of the stored one.                           *)

RequestPlaces ==
  {"idle", "inserted", "replay", "flush", "latest", "retire", "retiring", "current", "bump",
   "reserve", "build", "window", "end", "ended", "replace", "free", "fund", "funded"}
Errands == {"none", "quote", "keepFree", "discard", "sweep", "refuse", "notice"}
Marks ==
  {"none", "latest", "free", "done", "saved", "lost", "PREPARING", "QUOTED", "NONE", "PENDING",
   "EXPIRED", "FREE", "FUNDED"}
Request ==
  [at : RequestPlaces, op : Errands, row : RowType, wallet : Wallets, seen : Marks,
   reason : {"none", "ended", "discarded"}]
TradeType ==
  [state : {"NONE", "PREPARING", "QUOTED", "SUBMITTED", "FILLED", "FAILED"},
   wallet : Wallets, expires : Nat, signed : BOOLEAN]
SafeCalls == {c \in CallsType : ~ (c.call = "live" /\ c.free = "live")}

\* A row that exists has a current attempt.
Stored(r) == r \in RowType /\ (r.state # "NONE" => r.attempts \in Attempts)

\* Places a request reaches only with a row it read PENDING.
PendingPlaces ==
  {"inserted", "replay", "retire", "retiring", "current", "bump", "reserve", "build", "window",
   "end", "replace", "free"}
\* What request q holds, when r is the stored row.
Holds(q, r) ==
  /\ Stored(q.row)
  /\ q.at # "idle" => q.row.state # "NONE"
  /\ q.row.state # "NONE" => r.state # "NONE"
  /\ q.row.state = "FUNDED" => r.state = "FUNDED" /\ q.at \in {"ended", "funded", "flush"}
  /\ q.at \in PendingPlaces => q.row.state = "PENDING"
  /\ q.at = "flush" /\ q.seen \in {"latest", "free"} => q.row.state = "PENDING"
  /\ q.at = "latest" => q.row.state = "PENDING" \/ q.op = "sweep"
  /\ q.at \in {"current", "retire", "retiring"} => q.op \notin {"none", "notice"}

StoreInv == calls \in SafeCalls /\ durable \in SafeCalls /\ unflushed \in Seq(SafeCalls)
RowsInv ==
  /\ Stored(row) /\ Stored(index)
  /\ index.state # "FUNDED"
  /\ index.state # "NONE" => row.state # "NONE"
TradeInv == trade \in [Attempts -> TradeType]
RequestInv == proc \in [Procs -> Request] /\ \A p \in Procs : Holds(proc[p], row)
ClockInv == open \in BOOLEAN /\ now \in 0..MaxNow /\ faults \in 0..MaxFaults

MoneyIInv == StoreInv /\ RowsInv /\ TradeInv /\ RequestInv /\ ClockInv /\ EndedNeverBuys

AnyFill == \E a \in Attempts : trade[a].state = "FILLED"

\* What no step does to the stored row and to the index.
RowMoves ==
  /\ row.state # "NONE" => row'.state # "NONE"
  /\ row.state = "FUNDED" => row'.state = "FUNDED"
  /\ row'.state = "EXPIRED" => row.state = "EXPIRED" \/ (GuardExpired /\ trade' = trade)
  /\ row'.state = "FUNDED" => row.state = "FUNDED" \/ (AnyFill /\ trade' = trade)
IndexMoves == index.state # "NONE" /\ index'.state = "NONE" => row'.state = "FUNDED"

LEMMA MoneyConstants ==
  /\ 1 \in Attempts /\ Attempts \subseteq 0..MaxAttempts /\ Attempts \subseteq Nat
  /\ MaxNow \in Nat /\ MaxFaults \in Nat /\ Initial \in Nat /\ QuoteLife \in Nat /\ Grace \in Nat
  /\ NoRow \in RowType /\ NoRow.state = "NONE" /\ Stored(NoRow)
  /\ AtRest \in Request /\ AtRest.at = "idle" /\ AtRest.row = NoRow
<1>1. /\ 1 \in Attempts /\ Attempts \subseteq 0..MaxAttempts /\ Attempts \subseteq Nat
      /\ MaxNow \in Nat /\ MaxFaults \in Nat /\ Initial \in Nat /\ QuoteLife \in Nat /\ Grace \in Nat
      /\ 0 \in 0..MaxAttempts
  BY WindowAssumption DEF Attempts
<1>2. (CHOOSE w \in Wallets : TRUE) \in Wallets
  BY ProcessAssumption
<1>3. NoRow \in RowType /\ NoRow.state = "NONE" /\ Stored(NoRow)
  BY <1>1, <1>2 DEF NoRow, RowType, Stored
<1>4. AtRest \in Request /\ AtRest.at = "idle" /\ AtRest.row = NoRow
  BY <1>2, <1>3 DEF AtRest, Request, RequestPlaces, Errands, Marks, NoRow
<1> QED BY <1>1, <1>3, <1>4

-----------------------------------------------------------------------------
(* The calls and their queue *)

LEMMA WrittenSafely ==
  ASSUME StoreInv, NEW cs \in Seq(SafeCalls), cs # <<>>, WriteCalls(cs)
  PROVE  StoreInv'
<1>1. Len(cs) \in DOMAIN cs
  OBVIOUS
<1>2. cs[Len(cs)] \in SafeCalls
  BY <1>1
<1>3. unflushed \o cs \in Seq(SafeCalls)
  BY DEF StoreInv
<1> QED BY <1>2, <1>3 DEF StoreInv, WriteCalls

LEMMA LockSafely ==
  ASSUME StoreInv, NEW p, NEW place, LockOr(p, place)
  PROVE  StoreInv'
<1>1. CASE UNCHANGED store
  BY <1>1 DEF StoreInv, store
<1>2. ASSUME calls.free = "none", WriteCalls(<<[calls EXCEPT !.call = "live"]>>)
      PROVE  StoreInv'
  <2> DEFINE c == [calls EXCEPT !.call = "live"]
  <2>1. c \in SafeCalls
    BY <1>2 DEF StoreInv, SafeCalls, CallsType
  <2> HIDE DEF c
  <2>2. <<c>> \in Seq(SafeCalls) /\ <<c>> # <<>>
    BY <2>1
  <2>3. WriteCalls(<<c>>)
    BY <1>2 DEF c
  <2> QED BY <2>2, <2>3, WrittenSafely
<1> QED BY <1>1, <1>2 DEF LockOr

LEMMA ReplacedSafely ==
  ASSUME StoreInv, WriteCalls(ReplaceWrites(calls))
  PROVE  StoreInv'
<1> DEFINE c == [calls EXCEPT !.call = "kept"]
           d == [calls EXCEPT !.call = "kept", !.free = "live", !.counted = "free"]
<1>1. c \in SafeCalls /\ d \in SafeCalls
  BY DEF StoreInv, SafeCalls, CallsType
<1>2. WriteCalls(<<c, d>>)
  BY DEF ReplaceWrites
<1> HIDE DEF c, d
<1>3. <<c, d>> \in Seq(SafeCalls) /\ <<c, d>> # <<>>
  BY <1>1
<1> QED BY <1>2, <1>3, WrittenSafely

LEMMA PublishedSafely ==
  ASSUME StoreInv, NEW was, WriteCalls(<<Published(was)>>)
  PROVE  StoreInv'
<1>1. calls \in SafeCalls
  BY DEF StoreInv
<1> DEFINE restored == IF was = "EXPIRED" /\ calls.call \in {"expired", "kept"} /\ calls.free = "none"
                    THEN [calls EXCEPT !.call = "live"] ELSE calls
<1>2. restored \in SafeCalls
  BY <1>1 DEF SafeCalls, CallsType
<1>3. Published(was) = (IF restored.call # "none" /\ restored.counted = "none"
                        THEN [restored EXCEPT !.counted = "funded"] ELSE restored)
  BY DEF Published
<1> HIDE DEF restored
<1>4. Published(was) \in SafeCalls
  BY <1>2, <1>3 DEF SafeCalls, CallsType
<1>5. <<Published(was)>> \in Seq(SafeCalls) /\ <<Published(was)>> # <<>>
  BY <1>4
<1> QED BY <1>5, WrittenSafely

LEMMA EndedSafely ==
  ASSUME StoreInv, WriteCalls(<<[calls EXCEPT !.call = "expired"]>>)
  PROVE  StoreInv'
<1> DEFINE c == [calls EXCEPT !.call = "expired"]
<1>1. c \in SafeCalls
  BY DEF StoreInv, SafeCalls, CallsType
<1>2. WriteCalls(<<c>>)
  OBVIOUS
<1> HIDE DEF c
<1>3. <<c>> \in Seq(SafeCalls) /\ <<c>> # <<>>
  BY <1>1
<1> QED BY <1>2, <1>3, WrittenSafely

LEMMA StoreStep == StoreInv /\ [MoneyNext]_moneyVars => StoreInv'
<1> SUFFICES ASSUME StoreInv, [MoneyNext]_moneyVars PROVE StoreInv'
  OBVIOUS
<1>1. CASE UNCHANGED store
  BY <1>1 DEF StoreInv, store
<1>2. ASSUME NEW p \in Procs, Lock(p) \/ Replay(p) PROVE StoreInv'
  BY <1>2, LockSafely DEF Lock, Replay
<1>3. ASSUME NEW p \in Procs, Flushed(p) PROVE StoreInv'
  <2>1. durable' = calls /\ unflushed' = <<>> /\ calls' = calls
    BY <1>3 DEF Flushed
  <2> QED BY <2>1 DEF StoreInv
<1>4. ASSUME NEW p \in Procs, Ended(p) PROVE StoreInv'
  <2>1. WriteCalls(<<[calls EXCEPT !.call = "expired"]>>) \/ UNCHANGED store
    BY <1>4 DEF Ended
  <2> QED BY <1>1, <2>1, EndedSafely
<1>5. ASSUME NEW p \in Procs, Replace(p) PROVE StoreInv'
  <2>1. WriteCalls(ReplaceWrites(calls)) \/ UNCHANGED store
    BY <1>5 DEF Replace
  <2> QED BY <1>1, <2>1, ReplacedSafely
<1>6. ASSUME NEW p \in Procs, Funded(p) PROVE StoreInv'
  <2>1. WriteCalls(<<Published(proc[p].seen)>>) \/ UNCHANGED store
    BY <1>6 DEF Funded
  <2> QED BY <1>1, <2>1, PublishedSafely
<1>7. CASE Restart
  <2>1. PICK kept \in {durable} \union Range(unflushed) :
          calls' = kept /\ durable' = kept /\ unflushed' = <<>>
    BY <1>7 DEF Restart
  <2>2. kept \in SafeCalls
    BY DEF StoreInv, Range
  <2> QED BY <2>1, <2>2 DEF StoreInv
<1>8. ASSUME NEW p \in Procs, Step(p) PROVE StoreInv'
  <2>1. CASE UNCHANGED store
    BY <2>1, <1>1
  <2>2. \/ Lock(p) \/ Replay(p) \/ Flushed(p) \/ Ended(p) \/ Replace(p) \/ Funded(p)
        \/ UNCHANGED store
    BY <1>8 DEF Step, ReadLatest, Retire, Retiring, ReadCurrent, Bump, Reserve, Build, Window,
         End, Free, Fund
  <2> QED BY <2>1, <2>2, <1>2, <1>3, <1>4, <1>5, <1>6
<1>9. CASE \E p \in Procs : Step(p)
  BY <1>8, <1>9
<1>10. \/ \E p \in Procs : Step(p)
       \/ Restart \/ UNCHANGED store
  BY DEF MoneyNext, moneyVars, Insert, Retry, Choose, Notice, Sweep, Drop, Submit, Reconcile,
     ClockTick, CloseMarket
<1> QED BY <1>1, <1>7, <1>9, <1>10

-----------------------------------------------------------------------------
(* The trades *)

\* What a request that is not at rest knows of its row.
LEMMA HeldRow ==
  ASSUME RequestInv, NEW p \in Procs
  PROVE  /\ proc[p] \in Request /\ Mine(p) \in RowType /\ Stored(Mine(p)) /\ Holds(proc[p], row)
         /\ proc[p].at # "idle" => Mine(p).attempts \in Attempts /\ Mine(p).state # "NONE"
                                   /\ row.state # "NONE"
BY DEF RequestInv, Request, Mine, Holds, Stored

LEMMA TradeChanged ==
  ASSUME TradeInv, NEW a \in Attempts, NEW t \in TradeType, trade' = [trade EXCEPT ![a] = t]
  PROVE  TradeInv' /\ trade'[a] = t /\ \A b \in Attempts : b # a => trade'[b] = trade[b]
BY DEF TradeInv

LEMMA TradeState ==
  ASSUME TradeInv, NEW a \in Attempts, NEW s \in {"FAILED", "FILLED"},
         trade' = [trade EXCEPT ![a].state = s]
  PROVE  /\ TradeInv' /\ trade'[a].state = s /\ trade'[a].wallet = trade[a].wallet
         /\ \A b \in Attempts : b # a => trade'[b] = trade[b]
<1> DEFINE t == [state |-> s, wallet |-> trade[a].wallet, expires |-> trade[a].expires,
                 signed |-> trade[a].signed]
<1>1. trade[a] \in TradeType
  BY DEF TradeInv
<1>2. t \in TradeType /\ t.state = s /\ [trade[a] EXCEPT !.state = s] = t
  BY <1>1 DEF TradeType
<1>3. trade' = [trade EXCEPT ![a] = t]
  BY <1>1, <1>2
<1>4. t.wallet = trade[a].wallet
  OBVIOUS
<1> HIDE DEF t
<1> QED BY <1>2, <1>3, <1>4, TradeChanged

\* A buy begins only on a pending call, with a wallet no other buy is going through
\* with, and keeps its wallet.
BuyBegins(a) ==
  /\ row.state = "PENDING" /\ row' = row
  /\ ~BuyingWith(trade[a].wallet)
  /\ \A b \in Attempts : b # a => trade'[b] = trade[b]
TradeMoves ==
  \A a \in Attempts : Buying(a)' =>
    trade'[a].wallet = trade[a].wallet /\ (Buying(a) \/ BuyBegins(a))

LEMMA TradeSame ==
  ASSUME TradeInv, trade' = trade
  PROVE  TradeInv' /\ TradeMoves
BY DEF TradeInv, TradeMoves, Buying

LEMMA RetiringTrade ==
  ASSUME TradeInv, RequestInv, NEW p \in Procs, Retiring(p)
  PROVE  TradeInv' /\ TradeMoves
<1>1. CASE trade' = trade
  BY <1>1, TradeSame
<1>2. CASE trade' = [trade EXCEPT ![Mine(p).attempts].state = "FAILED"]
  <2>1. PICK a \in Attempts : a = Mine(p).attempts
    BY HeldRow DEF Retiring, At
  <2>2. /\ TradeInv' /\ trade'[a].state = "FAILED"
        /\ \A b \in Attempts : b # a => trade'[b] = trade[b]
    BY <1>2, <2>1, TradeState
  <2> QED BY <2>2 DEF TradeMoves, Buying
<1> QED BY <1>1, <1>2 DEF Retiring

LEMMA ReserveTrade ==
  ASSUME TradeInv, RequestInv, NEW p \in Procs, Reserve(p)
  PROVE  TradeInv' /\ TradeMoves
<1>1. CASE trade' = trade
  BY <1>1, TradeSame
<1>2. CASE trade' # trade
  <2>1. PICK a \in Attempts : a = Mine(p).attempts
    BY HeldRow DEF Reserve, At
  <2> DEFINE t == [state |-> "PREPARING", wallet |-> proc[p].wallet, expires |-> trade[a].expires,
                   signed |-> trade[a].signed]
  <2>2. trade' = [trade EXCEPT ![a].state = "PREPARING", ![a].wallet = proc[p].wallet]
    BY <1>2, <2>1 DEF Reserve
  <2>3. trade[a] \in TradeType /\ proc[p].wallet \in Wallets
    BY HeldRow DEF TradeInv, Request
  <2>4. t \in TradeType /\ t.state = "PREPARING"
    BY <2>3 DEF TradeType
  <2>5. PICK s : s = trade[a]
    OBVIOUS
  <2>6. PICK u : u = [s EXCEPT !.state = "PREPARING", !.wallet = proc[p].wallet]
    OBVIOUS
  <2>7. u = t
    BY <2>3, <2>5, <2>6 DEF TradeType
  <2>8. trade' = [trade EXCEPT ![a] = t]
    BY <2>2, <2>5, <2>6, <2>7 DEF TradeInv
  <2> HIDE DEF t
  <2>9. TradeInv' /\ trade'[a] = t /\ \A b \in Attempts : b # a => trade'[b] = trade[b]
    BY <2>4, <2>8, TradeChanged
  <2> QED BY <2>4, <2>9 DEF TradeMoves, Buying
<1> QED BY <1>1, <1>2

LEMMA BuildTrade ==
  ASSUME TradeInv, RequestInv, ClockInv, NEW p \in Procs, Build(p)
  PROVE  TradeInv' /\ TradeMoves
<1>0. PICK a \in Attempts : a = Mine(p).attempts
  BY HeldRow DEF Build, At
<1>1. CASE trade' = trade
  BY <1>1, TradeSame
<1>2. CASE trade' = [trade EXCEPT ![a].state = "FAILED"]
  <2>1. /\ TradeInv' /\ trade'[a].state = "FAILED"
        /\ \A b \in Attempts : b # a => trade'[b] = trade[b]
    BY <1>2, TradeState
  <2> QED BY <2>1 DEF TradeMoves, Buying
<1>3. CASE trade' = [trade EXCEPT ![a].state = "QUOTED", ![a].expires = now + QuoteLife]
  <2> DEFINE t == [state |-> "QUOTED", wallet |-> trade[a].wallet, expires |-> now + QuoteLife,
                   signed |-> trade[a].signed]
  <2>1. trade[a] \in TradeType /\ now + QuoteLife \in Nat
    BY MoneyConstants DEF TradeInv, ClockInv
  <2>2. t \in TradeType /\ t.state = "QUOTED"
    BY <2>1 DEF TradeType
  <2>3. PICK s : s = trade[a]
    OBVIOUS
  <2>4. PICK u : u = [s EXCEPT !.state = "QUOTED", !.expires = now + QuoteLife]
    OBVIOUS
  <2>5. u = t
    BY <2>1, <2>3, <2>4 DEF TradeType
  <2>6. trade' = [trade EXCEPT ![a] = t]
    BY <1>3, <2>3, <2>4, <2>5 DEF TradeInv
  <2> HIDE DEF t
  <2>7. TradeInv' /\ trade'[a] = t /\ \A b \in Attempts : b # a => trade'[b] = trade[b]
    BY <2>2, <2>6, TradeChanged
  <2> QED BY <2>2, <2>7 DEF TradeMoves, Buying
<1> QED BY <1>0, <1>1, <1>2, <1>3 DEF Build

LEMMA SubmitTrade ==
  ASSUME TradeInv, NEW a \in Attempts, Submit(a)
  PROVE  TradeInv' /\ TradeMoves
<1> DEFINE t == [state |-> "SUBMITTED", wallet |-> trade[a].wallet, expires |-> trade[a].expires,
                 signed |-> TRUE]
<1>1. trade[a] \in TradeType
  BY DEF TradeInv
<1>2. t \in TradeType
  BY <1>1 DEF TradeType
<1>3. PICK s : s = trade[a]
  OBVIOUS
<1>4. PICK u : u = [s EXCEPT !.state = "SUBMITTED", !.signed = TRUE]
  OBVIOUS
<1>5. u = t
  BY <1>1, <1>3, <1>4 DEF TradeType
<1>6. trade' = [trade EXCEPT ![a] = t]
  BY <1>3, <1>4, <1>5 DEF TradeInv, Submit
<1>7. t.wallet = trade[a].wallet
  OBVIOUS
<1> HIDE DEF t
<1>8. /\ TradeInv' /\ trade'[a].wallet = trade[a].wallet
      /\ \A b \in Attempts : b # a => trade'[b] = trade[b]
  BY <1>2, <1>6, <1>7, TradeChanged
<1>9. BuyBegins(a)
  BY <1>8 DEF BuyBegins, Submit, TradeGuard, Tradable
<1> QED BY <1>8, <1>9 DEF TradeMoves, Buying

LEMMA ReconcileTrade ==
  ASSUME TradeInv, NEW a \in Attempts, Reconcile(a)
  PROVE  TradeInv' /\ TradeMoves
<1>1. PICK s \in {"FILLED", "FAILED"} : trade' = [trade EXCEPT ![a].state = s]
  BY DEF Reconcile
<1>2. /\ TradeInv' /\ trade'[a].wallet = trade[a].wallet
      /\ \A b \in Attempts : b # a => trade'[b] = trade[b]
  BY <1>1, TradeState
<1>3. Buying(a)
  BY DEF Reconcile, Buying
<1> QED BY <1>2, <1>3 DEF TradeMoves, Buying

LEMMA TradeStep ==
  TradeInv /\ RequestInv /\ ClockInv /\ [MoneyNext]_moneyVars => TradeInv' /\ TradeMoves
<1> SUFFICES ASSUME TradeInv, RequestInv, ClockInv, [MoneyNext]_moneyVars
             PROVE  TradeInv' /\ TradeMoves
  OBVIOUS
<1>1. CASE trade' = trade
  BY <1>1, TradeSame
<1>2. ASSUME NEW p \in Procs, Step(p) PROVE TradeInv' /\ TradeMoves
  <2>1. Retiring(p) \/ Reserve(p) \/ Build(p) \/ trade' = trade
    BY <1>2 DEF Step, Lock, Replay, Flushed, ReadLatest, Retire, ReadCurrent, Bump, Window,
       End, Ended, Replace, Free, Fund, Funded
  <2> QED BY <1>1, <2>1, RetiringTrade, ReserveTrade, BuildTrade
<1>3. ASSUME NEW a \in Attempts, Submit(a) \/ Reconcile(a) PROVE TradeInv' /\ TradeMoves
  BY <1>3, SubmitTrade, ReconcileTrade
<1>4. \/ \E p \in Procs : Step(p)
      \/ \E a \in Attempts : Submit(a) \/ Reconcile(a)
      \/ trade' = trade
  BY DEF MoneyNext, moneyVars, Insert, Retry, Choose, Notice, Sweep, Drop, ClockTick, CloseMarket,
     Restart
<1> QED BY <1>1, <1>2, <1>3, <1>4

-----------------------------------------------------------------------------
(* The stored row and the index *)

RowKept == RowsInv' /\ RowMoves /\ IndexMoves

LEMMA PutRow ==
  ASSUME NEW r, Stored(r), r.state # "NONE", Put(r)
  PROVE  /\ Stored(index)' /\ index'.state # "FUNDED"
         /\ index'.state = "NONE" => r.state = "FUNDED"
BY MoneyConstants DEF Put, Stored

\* A step that leaves the row and the index alone.
LEMMA RowsSame ==
  ASSUME RowsInv, row' = row, index' = index
  PROVE  RowKept
BY DEF RowKept, RowsInv, RowMoves, IndexMoves, Stored

\* A row put in the index while the stored row stays.
LEMMA OnlyPut ==
  ASSUME RowsInv, NEW r, Stored(r), r.state # "NONE", row.state # "NONE",
         r.state = "FUNDED" => row.state = "FUNDED", row' = row, Put(r)
  PROVE  RowKept
<1>1. /\ Stored(index)' /\ index'.state # "FUNDED"
      /\ index'.state = "NONE" => r.state = "FUNDED"
  BY PutRow
<1> QED BY <1>1 DEF RowKept, RowsInv, RowMoves, IndexMoves, Stored

\* A row that is stored and put in the index.
LEMMA StoredAndPut ==
  ASSUME RowsInv, NEW r, Stored(r), r.state = row.state, row.state # "NONE",
         row' = r, Put(row')
  PROVE  RowKept
<1>1. Put(r)
  BY DEF Put
<1>2. /\ Stored(index)' /\ index'.state # "FUNDED"
      /\ index'.state = "NONE" => r.state = "FUNDED"
  BY <1>1, PutRow
<1> QED BY <1>2 DEF RowKept, RowsInv, RowMoves, IndexMoves, Stored

LEMMA InsertRow ==
  ASSUME RowsInv, ClockInv, NEW p, NEW w \in Wallets, Insert(p, w)
  PROVE  RowKept
<1>1. row' = [state |-> "PENDING", reason |-> "none", attempts |-> 1, wallet |-> w,
              expires |-> now + Initial] /\ index' = index /\ row.state = "NONE"
  BY DEF Insert
<1>2. now + Initial \in Nat
  BY MoneyConstants DEF ClockInv
<1>3. Stored(row)' /\ row'.state = "PENDING"
  BY <1>1, <1>2, MoneyConstants DEF Stored, RowType
<1> QED BY <1>1, <1>3 DEF RowKept, RowsInv, RowMoves, IndexMoves, Stored

LEMMA LockRow ==
  ASSUME RowsInv, RequestInv, NEW p \in Procs, Lock(p)
  PROVE  RowKept
<1>1. /\ Stored(Mine(p)) /\ Mine(p).state = "PENDING" /\ row.state # "NONE"
      /\ row' = row /\ Put(Mine(p))
  BY HeldRow DEF Lock, At, Holds, PendingPlaces, Mine
<1> QED BY <1>1, OnlyPut

LEMMA BumpRow ==
  ASSUME RowsInv, RequestInv, NEW p \in Procs, Bump(p)
  PROVE  RowKept
<1>1. CASE row' = row /\ index' = index
  BY <1>1, RowsSame
<1>2. CASE Matches(p)
  <2> DEFINE r == [state |-> row.state, reason |-> row.reason, attempts |-> row.attempts + 1,
                   wallet |-> proc[p].wallet, expires |-> row.expires]
  <2>1. /\ row \in RowType /\ row.state # "NONE" /\ row.attempts \in Attempts
        /\ proc[p].wallet \in Wallets /\ row.attempts < MaxAttempts
    BY HeldRow DEF Bump, At, RowsInv, Stored, Request
  <2>2. row' = [row EXCEPT !.attempts = @ + 1, !.wallet = proc[p].wallet] /\ Put(row')
    BY <1>2 DEF Bump
  <2>3. row.attempts + 1 \in Attempts /\ row.attempts + 1 \in 0..MaxAttempts
    BY <2>1, WindowAssumption DEF Attempts
  <2>4. row' = r
    BY <2>1, <2>2 DEF RowType
  <2>5. Stored(r) /\ r.state = row.state
    BY <2>1, <2>3 DEF Stored, RowType
  <2> HIDE DEF r
  <2> QED BY <2>1, <2>2, <2>4, <2>5, StoredAndPut
<1> QED BY <1>1, <1>2 DEF Bump

LEMMA WindowRow ==
  ASSUME RowsInv, RequestInv, TradeInv, NEW p \in Procs, Window(p)
  PROVE  RowKept
<1>1. CASE row' = row /\ index' = index
  BY <1>1, RowsSame
<1>2. CASE SetsWindow(p) /\ Matches(p)
  <2> DEFINE e == Session(p).expires + Grace
             r == [state |-> row.state, reason |-> row.reason, attempts |-> row.attempts,
                   wallet |-> row.wallet, expires |-> e]
  <2>1. /\ row \in RowType /\ row.state # "NONE" /\ row.attempts \in Attempts
        /\ Mine(p).attempts \in Attempts
    BY HeldRow DEF Window, At, RowsInv, Stored
  <2>2. row' = [row EXCEPT !.expires = e] /\ Put(row')
    BY <1>2 DEF Window
  <2>3. e \in Nat
    <3>1. Session(p) \in TradeType
      BY <2>1 DEF TradeInv, Session
    <3>2. Session(p).expires \in Nat /\ Grace \in Nat
      BY <3>1, MoneyConstants DEF TradeType
    <3> QED BY <3>2
  <2> HIDE DEF e
  <2>4. row' = r
    BY <2>1, <2>2 DEF RowType
  <2>5. Stored(r) /\ r.state = row.state
    BY <2>1, <2>3 DEF Stored, RowType
  <2> HIDE DEF r
  <2> QED BY <2>1, <2>2, <2>4, <2>5, StoredAndPut
<1> QED BY <1>1, <1>2 DEF Window

\* A row that ends, is freed or is funded.
LEMMA RowState ==
  ASSUME Stored(row), row.state # "NONE", NEW s \in {"EXPIRED", "FREE", "FUNDED"},
         NEW why \in {"none", "ended", "discarded", "kept_free", "filled"}, NEW r,
         r = [row EXCEPT !.state = s, !.reason = why]
  PROVE  Stored(r) /\ r.state = s
<1> DEFINE q == [state |-> s, reason |-> why, attempts |-> row.attempts, wallet |-> row.wallet,
                 expires |-> row.expires]
<1>1. row \in RowType /\ row.attempts \in Attempts
  BY DEF Stored
<1>2. r = q
  BY <1>1 DEF RowType
<1>3. Stored(q) /\ q.state = s
  BY <1>1 DEF Stored, RowType
<1> HIDE DEF q
<1> QED BY <1>2, <1>3

LEMMA EndRow ==
  ASSUME RowsInv, RequestInv, NEW p \in Procs, End(p)
  PROVE  RowKept
<1>1. CASE row' = row
  BY <1>1, RowsSame DEF End
<1>2. CASE row' # row
  <2>1. /\ row' = [row EXCEPT !.state = "EXPIRED", !.reason = proc[p].reason]
        /\ row.state = "PENDING" /\ GuardExpired /\ trade' = trade /\ index' = index
    BY <1>2 DEF End
  <2>2. proc[p].reason \in {"none", "ended", "discarded"}
    BY HeldRow DEF Request
  <2>3. Stored(row') /\ row'.state = "EXPIRED"
    <3>1. Stored(row) /\ row.state # "NONE"
      BY <2>1 DEF RowsInv
    <3>2. proc[p].reason \in {"none", "ended", "discarded", "kept_free", "filled"}
      BY <2>2
    <3>3. row' = [row EXCEPT !.state = "EXPIRED", !.reason = proc[p].reason]
      BY <2>1
    <3>4. "EXPIRED" \in {"EXPIRED", "FREE", "FUNDED"}
      OBVIOUS
    <3> QED BY ONLY <3>1, <3>2, <3>3, <3>4, RowState
  <2> QED BY <2>1, <2>3 DEF RowKept, RowsInv, RowMoves, IndexMoves, Stored
<1> QED BY <1>1, <1>2

LEMMA EndedRow ==
  ASSUME RowsInv, RequestInv, NEW p \in Procs, Ended(p)
  PROVE  RowKept
<1>1. /\ Stored(Mine(p)) /\ Mine(p).state # "NONE" /\ row.state # "NONE"
      /\ Mine(p).state = "FUNDED" => row.state = "FUNDED"
      /\ row' = row /\ Put(Mine(p))
  BY HeldRow DEF Ended, At, Holds, Mine
<1> QED BY <1>1, OnlyPut

LEMMA FreeRow ==
  ASSUME RowsInv, RequestInv, NEW p \in Procs, Free(p)
  PROVE  RowKept
<1>1. Mine(p).state = "PENDING" /\ row.state # "NONE" /\ Put(row')
  BY HeldRow DEF Free, At, Holds, PendingPlaces, Mine
<1>2. CASE row' = row
  <2>1. Put(row) /\ Stored(row)
    BY <1>1, <1>2 DEF Put, RowsInv
  <2> QED BY <1>1, <1>2, <2>1, OnlyPut
<1>3. CASE row' # row
  <2>1. row' = [row EXCEPT !.state = "FREE", !.reason = "kept_free"] /\ row.state = "PENDING"
    BY <1>1, <1>3 DEF Free, Matches
  <2>2. Stored(row') /\ row'.state = "FREE"
    BY <2>1, RowState DEF RowsInv
  <2>3. /\ Stored(index)' /\ index'.state # "FUNDED"
        /\ index'.state = "NONE" => row'.state = "FUNDED"
    BY <1>1, <2>2, PutRow
  <2> QED BY <2>1, <2>2, <2>3 DEF RowKept, RowsInv, RowMoves, IndexMoves, Stored
<1> QED BY <1>2, <1>3

LEMMA FundRow ==
  ASSUME RowsInv, RequestInv, NEW p \in Procs, Fund(p)
  PROVE  RowKept
<1>1. CASE row' = row
  BY <1>1, RowsSame DEF Fund
<1>2. CASE row' # row
  <2>1. /\ row' = [row EXCEPT !.state = "FUNDED", !.reason = "filled"]
        /\ row.state # "NONE" /\ index' = index /\ AnyFill /\ trade' = trade
    BY <1>2, HeldRow DEF Fund, At, GuardFunded, AnyFill
  <2>2. Stored(row') /\ row'.state = "FUNDED"
    BY <2>1, RowState DEF RowsInv
  <2> QED BY <2>1, <2>2 DEF RowKept, RowsInv, RowMoves, IndexMoves, Stored
<1> QED BY <1>1, <1>2

LEMMA FundedRow ==
  ASSUME RowsInv, RequestInv, NEW p \in Procs, Funded(p)
  PROVE  RowKept
<1>1. /\ Stored(Mine(p)) /\ Mine(p).state # "NONE" /\ row.state # "NONE"
      /\ Mine(p).state = "FUNDED" => row.state = "FUNDED"
      /\ row' = row /\ Put(Mine(p))
  BY HeldRow DEF Funded, At, Holds, Mine
<1> QED BY <1>1, OnlyPut

LEMMA RestartRow ==
  ASSUME RowsInv, Restart
  PROVE  RowKept
<1>1. row' = row /\ index' = Hydrated
  BY DEF Restart
<1>2. /\ Stored(index)' /\ index'.state # "FUNDED"
      /\ index'.state # "NONE" => row.state # "NONE"
      /\ row.state \notin {"NONE", "FUNDED"} => index'.state # "NONE"
  BY <1>1, MoneyConstants DEF Hydrated, RowsInv, Stored, RowType
<1> QED BY <1>1, <1>2 DEF RowKept, RowsInv, RowMoves, IndexMoves, Stored

LEMMA RowStep ==
  RowsInv /\ RequestInv /\ TradeInv /\ ClockInv /\ [MoneyNext]_moneyVars => RowKept
<1> SUFFICES ASSUME RowsInv, RequestInv, TradeInv, ClockInv, [MoneyNext]_moneyVars
             PROVE  RowKept
  OBVIOUS
<1>1. CASE row' = row /\ index' = index
  BY <1>1, RowsSame
<1>2. ASSUME NEW p \in Procs, Step(p) PROVE RowKept
  <2>1. \/ Lock(p) \/ Bump(p) \/ Window(p) \/ End(p) \/ Ended(p) \/ Free(p) \/ Fund(p)
        \/ Funded(p)
        \/ row' = row /\ index' = index
    BY <1>2 DEF Step, Replay, Flushed, ReadLatest, Retire, Retiring, ReadCurrent, Reserve, Build,
       Replace
  <2> QED BY <1>1, <2>1, LockRow, BumpRow, WindowRow, EndRow, EndedRow, FreeRow, FundRow, FundedRow
<1>3. ASSUME NEW p \in Requests, NEW w \in Wallets, Insert(p, w) PROVE RowKept
  BY <1>3, InsertRow
<1>4. \/ \E p \in Procs : Step(p)
      \/ \E p \in Requests, w \in Wallets : Insert(p, w)
      \/ Restart
      \/ row' = row /\ index' = index
  BY DEF MoneyNext, moneyVars, Retry, Choose, Notice, Sweep, Drop, ClockTick, CloseMarket,
     Submit, Reconcile
<1> QED BY <1>1, <1>2, <1>3, <1>4, RestartRow

-----------------------------------------------------------------------------
(* The requests *)

\* A request that changes, the others holding what they held.
LEMMA Becomes ==
  ASSUME RequestInv, RowMoves, NEW p \in Procs, NEW q \in Request,
         proc' = [proc EXCEPT ![p] = q], Holds(q, row')
  PROVE  RequestInv'
<1>1. ASSUME NEW t \in Procs PROVE Holds(proc[t], row')
  <2>1. Holds(proc[t], row)
    BY DEF RequestInv
  <2> QED BY <2>1 DEF Holds, RowMoves
<1>2. proc \in [Procs -> Request]
  BY DEF RequestInv
<1>3. proc' \in [Procs -> Request] /\ \A t \in Procs : proc'[t] = (IF t = p THEN q ELSE proc[t])
  BY <1>2
<1>4. \A t \in Procs : Holds(proc'[t], row')
  BY <1>1, <1>3
<1> QED BY <1>3, <1>4 DEF RequestInv

LEMMA RequestsSame ==
  ASSUME RequestInv, RowMoves, proc' = proc
  PROVE  RequestInv'
<1>1. ASSUME NEW t \in Procs PROVE Holds(proc[t], row')
  <2>1. Holds(proc[t], row)
    BY DEF RequestInv
  <2> QED BY <2>1 DEF Holds, RowMoves
<1> QED BY <1>1 DEF RequestInv

LEMMA Rests ==
  ASSUME RequestInv, RowMoves, NEW p \in Procs, Done(p)
  PROVE  RequestInv'
<1>1. AtRest \in Request /\ Holds(AtRest, row')
  BY MoneyConstants DEF Holds, PendingPlaces
<1> QED BY <1>1, Becomes DEF Done

\* The fields of a request that moves.
LEMMA AtSeen ==
  ASSUME RequestInv, NEW p \in Procs, NEW x, NEW y,
         proc' = [proc EXCEPT ![p].at = x, ![p].seen = y]
  PROVE  proc' = [proc EXCEPT ![p] =
           [at |-> x, op |-> proc[p].op, row |-> Mine(p), wallet |-> proc[p].wallet, seen |-> y,
            reason |-> proc[p].reason]]
<1>1. PICK s : s = proc[p]
  OBVIOUS
<1>2. PICK u : u = [s EXCEPT !.at = x, !.seen = y]
  OBVIOUS
<1>3. s \in Request
  BY <1>1 DEF RequestInv
<1>4. u = [at |-> x, op |-> s.op, row |-> s.row, wallet |-> s.wallet, seen |-> y, reason |-> s.reason]
  BY <1>2, <1>3 DEF Request
<1> QED BY <1>1, <1>2, <1>4 DEF RequestInv, Mine

LEMMA AtReason ==
  ASSUME RequestInv, NEW p \in Procs, NEW x, NEW y,
         proc' = [proc EXCEPT ![p].at = x, ![p].reason = y]
  PROVE  proc' = [proc EXCEPT ![p] =
           [at |-> x, op |-> proc[p].op, row |-> Mine(p), wallet |-> proc[p].wallet,
            seen |-> proc[p].seen, reason |-> y]]
<1>1. PICK s : s = proc[p]
  OBVIOUS
<1>2. PICK u : u = [s EXCEPT !.at = x, !.reason = y]
  OBVIOUS
<1>3. s \in Request
  BY <1>1 DEF RequestInv
<1>4. u = [at |-> x, op |-> s.op, row |-> s.row, wallet |-> s.wallet, seen |-> s.seen, reason |-> y]
  BY <1>2, <1>3 DEF Request
<1> QED BY <1>1, <1>2, <1>4 DEF RequestInv, Mine

LEMMA AtOp ==
  ASSUME RequestInv, NEW p \in Procs, NEW x, NEW y,
         proc' = [proc EXCEPT ![p].at = x, ![p].op = y]
  PROVE  proc' = [proc EXCEPT ![p] =
           [at |-> x, op |-> y, row |-> Mine(p), wallet |-> proc[p].wallet,
            seen |-> proc[p].seen, reason |-> proc[p].reason]]
<1>1. PICK s : s = proc[p]
  OBVIOUS
<1>2. PICK u : u = [s EXCEPT !.at = x, !.op = y]
  OBVIOUS
<1>3. s \in Request
  BY <1>1 DEF RequestInv
<1>4. u = [at |-> x, op |-> y, row |-> s.row, wallet |-> s.wallet, seen |-> s.seen, reason |-> s.reason]
  BY <1>2, <1>3 DEF Request
<1> QED BY <1>1, <1>2, <1>4 DEF RequestInv, Mine

LEMMA AtRow ==
  ASSUME RequestInv, NEW p \in Procs, NEW x, NEW r,
         proc' = [proc EXCEPT ![p].at = x, ![p].row = r]
  PROVE  proc' = [proc EXCEPT ![p] =
           [at |-> x, op |-> proc[p].op, row |-> r, wallet |-> proc[p].wallet,
            seen |-> proc[p].seen, reason |-> proc[p].reason]]
<1>1. PICK s : s = proc[p]
  OBVIOUS
<1>2. PICK u : u = [s EXCEPT !.at = x, !.row = r]
  OBVIOUS
<1>3. s \in Request
  BY <1>1 DEF RequestInv
<1>4. u = [at |-> x, op |-> s.op, row |-> r, wallet |-> s.wallet, seen |-> s.seen, reason |-> s.reason]
  BY <1>2, <1>3 DEF Request
<1> QED BY <1>1, <1>2, <1>4 DEF RequestInv

LEMMA AtRowSeen ==
  ASSUME RequestInv, NEW p \in Procs, NEW x, NEW r, NEW y,
         proc' = [proc EXCEPT ![p].at = x, ![p].row = r, ![p].seen = y]
  PROVE  proc' = [proc EXCEPT ![p] =
           [at |-> x, op |-> proc[p].op, row |-> r, wallet |-> proc[p].wallet,
            seen |-> y, reason |-> proc[p].reason]]
<1>1. PICK s : s = proc[p]
  OBVIOUS
<1>2. PICK u : u = [s EXCEPT !.at = x, !.row = r, !.seen = y]
  OBVIOUS
<1>3. s \in Request
  BY <1>1 DEF RequestInv
<1>4. u = [at |-> x, op |-> s.op, row |-> r, wallet |-> s.wallet, seen |-> y, reason |-> s.reason]
  BY <1>2, <1>3 DEF Request
<1> QED BY <1>1, <1>2, <1>4 DEF RequestInv

\* A request may be at place, with row r and on errand op.
Fits(place, r, op) ==
  /\ Stored(r) /\ r.state # "NONE"
  /\ r.state = "FUNDED" => place \in {"ended", "funded", "flush"}
  /\ place \in PendingPlaces => r.state = "PENDING"
  /\ place = "latest" => r.state = "PENDING" \/ op = "sweep"
  /\ place \in {"current", "retire", "retiring"} => op \notin {"none", "notice"}

LEMMA Goes ==
  ASSUME RequestInv, RowMoves, NEW p \in Procs,
         NEW place \in RequestPlaces, NEW op \in Errands, NEW r, NEW w \in Wallets,
         NEW seen \in Marks, NEW why \in {"none", "ended", "discarded"},
         proc' = [proc EXCEPT ![p] = [at |-> place, op |-> op, row |-> r, wallet |-> w,
                                      seen |-> seen, reason |-> why]],
         Fits(place, r, op), row'.state # "NONE", r.state = "FUNDED" => row'.state = "FUNDED",
         place = "flush" /\ seen \in {"latest", "free"} => r.state = "PENDING"
  PROVE  RequestInv'
<1> DEFINE q == [at |-> place, op |-> op, row |-> r, wallet |-> w, seen |-> seen, reason |-> why]
<1>1. q \in Request
  BY DEF Fits, Stored, Request
<1>2. Holds(q, row')
  BY DEF Fits, Holds
<1>3. proc' = [proc EXCEPT ![p] = q]
  OBVIOUS
<1> HIDE DEF q
<1> QED BY <1>1, <1>2, <1>3, Becomes

LEMMA Moves ==
  ASSUME RequestInv, RowMoves, NEW p \in Procs, proc[p].at # "idle",
         NEW place \in RequestPlaces, MoveTo(p, place), Fits(place, Mine(p), proc[p].op)
  PROVE  RequestInv'
<1>1. proc' = [proc EXCEPT ![p] =
        [at |-> place, op |-> proc[p].op, row |-> Mine(p), wallet |-> proc[p].wallet,
         seen |-> "none", reason |-> proc[p].reason]]
  BY AtSeen DEF MoveTo
<1>2. /\ proc[p].op \in Errands /\ proc[p].wallet \in Wallets
      /\ proc[p].reason \in {"none", "ended", "discarded"} /\ "none" \in Marks
  BY HeldRow DEF Request, Marks
<1>3. row'.state # "NONE" /\ (Mine(p).state = "FUNDED" => row'.state = "FUNDED")
  BY HeldRow DEF Holds, RowMoves, Mine
<1>4. "none" \notin {"latest", "free"}
  OBVIOUS
<1> QED BY <1>1, <1>2, <1>3, <1>4, Goes

LEMMA Begins ==
  ASSUME RequestInv, RowMoves, NEW p \in Procs,
         NEW place \in RequestPlaces \ {"flush"}, NEW op \in Errands, NEW r, NEW w \in Wallets,
         Begin(p, place, op, r, w), Fits(place, r, op), row'.state # "NONE", r.state # "FUNDED"
  PROVE  RequestInv'
<1>1. PICK u : u = [AtRest EXCEPT !.at = place, !.op = op, !.row = r, !.wallet = w]
  OBVIOUS
<1>2. AtRest \in Request
  BY MoneyConstants
<1>3. u = [at |-> place, op |-> op, row |-> r, wallet |-> w, seen |-> AtRest.seen,
           reason |-> AtRest.reason]
  BY <1>1, <1>2 DEF Request
<1>4. AtRest.seen \in Marks /\ AtRest.reason \in {"none", "ended", "discarded"}
  BY <1>2 DEF Request
<1>5. proc' = [proc EXCEPT ![p] = [at |-> place, op |-> op, row |-> r, wallet |-> w,
                                   seen |-> AtRest.seen, reason |-> AtRest.reason]]
  BY <1>1, <1>3 DEF Begin
<1> QED BY <1>4, <1>5, Goes

\* What a request that is somewhere with a row it read PENDING holds.
LEMMA HeldPending ==
  ASSUME RequestInv, NEW p \in Procs, proc[p].at \in PendingPlaces
  PROVE  /\ proc[p].at # "idle" /\ Stored(Mine(p)) /\ Mine(p).state = "PENDING"
         /\ row.state # "NONE"
BY HeldRow DEF Holds, Mine, PendingPlaces

\* The fields of a request, as they are kept when it moves.
LEMMA HeldFields ==
  ASSUME RequestInv, NEW p \in Procs
  PROVE  /\ proc[p].op \in Errands /\ proc[p].wallet \in Wallets /\ proc[p].seen \in Marks
         /\ proc[p].reason \in {"none", "ended", "discarded"}
BY HeldRow DEF Request

LEMMA InsertRequest ==
  ASSUME RequestInv, RowMoves, RowsInv', NEW p \in Requests, NEW w \in Wallets, Insert(p, w)
  PROVE  RequestInv'
<1>1. Begin(p, "inserted", "quote", row', w) /\ row'.state = "PENDING"
  BY DEF Insert
<1>2. Stored(row')
  BY DEF RowsInv, Stored
<1>3. PICK r : r = row'
  OBVIOUS
<1>4. Begin(p, "inserted", "quote", r, w) /\ Fits("inserted", r, "quote") /\ r.state # "FUNDED"
  BY <1>1, <1>2, <1>3 DEF Fits
<1>5. p \in Procs /\ "inserted" \in RequestPlaces \ {"flush"} /\ "quote" \in Errands
  BY DEF Procs, RequestPlaces, Errands
<1> QED BY <1>1, <1>4, <1>5, Begins

\* A request that starts with the stored row, or with the index's.
LEMMA StartedWith ==
  ASSUME RequestInv, RowMoves, RowsInv, NEW p \in Procs, NEW op \in Errands,
         NEW place \in {"replay", "latest", "fund"}, NEW r \in {row, index}, NEW w \in Wallets,
         r.state = "PENDING" \/ (place = "latest" /\ op = "sweep") \/ place = "fund",
         r.state # "NONE", r.state # "FUNDED", Begin(p, place, op, r, w)
  PROVE  RequestInv'
<1>1. Stored(r) /\ row.state # "NONE"
  BY DEF RowsInv
<1>2. row'.state # "NONE"
  BY <1>1 DEF RowMoves
<1>3. Fits(place, r, op) /\ place \in RequestPlaces \ {"flush"}
  BY <1>1 DEF Fits, RequestPlaces, PendingPlaces
<1> QED BY <1>2, <1>3, Begins

LEMMA StartRequest ==
  ASSUME RequestInv, RowMoves, RowsInv, NEW p \in Procs,
         \/ \E w \in Wallets : Retry(p, w)
         \/ Choose(p)
         \/ \E a \in Attempts : Notice(p, a)
  PROVE  RequestInv'
<1>0. /\ {"quote", "keepFree", "discard", "notice"} \subseteq Errands
      /\ Stored(row) /\ Stored(index) /\ row.wallet \in Wallets /\ index.wallet \in Wallets
  BY DEF Errands, RowsInv, Stored, RowType
<1>1. ASSUME NEW w \in Wallets, Retry(p, w) PROVE RequestInv'
  <2>1. /\ row.state = "PENDING"
        /\ Begin(p, IF calls.call = "none" THEN "replay" ELSE "latest", "quote", row, w)
    BY <1>1 DEF Retry
  <2>2. PICK place \in {"replay", "latest"} : Begin(p, place, "quote", row, w)
    BY <2>1
  <2> QED BY <1>0, <2>1, <2>2, StartedWith
<1>2. ASSUME Choose(p) PROVE RequestInv'
  <2>1. row.state = "PENDING" /\ \E op \in {"keepFree", "discard"} : Begin(p, "latest", op, row, row.wallet)
    BY <1>2 DEF Choose
  <2>2. PICK op \in {"keepFree", "discard"} : Begin(p, "latest", op, row, row.wallet)
    BY <2>1
  <2> QED BY <1>0, <2>1, <2>2, StartedWith
<1>3. ASSUME NEW a \in Attempts, Notice(p, a) PROVE RequestInv'
  <2>1. PICK r \in {index, row} :
          /\ r.state # "NONE" /\ FundsIt(r, a)
          /\ Begin(p, "fund", "notice", r, r.wallet)
    BY <1>3 DEF Notice
  <2>2. r.state # "FUNDED" /\ r.wallet \in Wallets
    BY <1>0, <2>1 DEF FundsIt
  <2> QED BY <1>0, <2>1, <2>2, StartedWith
<1> QED BY <1>1, <1>2, <1>3

LEMMA SweepRequest ==
  ASSUME RequestInv, RowMoves, RowsInv, Sweep
  PROVE  RequestInv'
<1>1. Begin(Sweeper, "latest", "sweep", index, index.wallet) /\ index.state # "NONE"
  BY DEF Sweep
<1>2. Sweeper \in Procs /\ "sweep" \in Errands /\ index.wallet \in Wallets /\ index.state # "FUNDED"
  BY DEF Procs, Errands, RowsInv, Stored, RowType
<1> QED BY <1>1, <1>2, StartedWith

LEMMA LockOrRequest ==
  ASSUME RequestInv, RowMoves, NEW p \in Procs, proc[p].at \in {"inserted", "replay"},
         LockOr(p, "end")
  PROVE  RequestInv'
<1>1. /\ proc[p].at # "idle" /\ Stored(Mine(p)) /\ Mine(p).state = "PENDING"
      /\ row.state # "NONE"
  BY HeldPending DEF PendingPlaces
<1>2. row'.state # "NONE"
  BY <1>1 DEF RowMoves
<1>3. /\ proc[p].op \in Errands /\ proc[p].wallet \in Wallets /\ proc[p].seen \in Marks
      /\ proc[p].reason \in {"none", "ended", "discarded"}
      /\ {"flush", "end"} \subseteq RequestPlaces /\ "latest" \in Marks
  BY HeldFields DEF RequestPlaces, Marks
<1>4. Fits("flush", Mine(p), proc[p].op) /\ Fits("end", Mine(p), proc[p].op)
  BY <1>1 DEF Fits, PendingPlaces
<1>5. CASE proc' = [proc EXCEPT ![p].at = "flush", ![p].seen = "latest"]
  <2>1. proc' = [proc EXCEPT ![p] =
          [at |-> "flush", op |-> proc[p].op, row |-> Mine(p), wallet |-> proc[p].wallet,
           seen |-> "latest", reason |-> proc[p].reason]]
    BY <1>5, AtSeen
  <2> QED BY <1>1, <1>2, <1>3, <1>4, <2>1, Goes
<1>6. CASE proc' = [proc EXCEPT ![p].at = "end", ![p].reason = "ended"]
  <2>1. proc' = [proc EXCEPT ![p] =
          [at |-> "end", op |-> proc[p].op, row |-> Mine(p), wallet |-> proc[p].wallet,
           seen |-> proc[p].seen, reason |-> "ended"]]
    BY <1>6, AtReason
  <2> QED BY <1>1, <1>2, <1>3, <1>4, <2>1, Goes
<1> QED BY <1>5, <1>6 DEF LockOr

LEMMA FlushedRequest ==
  ASSUME RequestInv, RowMoves, NEW p \in Procs, Flushed(p)
  PROVE  RequestInv'
<1>1. proc[p].at = "flush"
  BY DEF Flushed, At
<1>2. CASE Done(p)
  BY <1>2, Rests
<1>3. CASE proc[p].seen \in {"latest", "free"} /\ MoveTo(p, proc[p].seen)
  <2>1. PICK place \in {"latest", "free"} : place = proc[p].seen
    BY <1>3
  <2>2. Stored(Mine(p)) /\ Mine(p).state = "PENDING"
    BY <1>1, <1>3, HeldRow DEF Holds, Mine
  <2>3. Fits(place, Mine(p), proc[p].op) /\ place \in RequestPlaces /\ MoveTo(p, place)
    BY <1>3, <2>1, <2>2 DEF Fits, RequestPlaces, PendingPlaces
  <2> QED BY <1>1, <2>3, Moves
<1> QED BY <1>2, <1>3 DEF Flushed

LEMMA ReadLatestRequest ==
  ASSUME RequestInv, RowMoves, NEW p \in Procs, ReadLatest(p)
  PROVE  RequestInv'
<1>1. /\ proc[p].at = "latest" /\ Stored(Mine(p)) /\ Mine(p).state # "NONE" /\ row.state # "NONE"
      /\ Mine(p).state # "FUNDED"
      /\ Mine(p).state = "PENDING" \/ proc[p].op = "sweep"
  BY HeldRow DEF ReadLatest, At, Holds, Mine
<1>2. row'.state # "NONE"
  BY <1>1 DEF RowMoves
<1>3. /\ proc[p].op \in Errands /\ proc[p].wallet \in Wallets /\ proc[p].seen \in Marks
      /\ proc[p].reason \in {"none", "ended", "discarded"}
      /\ {"retire", "end", "current", "fund"} \subseteq RequestPlaces
  BY HeldFields DEF RequestPlaces
<1>4. CASE Done(p)
  BY <1>4, Rests
<1>5. CASE MoveTo(p, "fund")
  <2>1. Fits("fund", Mine(p), proc[p].op)
    BY <1>1 DEF Fits, PendingPlaces
  <2> QED BY <1>1, <1>3, <1>5, <2>1, Moves
<1>6. ASSUME NEW place \in {"end", "retire"}, NEW why \in {"ended", "discarded"},
             proc[p].op \in {"quote", "keepFree", "discard", "sweep"}, Mine(p).state = "PENDING",
             proc' = [proc EXCEPT ![p].at = place, ![p].reason = why]
      PROVE  RequestInv'
  <2>1. proc' = [proc EXCEPT ![p] =
          [at |-> place, op |-> proc[p].op, row |-> Mine(p), wallet |-> proc[p].wallet,
           seen |-> proc[p].seen, reason |-> why]]
    <3>1. proc' = [proc EXCEPT ![p].at = place, ![p].reason = why]
      BY <1>6
    <3>2. RequestInv
      OBVIOUS
    <3> QED BY ONLY <3>1, <3>2, p \in Procs, AtReason
  <2>2. Fits(place, Mine(p), proc[p].op) /\ place \in RequestPlaces /\ place # "flush"
    BY <1>1, <1>3, <1>6 DEF Fits, PendingPlaces
  <2> QED BY <1>1, <1>2, <1>3, <2>1, <2>2, Goes
<1>7. ASSUME NEW place \in {"current", "retire"}, MoveTo(p, place),
             proc[p].op \in {"quote", "keepFree"}, Mine(p).state = "PENDING"
      PROVE  RequestInv'
  <2>1. Fits(place, Mine(p), proc[p].op) /\ place \in RequestPlaces
    BY <1>1, <1>3, <1>7 DEF Fits, PendingPlaces
  <2> QED BY <1>1, <1>7, <2>1, Moves
<1>8. \/ Done(p) \/ MoveTo(p, "fund")
      \/ \E place \in {"end", "retire"}, why \in {"ended", "discarded"} :
           /\ proc[p].op \in {"quote", "keepFree", "discard", "sweep"} /\ Mine(p).state = "PENDING"
           /\ proc' = [proc EXCEPT ![p].at = place, ![p].reason = why]
      \/ \E place \in {"current", "retire"} :
           MoveTo(p, place) /\ proc[p].op \in {"quote", "keepFree"} /\ Mine(p).state = "PENDING"
  BY <1>1 DEF ReadLatest
<1> QED BY <1>4, <1>5, <1>6, <1>7, <1>8

LEMMA AfterRetireRequest ==
  ASSUME RequestInv, RowMoves, NEW p \in Procs, proc[p].at \in {"retire", "retiring"},
         AfterRetire(p)
  PROVE  RequestInv'
<1>1. /\ proc[p].at # "idle" /\ Stored(Mine(p)) /\ Mine(p).state = "PENDING"
      /\ row.state # "NONE"
  BY HeldPending DEF PendingPlaces
<1>2. proc[p].op \in {"quote", "keepFree", "discard", "sweep", "refuse"}
  BY HeldFields, HeldRow DEF Holds, Errands
<1>3. Done(p) \/ MoveTo(p, "bump") \/ MoveTo(p, "replace") \/ MoveTo(p, "end")
  BY <1>2 DEF AfterRetire
<1>4. ASSUME NEW place \in {"bump", "replace", "end"}, MoveTo(p, place) PROVE RequestInv'
  <2>1. Fits(place, Mine(p), proc[p].op) /\ place \in RequestPlaces
    BY <1>1 DEF Fits, RequestPlaces, PendingPlaces
  <2> QED BY <1>1, <1>4, <2>1, Moves
<1> QED BY <1>3, <1>4, Rests

LEMMA RetireRequest ==
  ASSUME RequestInv, RowMoves, NEW p \in Procs, Retire(p) \/ Retiring(p)
  PROVE  RequestInv'
<1>0. proc[p].at \in {"retire", "retiring"}
  BY DEF Retire, Retiring, At
<1>1. CASE AfterRetire(p)
  BY <1>0, <1>1, AfterRetireRequest
<1>2. CASE Done(p)
  BY <1>2, Rests
<1>3. ASSUME Session(p).state \in {"QUOTED", "PREPARING"},
             proc' = [proc EXCEPT ![p].at = "retiring", ![p].seen = Session(p).state]
      PROVE  RequestInv'
  <2>1. PICK s \in {"QUOTED", "PREPARING"} : s = Session(p).state
    BY <1>3
  <2>2. proc' = [proc EXCEPT ![p] =
          [at |-> "retiring", op |-> proc[p].op, row |-> Mine(p), wallet |-> proc[p].wallet,
           seen |-> s, reason |-> proc[p].reason]]
    BY <1>3, <2>1, AtSeen
  <2>3. /\ Stored(Mine(p)) /\ Mine(p).state = "PENDING" /\ row.state # "NONE"
    BY <1>0, HeldPending DEF PendingPlaces
  <2>4. row'.state # "NONE"
    BY <2>3 DEF RowMoves
  <2>5. proc[p].op \notin {"none", "notice"}
    BY <1>0, HeldRow DEF Holds
  <2>6. Fits("retiring", Mine(p), proc[p].op)
    BY <2>3, <2>5 DEF Fits
  <2>7. /\ proc[p].op \in Errands /\ proc[p].wallet \in Wallets
        /\ proc[p].reason \in {"none", "ended", "discarded"}
        /\ "retiring" \in RequestPlaces /\ s \in Marks
    BY HeldFields DEF RequestPlaces, Marks
  <2> QED BY <2>2, <2>3, <2>4, <2>6, <2>7, Goes
<1> QED BY <1>1, <1>2, <1>3 DEF Retire, Retiring

\* A request that keeps its row PENDING on the way to a quote.
LEMMA QuoteMoves ==
  ASSUME RequestInv, RowMoves, NEW p \in Procs, proc[p].at \in PendingPlaces,
         NEW place \in {"reserve", "build", "window"}, MoveTo(p, place)
  PROVE  RequestInv'
<1>1. proc[p].at # "idle" /\ Stored(Mine(p)) /\ Mine(p).state = "PENDING"
  BY HeldPending
<1>2. Fits(place, Mine(p), proc[p].op) /\ place \in RequestPlaces
  BY <1>1 DEF Fits, RequestPlaces, PendingPlaces
<1> QED BY <1>1, <1>2, Moves

LEMMA ReserveRequest ==
  ASSUME RequestInv, RowMoves, NEW p \in Procs, Reserve(p) \/ Build(p)
  PROVE  RequestInv'
<1>1. proc[p].at \in PendingPlaces
  BY DEF Reserve, Build, At, PendingPlaces
<1>2. Done(p) \/ MoveTo(p, "build") \/ MoveTo(p, "window")
  BY DEF Reserve, Build
<1> QED BY <1>1, <1>2, Rests, QuoteMoves

\* A row that keeps its state keeps it when other fields are set.
LEMMA BumpedState ==
  ASSUME RowsInv, NEW p \in Procs, Bump(p), Matches(p)
  PROVE  row'.state = row.state
<1>1. PICK u : u = [row EXCEPT !.attempts = @ + 1, !.wallet = proc[p].wallet]
  OBVIOUS
<1>2. row \in RowType
  BY DEF RowsInv, Stored
<1>3. u.state = row.state
  BY <1>1, <1>2 DEF RowType
<1> QED BY <1>1, <1>3 DEF Bump

LEMMA BumpRequest ==
  ASSUME RequestInv, RowMoves, RowsInv, RowsInv', NEW p \in Procs, Bump(p)
  PROVE  RequestInv'
<1>1. /\ proc[p].at # "idle" /\ Stored(Mine(p)) /\ Mine(p).state = "PENDING"
      /\ row.state # "NONE"
  BY HeldPending DEF Bump, At, PendingPlaces
<1>2. CASE Done(p)
  BY <1>2, Rests
<1>3. CASE Matches(p)
  <2>1. PICK r : r = row'
    OBVIOUS
  <2>2. proc' = [proc EXCEPT ![p].at = "reserve", ![p].row = r]
    BY <1>3, <2>1 DEF Bump
  <2>3. proc' = [proc EXCEPT ![p] =
          [at |-> "reserve", op |-> proc[p].op, row |-> r, wallet |-> proc[p].wallet,
           seen |-> proc[p].seen, reason |-> proc[p].reason]]
    BY <2>2, AtRow
  <2>4. Stored(r) /\ r.state = "PENDING" /\ row'.state = "PENDING"
    BY <1>1, <1>3, <2>1, BumpedState DEF Matches, RowsInv, Stored
  <2>5. Fits("reserve", r, proc[p].op)
    BY <2>4 DEF Fits
  <2>6. /\ proc[p].op \in Errands /\ proc[p].wallet \in Wallets /\ proc[p].seen \in Marks
        /\ proc[p].reason \in {"none", "ended", "discarded"} /\ "reserve" \in RequestPlaces
    BY HeldFields DEF RequestPlaces
  <2> QED BY <2>3, <2>4, <2>5, <2>6, Goes
<1> QED BY <1>2, <1>3 DEF Bump

LEMMA ReadCurrentRequest ==
  ASSUME RequestInv, RowMoves, NEW p \in Procs, ReadCurrent(p)
  PROVE  RequestInv'
<1>1. /\ proc[p].at # "idle" /\ Stored(Mine(p)) /\ Mine(p).state = "PENDING"
      /\ proc[p].at \in PendingPlaces
  BY HeldPending DEF ReadCurrent, At, PendingPlaces
<1>2. CASE MoveTo(p, "retire")
  <2>0. proc[p].op \notin {"none", "notice"}
    BY HeldRow DEF Holds, ReadCurrent, At
  <2>1. Fits("retire", Mine(p), proc[p].op) /\ "retire" \in RequestPlaces
    BY <1>1, <2>0 DEF Fits, RequestPlaces
  <2> QED BY <1>1, <1>2, <2>1, Moves
<1>3. Done(p) \/ MoveTo(p, "retire") \/ MoveTo(p, "reserve")
  BY DEF ReadCurrent
<1> QED BY <1>1, <1>2, <1>3, Rests, QuoteMoves

LEMMA WindowRequest ==
  ASSUME RequestInv, RowMoves, NEW p \in Procs, Window(p)
  PROVE  RequestInv'
<1>1. /\ Stored(Mine(p)) /\ Mine(p).state = "PENDING" /\ row.state # "NONE"
  BY HeldPending DEF Window, At, PendingPlaces
<1>2. CASE proc' = [proc EXCEPT ![p].at = "retire", ![p].op = "refuse"]
  <2>1. proc' = [proc EXCEPT ![p] =
          [at |-> "retire", op |-> "refuse", row |-> Mine(p), wallet |-> proc[p].wallet,
           seen |-> proc[p].seen, reason |-> proc[p].reason]]
    <3>1. \A x, y : proc' = [proc EXCEPT ![p].at = x, ![p].op = y] =>
            proc' = [proc EXCEPT ![p] =
              [at |-> x, op |-> y, row |-> Mine(p), wallet |-> proc[p].wallet,
               seen |-> proc[p].seen, reason |-> proc[p].reason]]
      BY AtOp
    <3> QED BY ONLY <1>2, <3>1
  <2>2. Fits("retire", Mine(p), "refuse")
    BY <1>1 DEF Fits
  <2>3. /\ proc[p].wallet \in Wallets /\ proc[p].seen \in Marks
        /\ proc[p].reason \in {"none", "ended", "discarded"}
        /\ "retire" \in RequestPlaces /\ "refuse" \in Errands
    BY HeldFields DEF RequestPlaces, Errands
  <2>4. row'.state # "NONE"
    BY <1>1 DEF RowMoves
  <2> QED BY <1>1, <2>1, <2>2, <2>3, <2>4, Goes
<1>3. Done(p) \/ proc' = [proc EXCEPT ![p].at = "retire", ![p].op = "refuse"]
  BY DEF Window
<1> QED BY <1>2, <1>3, Rests

\* A request that goes on with the row as it is stored now.
LEMMA GoesOnWithRow ==
  ASSUME RequestInv, RowMoves, RowsInv', NEW p \in Procs, proc[p].at # "idle",
         NEW place \in {"ended", "funded"}, NEW seen \in Marks,
         proc' = [proc EXCEPT ![p].at = place, ![p].row = row', ![p].seen = seen]
  PROVE  RequestInv'
<1>1. PICK r : r = row'
  OBVIOUS
<1>2. proc' = [proc EXCEPT ![p].at = place, ![p].row = r, ![p].seen = seen]
  BY <1>1
<1>3. proc' = [proc EXCEPT ![p] =
        [at |-> place, op |-> proc[p].op, row |-> r, wallet |-> proc[p].wallet,
         seen |-> seen, reason |-> proc[p].reason]]
  BY ONLY <1>2, RequestInv, p \in Procs, AtRowSeen
<1>4. row.state # "NONE"
  BY HeldRow
<1>5. Stored(r) /\ r.state # "NONE" /\ row'.state # "NONE"
  BY <1>1, <1>4 DEF RowMoves, RowsInv, Stored
<1>6. Fits(place, r, proc[p].op) /\ place \in RequestPlaces /\ place # "flush"
  BY <1>5 DEF Fits, RequestPlaces, PendingPlaces
<1>7. /\ proc[p].op \in Errands /\ proc[p].wallet \in Wallets
      /\ proc[p].reason \in {"none", "ended", "discarded"}
  BY HeldFields
<1>8. r.state = "FUNDED" => row'.state = "FUNDED"
  BY <1>1
<1>9. place = "flush" /\ seen \in {"latest", "free"} => r.state = "PENDING"
  BY <1>6
<1> QED
  BY ONLY RequestInv, RowMoves, p \in Procs, seen \in Marks, <1>3, <1>5, <1>6, <1>7, <1>8, <1>9, Goes

LEMMA EndRequest ==
  ASSUME RequestInv, RowMoves, RowsInv', NEW p \in Procs, End(p)
  PROVE  RequestInv'
<1>1. /\ proc[p].at # "idle" /\ "saved" \in Marks /\ "lost" \in Marks
  BY DEF End, At, Marks
<1>2. CASE Done(p)
  BY <1>2, Rests
<1>3. ASSUME NEW s \in {"saved", "lost"},
             proc' = [proc EXCEPT ![p].at = "ended", ![p].row = row', ![p].seen = s]
      PROVE  RequestInv'
  BY <1>1, <1>3, GoesOnWithRow
<1>4. \/ Done(p)
      \/ \E s \in {"saved", "lost"} :
           proc' = [proc EXCEPT ![p].at = "ended", ![p].row = row', ![p].seen = s]
  BY DEF End
<1> QED BY <1>2, <1>3, <1>4

LEMMA FundRequest ==
  ASSUME RequestInv, RowMoves, RowsInv', NEW p \in Procs, Fund(p)
  PROVE  RequestInv'
<1>1. proc[p].at # "idle"
  BY DEF Fund, At
<1>2. CASE Done(p)
  BY <1>2, Rests
<1>3. PICK s : s = Mine(p).state
  OBVIOUS
<1>4. s \in Marks
  BY <1>3, HeldRow DEF RowType, Marks
<1>5. CASE proc' = [proc EXCEPT ![p].at = "funded", ![p].row = row', ![p].seen = s]
  BY <1>1, <1>4, <1>5, GoesOnWithRow
<1> QED BY <1>2, <1>3, <1>5 DEF Fund

\* A request that waits for the queue.
LEMMA Flushes ==
  ASSUME RequestInv, RowMoves, NEW p \in Procs, proc[p].at # "idle", NEW s \in {"free", "done"},
         s = "free" => Mine(p).state = "PENDING",
         proc' = [proc EXCEPT ![p].at = "flush", ![p].seen = s]
  PROVE  RequestInv'
<1>1. proc' = [proc EXCEPT ![p] =
        [at |-> "flush", op |-> proc[p].op, row |-> Mine(p), wallet |-> proc[p].wallet,
         seen |-> s, reason |-> proc[p].reason]]
  BY AtSeen
<1>2. /\ proc[p].op \in Errands /\ proc[p].wallet \in Wallets
      /\ proc[p].reason \in {"none", "ended", "discarded"}
      /\ "flush" \in RequestPlaces /\ s \in Marks
  BY HeldFields DEF RequestPlaces, Marks
<1>3. /\ Stored(Mine(p)) /\ Mine(p).state # "NONE" /\ row'.state # "NONE"
      /\ Mine(p).state = "FUNDED" => row'.state = "FUNDED"
  BY HeldRow DEF Holds, RowMoves, Mine
<1>4. Fits("flush", Mine(p), proc[p].op)
  BY <1>3 DEF Fits, PendingPlaces
<1>5. "flush" = "flush" /\ s \in {"latest", "free"} => Mine(p).state = "PENDING"
  OBVIOUS
<1> QED
  BY ONLY RequestInv, RowMoves, p \in Procs, <1>1, <1>2, <1>3, <1>4, <1>5, Goes

LEMMA EndedRequest ==
  ASSUME RequestInv, RowMoves, NEW p \in Procs, Ended(p)
  PROVE  RequestInv'
<1>1. proc[p].at # "idle" /\ Stored(Mine(p)) /\ Mine(p).state # "NONE"
  BY HeldRow DEF Ended, At
<1>2. Fits("flush", Mine(p), proc[p].op) /\ "flush" \in RequestPlaces
  BY <1>1 DEF Fits, PendingPlaces, RequestPlaces
<1>3. Done(p) \/ MoveTo(p, "flush")
  BY DEF Ended
<1> QED BY <1>1, <1>2, <1>3, Moves, Rests

LEMMA ReplaceRequest ==
  ASSUME RequestInv, RowMoves, NEW p \in Procs, Replace(p)
  PROVE  RequestInv'
<1>1. proc[p].at # "idle" /\ Mine(p).state = "PENDING"
  BY HeldPending DEF Replace, At, PendingPlaces
<1>2. Done(p) \/ proc' = [proc EXCEPT ![p].at = "flush", ![p].seen = "free"]
  BY DEF Replace
<1> QED BY <1>1, <1>2, Flushes, Rests

LEMMA FundedRequest ==
  ASSUME RequestInv, RowMoves, NEW p \in Procs, Funded(p)
  PROVE  RequestInv'
<1>1. proc[p].at # "idle"
  BY DEF Funded, At
<1>2. Done(p) \/ proc' = [proc EXCEPT ![p].at = "flush", ![p].seen = "done"]
  BY DEF Funded
<1> QED BY <1>1, <1>2, Flushes, Rests

LEMMA RestartRequests ==
  ASSUME RowMoves, Restart
  PROVE  RequestInv'
<1>1. AtRest \in Request /\ Holds(AtRest, row')
  BY MoneyConstants DEF Holds, PendingPlaces
<1> QED BY <1>1 DEF Restart, RequestInv

LEMMA RequestStep ==
  RequestInv /\ RowsInv /\ RowsInv' /\ RowMoves /\ [MoneyNext]_moneyVars => RequestInv'
<1> SUFFICES ASSUME RequestInv, RowsInv, RowsInv', RowMoves, [MoneyNext]_moneyVars
             PROVE  RequestInv'
  OBVIOUS
<1>1. ASSUME NEW p \in Procs, Step(p) PROVE RequestInv'
  <2>1. CASE Lock(p) \/ Replay(p)
    <3>1. proc[p].at \in {"inserted", "replay"} /\ LockOr(p, "end")
      BY <2>1 DEF Lock, Replay, At
    <3> QED BY <3>1, LockOrRequest
  <2>2. CASE Free(p)
    BY <2>2, Rests DEF Free
  <2>3. \/ Lock(p) \/ Replay(p) \/ Flushed(p) \/ ReadLatest(p) \/ Retire(p) \/ Retiring(p)
        \/ ReadCurrent(p) \/ Bump(p) \/ Reserve(p) \/ Build(p) \/ Window(p)
        \/ End(p) \/ Ended(p) \/ Replace(p) \/ Free(p) \/ Fund(p) \/ Funded(p)
    BY <1>1 DEF Step
  <2>4. CASE \/ Flushed(p) \/ ReadLatest(p) \/ Retire(p) \/ Retiring(p) \/ ReadCurrent(p)
             \/ Bump(p) \/ Reserve(p) \/ Build(p)
    BY <2>4, FlushedRequest, ReadLatestRequest, RetireRequest, ReadCurrentRequest, BumpRequest,
       ReserveRequest
  <2>5. CASE \/ Window(p) \/ End(p) \/ Ended(p) \/ Replace(p) \/ Fund(p) \/ Funded(p)
    BY <2>5, WindowRequest, EndRequest, EndedRequest, ReplaceRequest, FundRequest, FundedRequest
  <2> QED BY <2>1, <2>2, <2>3, <2>4, <2>5
<1>2. ASSUME NEW p \in Procs, Drop(p) PROVE RequestInv'
  BY <1>2, Rests DEF Drop
<1>3. ASSUME NEW p \in Requests,
             \/ \E w \in Wallets : Retry(p, w)
             \/ Choose(p)
             \/ \E a \in Attempts : Notice(p, a)
      PROVE  RequestInv'
  <2>1. p \in Procs
    BY DEF Procs
  <2> QED BY <1>3, <2>1, StartRequest
<1>4. CASE proc' = proc
  BY <1>4, RequestsSame
<1>5. \/ \E p \in Procs : Step(p) \/ Drop(p)
      \/ \E p \in Requests, w \in Wallets : Insert(p, w)
      \/ \E p \in Requests : \/ \E w \in Wallets : Retry(p, w)
                             \/ Choose(p)
                             \/ \E a \in Attempts : Notice(p, a)
      \/ Sweep \/ Restart \/ proc' = proc
  BY DEF MoneyNext, moneyVars, Submit, Reconcile, ClockTick, CloseMarket
<1> QED BY <1>1, <1>2, <1>3, <1>4, <1>5, InsertRequest, SweepRequest, RestartRequests

-----------------------------------------------------------------------------
(* The theorems *)

LEMMA ClockStep == ClockInv /\ [MoneyNext]_moneyVars => ClockInv'
<1> SUFFICES ASSUME ClockInv, [MoneyNext]_moneyVars PROVE ClockInv'
  OBVIOUS
<1>1. CASE UNCHANGED <<open, now, faults>>
  BY <1>1 DEF ClockInv
<1>2. CASE ClockTick
  BY <1>2, MoneyConstants DEF ClockInv, ClockTick
<1>3. CASE CloseMarket
  BY <1>3 DEF ClockInv, CloseMarket
<1>4. CASE Restart
  BY <1>4, MoneyConstants DEF ClockInv, Restart
<1>5. ASSUME NEW p \in Procs, Drop(p) PROVE ClockInv'
  BY <1>5, MoneyConstants DEF ClockInv, Drop
<1>6. ASSUME NEW p \in Procs, Step(p) PROVE ClockInv'
  <2>1. UNCHANGED <<open, now, faults>>
    BY <1>6 DEF Step, Lock, Replay, Flushed, ReadLatest, Retire, Retiring, ReadCurrent, Bump,
       Reserve, Build, Window, End, Ended, Replace, Free, Fund, Funded
  <2> QED BY <1>1, <2>1
<1>7. \/ UNCHANGED <<open, now, faults>>
      \/ ClockTick \/ CloseMarket \/ Restart
      \/ \E p \in Procs : Step(p) \/ Drop(p)
  BY DEF MoneyNext, moneyVars, Insert, Retry, Choose, Notice, Sweep, Submit, Reconcile
<1> QED BY <1>1, <1>2, <1>3, <1>4, <1>5, <1>6, <1>7

LEMMA EndedStep ==
  EndedNeverBuys /\ RowMoves /\ TradeMoves => EndedNeverBuys'
<1> SUFFICES ASSUME EndedNeverBuys, RowMoves, TradeMoves, row'.state = "EXPIRED",
                    NEW a \in Attempts, Buying(a)'
             PROVE  FALSE
  BY DEF EndedNeverBuys
<1>1. CASE row.state = "EXPIRED"
  BY <1>1 DEF EndedNeverBuys, TradeMoves, BuyBegins
<1>2. CASE GuardExpired /\ trade' = trade
  BY <1>2 DEF GuardExpired, Buying
<1> QED BY <1>1, <1>2 DEF RowMoves

\* A wallet never pays for two attempts of a call.
WalletBuysOnce ==
  \A a, b \in Attempts :
    Buying(a) /\ Buying(b) /\ trade[a].wallet = trade[b].wallet => a = b

LEMMA WalletStep ==
  WalletBuysOnce /\ TradeMoves => WalletBuysOnce'
<1> SUFFICES ASSUME WalletBuysOnce, TradeMoves,
                    NEW a \in Attempts, NEW b \in Attempts,
                    Buying(a)', Buying(b)', trade'[a].wallet = trade'[b].wallet, a # b
             PROVE  FALSE
  BY DEF WalletBuysOnce
<1>1. trade[a].wallet = trade[b].wallet
  BY DEF TradeMoves
<1>2. ASSUME NEW c \in Attempts, NEW d \in Attempts, c # d, Buying(c)', ~Buying(c), Buying(d)',
             trade[c].wallet = trade[d].wallet
      PROVE  FALSE
  <2>1. BuyBegins(c)
    BY <1>2 DEF TradeMoves
  <2>2. Buying(d)
    BY <1>2, <2>1 DEF BuyBegins, Buying
  <2> QED BY <1>2, <2>1, <2>2 DEF BuyBegins, BuyingWith
<1>3. Buying(a) /\ Buying(b)
  BY <1>1, <1>2
<1> QED BY <1>1, <1>3 DEF WalletBuysOnce

\* A request that retires a quote goes on with an unsigned one, so what it writes
\* cannot undo a fill.
RetiresUnsigned ==
  \A p \in Procs : proc[p].at = "retiring" => proc[p].seen \in {"QUOTED", "PREPARING"}

\* Request p goes to place, whatever else of it changes.
Turn(p, place) ==
  \/ \E y : proc' = [proc EXCEPT ![p].at = place, ![p].seen = y]
  \/ \E y : proc' = [proc EXCEPT ![p].at = place, ![p].reason = y]
  \/ \E y : proc' = [proc EXCEPT ![p].at = place, ![p].op = y]
  \/ \E r : proc' = [proc EXCEPT ![p].at = place, ![p].row = r]
  \/ \E r, y : proc' = [proc EXCEPT ![p].at = place, ![p].row = r, ![p].seen = y]

LEMMA TurnsTo ==
  ASSUME RequestInv, NEW p \in Procs, NEW place, Turn(p, place)
  PROVE  proc'[p].at = place /\ \A t \in Procs : t # p => proc'[t] = proc[t]
<1>1. proc \in [Procs -> Request]
  BY DEF RequestInv
<1>2. CASE \E y : proc' = [proc EXCEPT ![p].at = place, ![p].seen = y]
  <2>1. PICK y : proc' = [proc EXCEPT ![p].at = place, ![p].seen = y]
    BY <1>2
  <2>2. proc' = [proc EXCEPT ![p] =
          [at |-> place, op |-> proc[p].op, row |-> Mine(p), wallet |-> proc[p].wallet, seen |-> y,
           reason |-> proc[p].reason]]
    BY <2>1, AtSeen
  <2> QED BY <1>1, <2>2
<1>3. CASE \E y : proc' = [proc EXCEPT ![p].at = place, ![p].reason = y]
  <2>1. PICK y : proc' = [proc EXCEPT ![p].at = place, ![p].reason = y]
    BY <1>3
  <2>2. proc' = [proc EXCEPT ![p] =
          [at |-> place, op |-> proc[p].op, row |-> Mine(p), wallet |-> proc[p].wallet,
           seen |-> proc[p].seen, reason |-> y]]
    BY <2>1, AtReason
  <2> QED BY <1>1, <2>2
<1>4. CASE \E y : proc' = [proc EXCEPT ![p].at = place, ![p].op = y]
  <2>1. PICK y : proc' = [proc EXCEPT ![p].at = place, ![p].op = y]
    BY <1>4
  <2>2. PICK s \in Request : s = proc[p]
    BY <1>1
  <2>3. PICK u : u = [s EXCEPT !.at = place, !.op = y]
    OBVIOUS
  <2>4. u.at = place
    BY <2>3 DEF Request
  <2>5. proc' = [proc EXCEPT ![p] = u]
    BY <1>1, <2>1, <2>2, <2>3
  <2> QED BY <1>1, <2>4, <2>5
<1>5. CASE \E r : proc' = [proc EXCEPT ![p].at = place, ![p].row = r]
  <2>1. PICK r : proc' = [proc EXCEPT ![p].at = place, ![p].row = r]
    BY <1>5
  <2>2. proc' = [proc EXCEPT ![p] =
          [at |-> place, op |-> proc[p].op, row |-> r, wallet |-> proc[p].wallet,
           seen |-> proc[p].seen, reason |-> proc[p].reason]]
    BY <2>1, AtRow
  <2> QED BY <1>1, <2>2
<1>6. CASE \E r, y : proc' = [proc EXCEPT ![p].at = place, ![p].row = r, ![p].seen = y]
  <2>1. PICK r, y : proc' = [proc EXCEPT ![p].at = place, ![p].row = r, ![p].seen = y]
    BY <1>6
  <2>2. proc' = [proc EXCEPT ![p] =
          [at |-> place, op |-> proc[p].op, row |-> r, wallet |-> proc[p].wallet, seen |-> y,
           reason |-> proc[p].reason]]
    BY <2>1, AtRowSeen
  <2> QED BY <1>1, <2>2
<1> QED BY <1>2, <1>3, <1>4, <1>5, <1>6 DEF Turn

\* A request that goes anywhere but to retire a quote.
LEMMA TurnsAway ==
  ASSUME RequestInv, RetiresUnsigned, NEW p \in Procs,
         Done(p) \/ \E place \in RequestPlaces \ {"retiring"} : Turn(p, place)
  PROVE  RetiresUnsigned'
<1>1. CASE Done(p)
  <2>1. /\ proc \in [Procs -> Request] /\ AtRest.at = "idle"
        /\ proc' = [proc EXCEPT ![p] = AtRest]
    BY <1>1, MoneyConstants DEF RequestInv, Done
  <2>2. proc'[p].at = "idle" /\ \A t \in Procs : t # p => proc'[t] = proc[t]
    BY <2>1
  <2> QED BY <2>2 DEF RetiresUnsigned
<1>2. ASSUME NEW place \in RequestPlaces \ {"retiring"}, Turn(p, place)
      PROVE  RetiresUnsigned'
  <2>1. proc'[p].at = place /\ \A t \in Procs : t # p => proc'[t] = proc[t]
    BY <1>2, TurnsTo
  <2> QED BY <2>1 DEF RetiresUnsigned
<1> QED BY <1>1, <1>2

LEMMA MovesAway ==
  ASSUME RequestInv, RetiresUnsigned, NEW p \in Procs,
         NEW place \in RequestPlaces \ {"retiring"}, MoveTo(p, place)
  PROVE  RetiresUnsigned'
BY TurnsAway DEF MoveTo, Turn

LEMMA AfterRetireAway ==
  ASSUME RequestInv, RetiresUnsigned, NEW p \in Procs, proc[p].at \in {"retire", "retiring"},
         AfterRetire(p)
  PROVE  RetiresUnsigned'
<1>1. proc[p].op \in {"quote", "keepFree", "discard", "sweep", "refuse"}
  BY HeldFields, HeldRow DEF Holds, Errands
<1>2. Done(p) \/ MoveTo(p, "bump") \/ MoveTo(p, "replace") \/ MoveTo(p, "end")
  BY <1>1 DEF AfterRetire
<1>3. {"bump", "replace", "end"} \subseteq RequestPlaces \ {"retiring"}
  BY DEF RequestPlaces
<1> QED BY <1>2, <1>3, MovesAway, TurnsAway

LEMMA RetireUnsigned ==
  ASSUME RequestInv, RetiresUnsigned, NEW p \in Procs, Retire(p)
  PROVE  RetiresUnsigned'
<1>1. CASE AfterRetire(p)
  BY <1>1, AfterRetireAway DEF Retire, At
<1>2. ASSUME Session(p).state \in {"QUOTED", "PREPARING"},
             proc' = [proc EXCEPT ![p].at = "retiring", ![p].seen = Session(p).state]
      PROVE  RetiresUnsigned'
  <2>1. PICK s \in {"QUOTED", "PREPARING"} : s = Session(p).state
    BY <1>2
  <2>2. proc' = [proc EXCEPT ![p] =
          [at |-> "retiring", op |-> proc[p].op, row |-> Mine(p), wallet |-> proc[p].wallet,
           seen |-> s, reason |-> proc[p].reason]]
    BY <1>2, <2>1, AtSeen
  <2>3. proc \in [Procs -> Request]
    BY DEF RequestInv
  <2>4. proc'[p].seen = s /\ \A t \in Procs : t # p => proc'[t] = proc[t]
    BY <2>2, <2>3
  <2> QED BY <2>4 DEF RetiresUnsigned
<1> QED BY <1>1, <1>2 DEF Retire

LEMMA UnsignedStep ==
  RequestInv /\ RetiresUnsigned /\ [MoneyNext]_moneyVars => RetiresUnsigned'
<1> SUFFICES ASSUME RequestInv, RetiresUnsigned, [MoneyNext]_moneyVars PROVE RetiresUnsigned'
  OBVIOUS
<1>0. RequestPlaces \ {"retiring"} =
        {"idle", "inserted", "replay", "flush", "latest", "retire", "current", "bump", "reserve",
         "build", "window", "end", "ended", "replace", "free", "fund", "funded"}
  BY DEF RequestPlaces
<1>1. ASSUME NEW p \in Procs, Step(p) PROVE RetiresUnsigned'
  <2>1. CASE Lock(p) \/ Replay(p)
    <3>1. Turn(p, "flush") \/ Turn(p, "end")
      BY <2>1 DEF Lock, Replay, LockOr, Turn
    <3> QED BY <1>0, <3>1, TurnsAway
  <2>2. CASE Flushed(p)
    <3>1. Done(p) \/ MoveTo(p, "latest") \/ MoveTo(p, "free")
      BY <2>2 DEF Flushed
    <3> QED BY <1>0, <3>1, TurnsAway, MovesAway
  <2>3. CASE ReadLatest(p)
    <3>1. \/ Done(p) \/ MoveTo(p, "fund") \/ MoveTo(p, "current") \/ MoveTo(p, "retire")
          \/ Turn(p, "end") \/ Turn(p, "retire")
      BY <2>3 DEF ReadLatest, Turn
    <3> QED BY <1>0, <3>1, TurnsAway, MovesAway
  <2>4. CASE Retiring(p)
    <3>1. Done(p) \/ AfterRetire(p)
      BY <2>4 DEF Retiring
    <3>2. proc[p].at = "retiring"
      BY <2>4 DEF Retiring, At
    <3> QED BY <3>1, <3>2, TurnsAway, AfterRetireAway
  <2>5. CASE ReadCurrent(p) \/ Reserve(p) \/ Build(p) \/ Free(p)
    <3>1. \/ Done(p) \/ MoveTo(p, "retire") \/ MoveTo(p, "reserve") \/ MoveTo(p, "build")
          \/ MoveTo(p, "window")
      BY <2>5 DEF ReadCurrent, Reserve, Build, Free
    <3> QED BY <1>0, <3>1, TurnsAway, MovesAway
  <2>6. CASE Bump(p)
    <3>1. Done(p) \/ Turn(p, "reserve")
      BY <2>6 DEF Bump, Turn
    <3> QED BY <1>0, <3>1, TurnsAway
  <2>7. CASE Window(p)
    <3>1. Done(p) \/ Turn(p, "retire")
      BY <2>7 DEF Window, Turn
    <3> QED BY <1>0, <3>1, TurnsAway
  <2>8. CASE End(p)
    <3>1. Done(p) \/ Turn(p, "ended")
      BY <2>8 DEF End, Turn
    <3> QED BY <1>0, <3>1, TurnsAway
  <2>9. CASE Ended(p)
    <3>1. Done(p) \/ MoveTo(p, "flush")
      BY <2>9 DEF Ended
    <3> QED BY <1>0, <3>1, TurnsAway, MovesAway
  <2>10. CASE Replace(p) \/ Funded(p)
    <3>1. Done(p) \/ Turn(p, "flush")
      BY <2>10 DEF Replace, Funded, Turn
    <3> QED BY <1>0, <3>1, TurnsAway
  <2>11. CASE Fund(p)
    <3>1. Done(p) \/ Turn(p, "funded")
      BY <2>11 DEF Fund, Turn
    <3> QED BY <1>0, <3>1, TurnsAway
  <2> QED
    BY <1>1, <2>1, <2>2, <2>3, <2>4, <2>5, <2>6, <2>7, <2>8, <2>9, <2>10, <2>11, RetireUnsigned
    DEF Step
<1>2. ASSUME NEW p \in Procs, NEW place \in {"inserted", "replay", "latest", "fund"},
             NEW op, NEW r, NEW w, Begin(p, place, op, r, w)
      PROVE  RetiresUnsigned'
  <2>1. PICK u : u = [AtRest EXCEPT !.at = place, !.op = op, !.row = r, !.wallet = w]
    OBVIOUS
  <2>2. u.at = place /\ proc' = [proc EXCEPT ![p] = u] /\ proc \in [Procs -> Request]
    BY <1>2, <2>1, MoneyConstants DEF Begin, Request, RequestInv, AtRest
  <2>3. proc'[p].at = place /\ \A t \in Procs : t # p => proc'[t] = proc[t]
    BY <2>2
  <2> QED BY <2>3 DEF RetiresUnsigned
<1>3. ASSUME NEW p \in Requests,
             \/ \E w \in Wallets : Insert(p, w) \/ Retry(p, w)
             \/ Choose(p)
             \/ \E a \in Attempts : Notice(p, a)
      PROVE  RetiresUnsigned'
  <2>1. p \in Procs
    BY DEF Procs
  <2>2. \E place \in {"inserted", "replay", "latest", "fund"} :
          \E op, r, w : Begin(p, place, op, r, w)
    BY <1>3 DEF Insert, Retry, Choose, Notice
  <2> QED BY <1>2, <2>1, <2>2
<1>4. CASE Sweep
  BY <1>2, <1>4 DEF Sweep, Procs
<1>5. CASE Restart
  <2>1. AtRest.at = "idle"
    BY MoneyConstants
  <2> QED BY <1>5, <2>1 DEF Restart, RetiresUnsigned
<1>6. CASE proc' = proc
  BY <1>6 DEF RetiresUnsigned
<1>7. ASSUME NEW p \in Procs, Drop(p) PROVE RetiresUnsigned'
  BY <1>7, TurnsAway DEF Drop
<1>8. \/ \E p \in Procs : Step(p) \/ Drop(p)
      \/ \E p \in Requests :
           \/ \E w \in Wallets : Insert(p, w) \/ Retry(p, w)
           \/ Choose(p)
           \/ \E a \in Attempts : Notice(p, a)
      \/ Sweep \/ Restart \/ proc' = proc
  BY DEF MoneyNext, moneyVars, Submit, Reconcile, ClockTick, CloseMarket
<1> QED BY <1>1, <1>3, <1>4, <1>5, <1>6, <1>7, <1>8

\* A fill is never undone.
FillKept == \A a \in Attempts : trade[a].state = "FILLED" => trade'[a].state = "FILLED"

LEMMA FillStep ==
  TradeInv /\ RequestInv /\ RetiresUnsigned /\ [MoneyNext]_moneyVars => FillKept
<1> SUFFICES ASSUME TradeInv, RequestInv, RetiresUnsigned, [MoneyNext]_moneyVars,
                    NEW a \in Attempts, trade[a].state = "FILLED"
             PROVE  trade'[a].state = "FILLED"
  BY DEF FillKept
<1>0. trade \in [Attempts -> TradeType]
  BY DEF TradeInv
<1>1. CASE trade' = trade
  BY <1>1
<1>2. ASSUME NEW p \in Procs, Retiring(p) PROVE trade'[a].state = "FILLED"
  <2>1. proc[p].seen \in {"QUOTED", "PREPARING"} /\ Mine(p).attempts \in Attempts
    BY <1>2, HeldRow DEF RetiresUnsigned, Retiring, At
  <2>2. CASE trade' = [trade EXCEPT ![Mine(p).attempts].state = "FAILED"]
             /\ Session(p).state = proc[p].seen
    <3>1. Mine(p).attempts # a
      BY <2>1, <2>2 DEF Session
    <3> QED BY <1>0, <2>2, <3>1
  <2> QED BY <1>1, <1>2, <2>2 DEF Retiring
<1>3. ASSUME NEW p \in Procs, Reserve(p) PROVE trade'[a].state = "FILLED"
  <2> DEFINE b == Mine(p).attempts
  <2>1. CASE trade[b].state = "NONE"
             /\ trade' = [trade EXCEPT ![b].state = "PREPARING", ![b].wallet = proc[p].wallet]
    <3>1. b # a
      BY <2>1
    <3> HIDE DEF b
    <3> QED BY <1>0, <2>1, <3>1
  <2> QED BY <1>1, <1>3, <2>1 DEF Reserve
<1>4. ASSUME NEW p \in Procs, Build(p) PROVE trade'[a].state = "FILLED"
  <2> DEFINE b == Mine(p).attempts
  <2>1. trade' = trade \/ trade[b].state = "PREPARING"
    BY <1>4 DEF Build
  <2>2. \/ trade' = trade
        \/ trade' = [trade EXCEPT ![b].state = "QUOTED", ![b].expires = now + QuoteLife]
        \/ trade' = [trade EXCEPT ![b].state = "FAILED"]
    BY <1>4 DEF Build
  <2>3. trade[b].state = "PREPARING" => b # a
    OBVIOUS
  <2> HIDE DEF b
  <2> QED BY <1>0, <1>1, <2>1, <2>2, <2>3
<1>5. ASSUME NEW b \in Attempts, Submit(b) \/ Reconcile(b) PROVE trade'[a].state = "FILLED"
  <2>1. b # a
    BY <1>5 DEF Submit, Reconcile
  <2>2. \/ trade' = [trade EXCEPT ![b].state = "SUBMITTED", ![b].signed = TRUE]
        \/ \E outcome \in {"FILLED", "FAILED"} : trade' = [trade EXCEPT ![b].state = outcome]
    BY <1>5 DEF Submit, Reconcile
  <2> QED BY <1>0, <2>1, <2>2
<1>6. ASSUME NEW p \in Procs, Step(p) PROVE trade'[a].state = "FILLED"
  <2>1. Retiring(p) \/ Reserve(p) \/ Build(p) \/ trade' = trade
    BY <1>6 DEF Step, Lock, Replay, Flushed, ReadLatest, Retire, ReadCurrent, Bump, Window,
       End, Ended, Replace, Free, Fund, Funded
  <2> QED BY <1>1, <1>2, <1>3, <1>4, <2>1
<1>7. \/ \E p \in Procs : Step(p)
      \/ \E b \in Attempts : Submit(b) \/ Reconcile(b)
      \/ trade' = trade
  BY DEF MoneyNext, moneyVars, Insert, Retry, Choose, Notice, Sweep, Drop, ClockTick, CloseMarket,
     Restart
<1> QED BY <1>1, <1>5, <1>6, <1>7

\* A call that counts with its amount was bought.
FundedIsFilled == row.state = "FUNDED" => AnyFill

LEMMA FundedStep == FundedIsFilled /\ RowMoves /\ FillKept => FundedIsFilled'
BY DEF FundedIsFilled, RowMoves, FillKept, AnyFill

LEMMA MoneyStarts == MoneyInit => MoneyIInv
<1> SUFFICES ASSUME MoneyInit PROVE MoneyIInv
  OBVIOUS
<1>1. StoreInv
  BY DEF MoneyInit, StoreInv, SafeCalls, CallsType, NoCalls
<1>2. RowsInv
  BY MoneyConstants DEF MoneyInit, RowsInv
<1>3. NoTrade \in TradeType /\ NoTrade.state = "NONE"
  BY MoneyConstants DEF NoTrade, TradeType, RowType
<1>4. TradeInv
  BY <1>3 DEF MoneyInit, TradeInv
<1>5. Holds(AtRest, row)
  BY MoneyConstants DEF Holds, PendingPlaces
<1>6. RequestInv
  BY <1>5, MoneyConstants DEF MoneyInit, RequestInv
<1>7. ClockInv /\ EndedNeverBuys
  BY MoneyConstants DEF MoneyInit, ClockInv, EndedNeverBuys
<1> QED BY <1>1, <1>2, <1>4, <1>6, <1>7 DEF MoneyIInv

LEMMA MoneySteps ==
  MoneyIInv /\ [MoneyNext]_moneyVars => MoneyIInv' /\ RowMoves /\ IndexMoves /\ TradeMoves
<1> SUFFICES ASSUME MoneyIInv, [MoneyNext]_moneyVars
             PROVE  MoneyIInv' /\ RowMoves /\ IndexMoves /\ TradeMoves
  OBVIOUS
<1>1. StoreInv /\ RowsInv /\ TradeInv /\ RequestInv /\ ClockInv /\ EndedNeverBuys
  BY DEF MoneyIInv
<1>2. StoreInv' /\ ClockInv'
  BY <1>1, StoreStep, ClockStep
<1>3. RowsInv' /\ RowMoves /\ IndexMoves
  BY <1>1, RowStep DEF RowKept
<1>4. TradeInv' /\ TradeMoves
  BY <1>1, TradeStep
<1>5. RequestInv'
  BY <1>1, <1>3, RequestStep
<1>6. EndedNeverBuys'
  BY <1>1, <1>3, <1>4, EndedStep
<1> QED BY <1>2, <1>3, <1>4, <1>5, <1>6 DEF MoneyIInv

\* The strengthened invariant of a money call holds in every behaviour.
THEOREM MoneyInvariance == MoneySpec => []MoneyIInv
BY MoneyStarts, MoneySteps, PTL DEF MoneySpec

\* Every field of the rows, mirrors and requests stays in its range.
THEOREM MoneyTypes == MoneySpec => []MoneyTypeOK
<1>1. MoneyIInv => MoneyTypeOK
  <2> SUFFICES ASSUME MoneyIInv PROVE MoneyTypeOK
    OBVIOUS
  <2>1. row \in RowType /\ index \in RowType /\ index.state # "FUNDED"
    BY DEF MoneyIInv, RowsInv, Stored
  <2>2. calls \in CallsType /\ durable \in CallsType /\ unflushed \in Seq(CallsType)
    BY DEF MoneyIInv, StoreInv, SafeCalls
  <2>3. \A p \in Procs : proc[p].row \in RowType /\ proc[p].wallet \in Wallets
    BY DEF MoneyIInv, RequestInv, Request
  <2>4. open \in BOOLEAN /\ now \in 0..MaxNow /\ faults \in 0..MaxFaults
    BY DEF MoneyIInv, ClockInv
  <2>5. trade \in [Attempts -> [state : {"NONE", "PREPARING", "QUOTED", "SUBMITTED", "FILLED", "FAILED"},
                                wallet : Wallets, expires : Nat, signed : BOOLEAN]]
    BY DEF MoneyIInv, TradeInv, TradeType
  <2> QED BY <2>1, <2>2, <2>3, <2>4, <2>5 DEF MoneyTypeOK
<1> QED BY <1>1, MoneyInvariance, PTL

\* Whatever requests, sweeps, signatures and answers of the chain are in flight, and
\* however many attempts and wallets there are, a call that expired or was discarded
\* has no buy going through and never gets one.
THEOREM NoMoneyAfterTheEnd == MoneySpec => []EndedNeverBuys
<1>1. MoneyIInv => EndedNeverBuys
  BY DEF MoneyIInv
<1> QED BY <1>1, MoneyInvariance, PTL

\* No wallet is charged twice for a call, however its attempts are quoted, signed and
\* answered.
THEOREM OneBuyPerWallet == MoneySpec => []WalletBuysOnce
<1>1. MoneyInit => WalletBuysOnce
  BY DEF MoneyInit, WalletBuysOnce, Buying, NoTrade
<1>2. MoneyIInv /\ WalletBuysOnce /\ [MoneyNext]_moneyVars => WalletBuysOnce'
  BY MoneySteps, WalletStep
<1> QED BY <1>1, <1>2, MoneyInvariance, PTL DEF MoneySpec

\* No request, however old the quote it read, fails or starts again an attempt that
\* filled.
THEOREM FillIsFinal ==
  MoneySpec => [][\A a \in Attempts : trade[a].state = "FILLED" => trade'[a].state = "FILLED"]_moneyVars
<1>1. MoneyInit => RetiresUnsigned
  BY MoneyConstants DEF MoneyInit, RetiresUnsigned
<1>2. MoneyIInv /\ RetiresUnsigned /\ [MoneyNext]_moneyVars => RetiresUnsigned'
  BY UnsignedStep DEF MoneyIInv
<1>3. MoneyIInv /\ RetiresUnsigned /\ [MoneyNext]_moneyVars =>
        [\A a \in Attempts : trade[a].state = "FILLED" => trade'[a].state = "FILLED"]_moneyVars
  BY FillStep DEF MoneyIInv, FillKept
<1> QED BY <1>1, <1>2, <1>3, MoneyInvariance, PTL DEF MoneySpec

\* Only money makes a call FUNDED: one of its attempts filled, and still reads so.
THEOREM FundedWasBought == MoneySpec => []FundedIsFilled
<1>1. MoneyInit => RetiresUnsigned /\ FundedIsFilled
  BY MoneyConstants DEF MoneyInit, RetiresUnsigned, FundedIsFilled
<1>2. MoneyIInv /\ RetiresUnsigned /\ [MoneyNext]_moneyVars => RetiresUnsigned'
  BY UnsignedStep DEF MoneyIInv
<1>3. MoneyIInv /\ RetiresUnsigned /\ FundedIsFilled /\ [MoneyNext]_moneyVars => FundedIsFilled'
  BY MoneySteps, FillStep, FundedStep DEF MoneyIInv
<1> QED BY <1>1, <1>2, <1>3, MoneyInvariance, PTL DEF MoneySpec

\* At no point, and in no prefix of the writes a crash may keep, are the call and its
\* free replacement both live.
THEOREM NeverTwoLiveCalls == MoneySpec => []OneLiveCall
<1>1. MoneyIInv => OneLiveCall
  <2> SUFFICES ASSUME MoneyIInv, NEW c \in {calls, durable} \union Range(unflushed)
               PROVE  ~ (c.call = "live" /\ c.free = "live")
    BY DEF OneLiveCall
  <2>1. c \in SafeCalls
    BY DEF MoneyIInv, StoreInv, Range
  <2> QED BY <2>1 DEF SafeCalls
<1> QED BY <1>1, MoneyInvariance, PTL

\* A call that is private becomes public by its fill only, through any restart and any
\* row put back late.
THEOREM PrivateUntilFilled == MoneySpec => PrivacyKept
<1>1. MoneyIInv /\ [MoneyNext]_moneyVars =>
        [index.state # "NONE" /\ index'.state = "NONE" => row'.state = "FUNDED"]_moneyVars
  BY MoneySteps DEF IndexMoves
<1> QED BY <1>1, MoneyInvariance, PTL DEF MoneySpec, PrivacyKept

\* A fund is final: no request, sweep or restart that still holds an older row undoes it.
THEOREM FundIsFinal == MoneySpec => [][row.state = "FUNDED" => row'.state = "FUNDED"]_moneyVars
<1>1. MoneyIInv /\ [MoneyNext]_moneyVars =>
        [row.state = "FUNDED" => row'.state = "FUNDED"]_moneyVars
  BY MoneySteps DEF RowMoves
<1> QED BY <1>1, MoneyInvariance, PTL DEF MoneySpec
=============================================================================
