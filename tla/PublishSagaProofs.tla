--------------------------- MODULE PublishSagaProofs ---------------------------
(***************************************************************************)
(* Proofs about PublishSaga for any number of sessions and of handlers.     *)
(***************************************************************************)
EXTENDS PublishSaga, TLAPS

-----------------------------------------------------------------------------
(* The inductive invariant *)

Signed(s) == session[s] \notin {"NONE", "QUOTED"}
(* The create of s has failed, or can no longer land and never did. *)
DeadEnd(s) == tx[s] = "erred" \/ (dead[s] /\ tx[s] # "paid")

SoundRows ==
  /\ \A s \in Sessions : tx[s] # "unsent" => Signed(s)
  /\ \A s, t \in Active : s = t
  /\ \A s \in Sessions : session[s] = "REGISTERED" => tx[s] = "paid"

SoundHandler(p) ==
  /\ proc[p].at \in (Submission \union Refreshment) \ {"look", "commit"} => Signed(Mine(p))
  /\ At(p, "commit") => session[Mine(p)] # "NONE"
  /\ At(p, "ask") /\ proc[p].question = 4 => dead[Mine(p)]
  /\ proc[p].at \in {"fail", "release"} => DeadEnd(Mine(p))
  /\ proc[p].at \in {"record", "live"} => tx[Mine(p)] = "paid"

(* What is true while requests of one kind do not overlap. *)
Alone(places) == \A p, q \in Handlers : proc[p].at \in places /\ proc[q].at \in places => p = q
SoundSubmission(p) ==
  /\ proc[p].at \in {"commit", "claim", "hold", "retire"} => status # "publishing"
  /\ At(p, "send") => session[Mine(p)] = "FAILED" \/ status \in {"publishing", "live"}
SoundRefreshment(p) ==
  /\ proc[p].at \in Refreshment => status = "publishing"
  /\ proc[p].at \in {"ask", "fail", "record"} => session[Mine(p)] = "SUBMITTED"
  /\ proc[p].at \in {"verify", "live"} => session[Mine(p)] = "REGISTERED"
  /\ At(p, "release") => Active = {}
Untouched(s) == tx[s] = "unsent" /\ \A p \in Handlers : proc[p].at \in Submission => Mine(p) # s
Orderly ==
  /\ Alone(Submission)
  /\ Alone(Refreshment)
  /\ \A p \in Handlers : SoundSubmission(p)
  /\ \A p \in Handlers : SoundRefreshment(p)
  /\ \A s \in Sessions : session[s] = "FAILED" => DeadEnd(s) \/ Untouched(s)
  /\ \A s \in Active : tx[s] # "unsent" => status \in {"publishing", "live"}

IInv ==
  /\ TypeOK
  /\ SoundRows
  /\ \A p \in Handlers : SoundHandler(p)
  /\ LiveIsPaid
  /\ ~overlapped => Orderly

-----------------------------------------------------------------------------
(* Types *)

\* What a handler remembers at each place it may be at.
LEMMA PlaceFields ==
  ASSUME NEW x \in Places
  PROVE  /\ x.at \in {"idle"} \union Submission \union Refreshment
         /\ x.at \in (Submission \union Refreshment) \ {"look"} => x.session \in Sessions
         /\ x.at = "ask" => x.question \in 1..4
         /\ x.at = "idle" => x = Idle
         /\ x.at = "look" => x = [at |-> "look"]
BY DEF Places, Idle, Submission, Refreshment

\* The places a handler goes to are places.
LEMMA PlacesMade ==
  /\ Idle \in Places /\ [at |-> "look"] \in Places
  /\ \A s \in Sessions :
       /\ \A place \in Submission \union (Refreshment \ {"look", "ask"}) :
            [at |-> place, session |-> s] \in Places
       /\ \A n \in 1..4 : [at |-> "ask", session |-> s, question |-> n] \in Places
BY DEF Places

LEMMA AnswerMoves ==
  ASSUME NEW p \in Handlers, TypeOK, Answer(p)
  PROVE  /\ Mine(p) \in Sessions /\ proc[p].question \in 1..4 /\ At(p, "ask")
         /\ \/ Goto(p, "record", Mine(p)) /\ tx[Mine(p)] = "paid"
            \/ Goto(p, "fail", Mine(p)) /\ tx[Mine(p)] = "erred"
            \/ proc[p].question = 4 /\ Goto(p, "fail", Mine(p)) /\ ~Seen(Mine(p))
            \/ /\ proc[p].question \in 1..3
               /\ Ask(p, Mine(p), proc[p].question + 1)
               /\ proc[p].question = 3 => dead[Mine(p)]
<1>1. proc[p] \in Places /\ At(p, "ask")
  BY DEF TypeOK, Answer
<1>2. Mine(p) \in Sessions /\ proc[p].question \in 1..4
  BY <1>1, PlaceFields DEF At, Mine, Refreshment
<1>3. /\ Questions[1] = "register" /\ Questions[2] = "failed" /\ Questions[3] = "height" /\ Questions[4] = "seen"
      /\ Len(Questions) = 4
  BY DEF Questions
<1>4. CASE proc[p].question = 4
  BY <1>1, <1>2, <1>3, <1>4 DEF Answer, Registers, OnChain
<1>5. CASE proc[p].question \in 1..3
  BY <1>1, <1>2, <1>3, <1>5 DEF Answer, Registers, OnChain
<1> QED
  BY <1>1, <1>2, <1>4, <1>5

LEMMA TypeStep ==
  ASSUME TypeOK, [Next]_vars
  PROVE  TypeOK'
<1> USE DEF TypeOK, Statuses, States, outside, history
<1>1. \A p \in Handlers : proc[p] \in Places
  OBVIOUS
<1>2. ASSUME NEW p \in Handlers, NEW place \in Submission \union (Refreshment \ {"look", "ask"}), NEW s \in Sessions, Goto(p, place, s)
      PROVE  proc' \in [Handlers -> Places]
  BY <1>2, PlacesMade DEF Goto
<1>3. ASSUME NEW p \in Handlers, Done(p)
      PROVE  proc' \in [Handlers -> Places]
  BY <1>3, PlacesMade DEF Done
<1>4. ASSUME NEW s \in Sessions, NEW from, NEW to \in States, SetSession(s, from, to)
      PROVE  session' \in [Sessions -> States]
  BY <1>4 DEF SetSession
<1>5. ASSUME NEW p \in Handlers, proc[p].at \in (Submission \union Refreshment) \ {"look"}
      PROVE  Mine(p) \in Sessions
  BY <1>5, PlaceFields DEF Mine
<1>6. ASSUME NEW decision \in Decisions, Decide(decision)
      PROVE  TypeOK'
  BY <1>6 DEF Decide, Decisions
<1>7. ASSUME NEW p \in Handlers, NEW s \in Sessions, Submit(p, s)
      PROVE  TypeOK'
  BY <1>2, <1>7 DEF Submit, Submission, Busy
<1>8. ASSUME NEW p \in Handlers, Submitting(p)
      PROVE  TypeOK'
  <2>1. CASE Commit(p)
    BY <1>2, <1>3, <1>4, <1>5, <2>1 DEF Commit, Submission, At
  <2>2. CASE Retry(p)
    BY <1>2, <1>5, <2>2 DEF Retry, Submission, At
  <2>3. CASE Claim(p)
    BY <1>2, <1>5, <2>3 DEF Claim, Submission, At
  <2>4. CASE Hold(p)
    BY <1>2, <1>5, <2>4 DEF Hold, Submission, At, SetStatus
  <2>5. CASE Retire(p)
    BY <1>3, <1>4, <1>5, <2>5 DEF Retire, Submission, At
  <2>6. CASE Send(p)
    BY <1>3, <1>5, <2>6 DEF Send, Submission, At
  <2> QED
    BY <1>8, <2>1, <2>2, <2>3, <2>4, <2>5, <2>6 DEF Submitting
<1>9. ASSUME NEW p \in Handlers, Refresh(p)
      PROVE  TypeOK'
  BY <1>9, PlacesMade DEF Refresh, Busy
<1>10. ASSUME NEW p \in Handlers, Refreshing(p)
      PROVE  TypeOK'
  <2>1. CASE Look(p)
    <3>1. ASSUME NEW s \in Sessions, Ask(p, s, 1)
          PROVE  proc' \in [Handlers -> Places]
      <4>1. [at |-> "ask", session |-> s, question |-> 1] \in Places
        BY 1 \in 1..4, PlacesMade
      <4> QED
        BY <3>1, <4>1 DEF Ask
    <3> QED
      BY <1>2, <1>3, <2>1, <3>1 DEF Look, Refreshment, Active
  <2>2. CASE Answer(p)
    <3>1. ASSUME NEW s \in Sessions, NEW n \in 1..4, Ask(p, s, n)
          PROVE  proc' \in [Handlers -> Places]
      BY <3>1, PlacesMade DEF Ask
    <3>2. Mine(p) \in Sessions /\ proc[p].question \in 1..4
      BY <2>2, AnswerMoves
    <3>3. proc' \in [Handlers -> Places]
      <4>1. /\ Ask(p, Mine(p), proc[p].question + 1) /\ proc[p].question \in 1..3
            \/ Goto(p, "record", Mine(p)) \/ Goto(p, "fail", Mine(p))
        BY <2>2, AnswerMoves
      <4>2. proc[p].question \in 1..3 => proc[p].question + 1 \in 1..4
        OBVIOUS
      <4>3. Goto(p, "record", Mine(p)) \/ Goto(p, "fail", Mine(p)) => proc' \in [Handlers -> Places]
        BY <1>2, <3>2 DEF Refreshment
      <4> QED
        BY ONLY <3>1, <3>2, <4>1, <4>2, <4>3
    <3> QED
      BY <2>2, <3>3 DEF Answer
  <2>3. CASE Fail(p)
    BY <1>2, <1>4, <1>5, <2>3 DEF Fail, Refreshment, At
  <2>4. CASE Release(p)
    BY <1>3, <2>4 DEF Release, SetStatus
  <2>5. CASE Record(p)
    BY <1>2, <1>4, <1>5, <2>5 DEF Record, Refreshment, At
  <2>6. CASE Verify(p)
    BY <1>2, <1>5, <2>6 DEF Verify, Refreshment, At
  <2>7. CASE GoLive(p)
    BY <1>3, <2>7 DEF GoLive, SetStatus
  <2> QED
    BY <1>10, <2>1, <2>2, <2>3, <2>4, <2>5, <2>6, <2>7 DEF Refreshing
<1>11. ASSUME NEW p \in Handlers, Stop(p)
      PROVE  TypeOK'
  BY <1>3, <1>11 DEF Stop
<1>12. ASSUME NEW s \in Sessions, Prepare(s) \/ Expire(s) \/ Pass(s) \/ Land(s) \/ Refuse(s)
      PROVE  TypeOK'
  BY <1>12 DEF Prepare, Expire, Pass, Land, Refuse, SetSession
<1>13. CASE Deadline \/ UNCHANGED vars
  BY <1>13 DEF Deadline, vars
<1> QED
  BY <1>6, <1>7, <1>8, <1>9, <1>10, <1>11, <1>12, <1>13 DEF Next

-----------------------------------------------------------------------------
(* The rows and the handlers, whatever overlaps *)

\* A settled session stays settled, a dead end stays one, a paid create stays paid.
LEMMA Stable ==
  ASSUME TypeOK, SoundRows, [Next]_vars, NEW s \in Sessions
  PROVE  /\ session[s] # "NONE" => session'[s] # "NONE"
         /\ Signed(s) => Signed(s)'
         /\ session[s] \in {"FAILED", "REGISTERED"} => session'[s] = session[s]
         /\ dead[s] => dead'[s]
         /\ tx[s] \in {"paid", "erred"} => tx'[s] = tx[s]
         /\ tx[s] # "unsent" => tx'[s] # "unsent"
         /\ DeadEnd(s) => DeadEnd(s)'
<1> USE DEF TypeOK, States, Signed, DeadEnd, SetSession, outside, history
<1> DEFINE Stays == /\ session[s] # "NONE" => session'[s] # "NONE"
                    /\ Signed(s) => Signed(s)'
                    /\ session[s] \in {"FAILED", "REGISTERED"} => session'[s] = session[s]
                    /\ dead[s] => dead'[s]
                    /\ tx[s] \in {"paid", "erred"} => tx'[s] = tx[s]
                    /\ tx[s] # "unsent" => tx'[s] # "unsent"
                    /\ DeadEnd(s) => DeadEnd(s)'
<1>1. ASSUME NEW p \in Handlers, Submitting(p)
      PROVE  Stays
  BY <1>1 DEF Submitting, Commit, Retry, Claim, Hold, Retire, Send, At, Done
<1>2. ASSUME NEW p \in Handlers, Refreshing(p)
      PROVE  Stays
  BY <1>2 DEF Refreshing, Look, Answer, Fail, Release, Record, Verify, GoLive
<1>3. ASSUME NEW p \in Handlers, Refresh(p) \/ Stop(p) \/ \E t \in Sessions : Submit(p, t)
      PROVE  Stays
  BY <1>3 DEF Refresh, Stop, Submit
<1>4. ASSUME NEW t \in Sessions, Prepare(t) \/ Expire(t) \/ Pass(t) \/ Land(t) \/ Refuse(t)
      PROVE  Stays
  BY <1>4 DEF Prepare, Expire, Pass, Land, Refuse
<1>5. ASSUME Deadline \/ UNCHANGED vars \/ \E decision \in Decisions : Decide(decision)
      PROVE  Stays
  BY <1>5 DEF Deadline, vars, Decide
<1> QED
  BY <1>1, <1>2, <1>3, <1>4, <1>5 DEF Next

LEMMA RowsStep ==
  ASSUME TypeOK, SoundRows, \A p \in Handlers : SoundHandler(p), [Next]_vars
  PROVE  SoundRows'
<1> USE DEF TypeOK, States, outside, history
<1>0. \A p \in Handlers : proc[p] \in Places
  OBVIOUS
<1>1. ASSUME NEW s \in Sessions, tx'[s] # "unsent"
      PROVE  Signed(s)'
  <2>1. CASE tx[s] # "unsent"
    BY <2>1, Stable DEF SoundRows
  <2>2. CASE tx[s] = "unsent"
    <3>1. PICK p \in Handlers : Send(p) /\ Mine(p) = s
      BY <1>1, <2>2 DEF Next, vars, Submitting, Refreshing, Commit, Retry, Claim, Hold, Retire, Send, Look, Answer, Fail, Release,
         Record, Verify, GoLive, Refresh, Stop, Submit, Prepare, Expire, Pass, Land, Refuse, Deadline, Decide
    <3>2. Signed(s)
      BY <3>1 DEF Send, At, SoundHandler, Submission
    <3> QED
      BY <3>2, Stable
  <2> QED
    BY <2>1, <2>2
<1>2. ASSUME NEW s \in Sessions, s \in Active', s \notin Active
      PROVE  \E p \in Handlers : Commit(p) /\ Mine(p) = s /\ Free(s) /\ session' = [session EXCEPT ![s] = "SUBMITTED"]
  <2>1. \A p \in Handlers : ~Fail(p) /\ ~Retire(p) /\ ~Record(p)
    BY <1>2 DEF Active, Fail, Retire, Record, SetSession
  <2>2. \A t \in Sessions : ~Prepare(t)
    BY <1>2 DEF Active, Prepare, SetSession
  <2>3. PICK p \in Handlers : Commit(p)
    BY <1>2, <2>1, <2>2 DEF Active, Next, vars, Submitting, Refreshing, Retry, Claim, Hold, Send, Look, Answer, Release,
         Verify, GoLive, Refresh, Stop, Submit, Expire, Pass, Land, Refuse, Deadline, Decide
  <2> QED
    BY <1>2, <2>3 DEF Active, Commit, SetSession
<1>3. ASSUME NEW s \in Active', NEW t \in Active'
      PROVE  s = t
  <2>1. s \in Sessions /\ t \in Sessions
    BY DEF Active
  <2>2. CASE s \in Active /\ t \in Active
    BY <2>2 DEF SoundRows
  <2>3. CASE s \notin Active
    BY <1>2, <2>1, <2>3 DEF Free, Active
  <2>4. CASE t \notin Active
    BY <1>2, <2>1, <2>4 DEF Free, Active
  <2> QED
    BY <2>2, <2>3, <2>4
<1>4. ASSUME NEW s \in Sessions, session'[s] = "REGISTERED"
      PROVE  tx'[s] = "paid"
  <2>1. CASE session[s] = "REGISTERED"
    BY <2>1, Stable DEF SoundRows
  <2>2. CASE session[s] # "REGISTERED"
    <3>1. PICK p \in Handlers : Record(p) /\ Mine(p) = s
      <4>1. ASSUME NEW p \in Handlers, Submitting(p)
            PROVE  FALSE
        BY <1>4, <2>2, <4>1 DEF Submitting, Commit, Retry, Claim, Hold, Retire, Send, SetSession
      <4>2. ASSUME NEW p \in Handlers, Refreshing(p)
            PROVE  Record(p) /\ Mine(p) = s
        BY <1>4, <2>2, <4>2 DEF Refreshing, Look, Answer, Fail, Release, Record, Verify, GoLive, SetSession
      <4>3. ASSUME NEW p \in Handlers, Refresh(p) \/ Stop(p) \/ \E t \in Sessions : Submit(p, t)
            PROVE  FALSE
        BY <1>4, <2>2, <4>3 DEF Refresh, Stop, Submit
      <4>4. ASSUME NEW t \in Sessions, Prepare(t) \/ Expire(t) \/ Pass(t) \/ Land(t) \/ Refuse(t)
            PROVE  FALSE
        BY <1>4, <2>2, <4>4 DEF Prepare, Expire, Pass, Land, Refuse, SetSession
      <4>5. ASSUME Deadline \/ (\E decision \in Decisions : Decide(decision)) \/ UNCHANGED vars
            PROVE  FALSE
        BY <1>4, <2>2, <4>5 DEF Deadline, Decide, vars
      <4> QED
        BY <4>1, <4>2, <4>3, <4>4, <4>5 DEF Next
    <3>2. tx[s] = "paid"
      BY <3>1 DEF Record, At, SoundHandler
    <3> QED
      BY <3>2, Stable
  <2> QED
    BY <2>1, <2>2
<1> QED
  BY <1>1, <1>3, <1>4 DEF SoundRows

\* Who moved: at most one handler in a step, by one of its own actions.
LEMMA Moves ==
  ASSUME TypeOK, [Next]_vars, NEW p \in Handlers, proc'[p] # proc[p]
  PROVE  /\ \/ Submitting(p) \/ Refreshing(p) \/ Refresh(p) \/ Stop(p)
            \/ \E s \in Sessions : Submit(p, s)
         /\ \A q \in Handlers \ {p} : proc'[q] = proc[q]
<1>1. ASSUME NEW q \in Handlers, Submitting(q) \/ Refreshing(q) \/ Refresh(q) \/ Stop(q) \/ \E s \in Sessions : Submit(q, s)
      PROVE  \A r \in Handlers \ {q} : proc'[r] = proc[r]
  BY <1>1 DEF TypeOK, Submitting, Refreshing, Commit, Retry, Claim, Hold, Retire, Send, Look, Answer, Fail, Release,
         Record, Verify, GoLive, Refresh, Stop, Submit, Done, Goto, Ask
<1>2. ASSUME ~\E q \in Handlers : Submitting(q) \/ Refreshing(q) \/ Refresh(q) \/ Stop(q) \/ \E s \in Sessions : Submit(q, s)
      PROVE  FALSE
  BY <1>2 DEF Next, vars, Prepare, Expire, Pass, Land, Refuse, Deadline, Decide
<1> QED
  BY <1>1, <1>2

LEMMA HandlerStep ==
  ASSUME TypeOK, SoundRows, \A q \in Handlers : SoundHandler(q), [Next]_vars, NEW p \in Handlers
  PROVE  SoundHandler(p)'
<1>1. proc[p] \in Places /\ SoundHandler(p)
  BY DEF TypeOK
<1>2. proc[p].at \in (Submission \union Refreshment) \ {"look"} => Mine(p) \in Sessions
  BY <1>1, PlaceFields DEF Mine
<1>3. CASE proc'[p] = proc[p]
  <2>1. \A t \in Sessions :
           /\ session[t] # "NONE" => session'[t] # "NONE"
           /\ Signed(t) => Signed(t)'
           /\ dead[t] => dead'[t]
           /\ tx[t] = "paid" => tx'[t] = "paid"
           /\ DeadEnd(t) => DeadEnd(t)'
    BY Stable
  <2> QED
    BY <1>1, <1>2, <1>3, <2>1 DEF SoundHandler, At, Mine, Submission, Refreshment, Signed, DeadEnd
<1>4. CASE Submitting(p)
  BY <1>1, <1>2, <1>4, Stable DEF TypeOK, Submitting, Commit, Retry, Claim, Hold, Retire, Send, At, Mine, Done, Goto, Idle, SetSession,
     SoundHandler, Submission, Refreshment, Signed, States
<1>5. CASE Answer(p)
  BY <1>1, <1>2, <1>5, Stable, AnswerMoves DEF TypeOK, Mine, At, Goto, Ask, Seen, SoundHandler, Submission, Refreshment, Signed, DeadEnd
<1>6. CASE Refreshing(p) /\ ~Answer(p)
  BY <1>1, <1>2, <1>6, Stable DEF TypeOK, Refreshing, Look, Fail, Release, Record, Verify, GoLive, At, Mine, Done, Goto, Ask, Idle, SetSession,
     SoundHandler, Submission, Refreshment, Signed, DeadEnd, States, Active, SoundRows, Confirmed, OnChain
<1>7. CASE Refresh(p) \/ Stop(p)
  BY <1>7 DEF TypeOK, Refresh, Stop, Done, Idle, SoundHandler, At, Submission, Refreshment
<1>8. ASSUME NEW t \in Sessions, Submit(p, t)
      PROVE  SoundHandler(p)'
  BY <1>8 DEF TypeOK, Submit, Goto, Mine, SoundHandler, At, Submission, Refreshment, Signed, outside
<1> QED
  BY <1>3, <1>4, <1>5, <1>6, <1>7, <1>8, Moves

LEMMA LiveStep ==
  ASSUME IInv, [Next]_vars
  PROVE  LiveIsPaid'
<1>1. SUFFICES ASSUME status' = "live"
               PROVE  \E s \in Paid' : overlapped' \/ session'[s] = "REGISTERED"
  BY DEF LiveIsPaid
<1>2. overlapped => overlapped'
  BY DEF Next, vars, history, Submitting, Refreshing, Commit, Retry, Claim, Hold, Retire, Send, Look, Answer, Fail, Release,
         Record, Verify, GoLive, Refresh, Stop, Submit, Prepare, Expire, Pass, Land, Refuse, Deadline, Decide
<1>3. CASE status = "live"
  <2>1. PICK s \in Paid : overlapped \/ session[s] = "REGISTERED"
    BY <1>3 DEF IInv, LiveIsPaid
  <2> QED
    BY <1>2, <2>1, Stable DEF IInv, Paid
<1>4. CASE status # "live"
  <2>1. PICK p \in Handlers : GoLive(p)
    BY <1>1, <1>4 DEF Next, vars, SetStatus, Decisions, Submitting, Refreshing, Commit, Retry, Claim, Hold, Retire, Send, Look, Answer,
       Fail, Release, Record, Verify, Refresh, Stop, Submit, Prepare, Expire, Pass, Land, Refuse, Deadline, Decide
  <2>2. tx[Mine(p)] = "paid" /\ Mine(p) \in Sessions /\ UNCHANGED <<session, tx, overlapped>>
    BY <2>1, PlaceFields DEF IInv, TypeOK, SoundHandler, GoLive, At, Mine, Refreshment, outside, history
  <2>3. ~overlapped => session[Mine(p)] = "REGISTERED"
    BY <2>1 DEF IInv, Orderly, SoundRefreshment, GoLive, At
  <2> QED
    BY <2>2, <2>3 DEF Paid
<1> QED
  BY <1>3, <1>4

-----------------------------------------------------------------------------
(* What stays true while requests of one kind do not overlap *)

\* An overlap is never forgotten, and a request that starts beside another of its kind is one.
LEMMA OverlapKept ==
  ASSUME [Next]_vars, ~overlapped'
  PROVE  /\ ~overlapped
         /\ \A p \in Handlers, s \in Sessions : Submit(p, s) => ~Busy(Submission)
         /\ \A p \in Handlers : Refresh(p) => ~Busy(Refreshment)
<1>1. ASSUME NEW p \in Handlers, Submitting(p) \/ Refreshing(p)
      PROVE  ~overlapped
  BY <1>1 DEF history, Submitting, Refreshing, Commit, Retry, Claim, Hold, Retire, Send, Look, Answer, Fail, Release,
     Record, Verify, GoLive
<1>2. ASSUME NEW p \in Handlers, Stop(p)
      PROVE  ~overlapped
  BY <1>2 DEF Stop
<1>3. \A p \in Handlers, s \in Sessions : Submit(p, s) => ~overlapped /\ ~Busy(Submission)
  BY DEF Submit
<1>4. \A p \in Handlers : Refresh(p) => ~overlapped /\ ~Busy(Refreshment)
  BY DEF Refresh
<1>5. ASSUME NEW s \in Sessions, Prepare(s) \/ Expire(s) \/ Pass(s) \/ Land(s) \/ Refuse(s)
      PROVE  ~overlapped
  BY <1>5 DEF Prepare, Expire, Pass, Land, Refuse, history
<1>6. ASSUME Deadline \/ UNCHANGED vars \/ \E decision \in Decisions : Decide(decision)
      PROVE  ~overlapped
  BY <1>6 DEF Deadline, vars, Decide, history
<1> QED
  BY <1>1, <1>2, <1>3, <1>4, <1>5, <1>6 DEF Next

\* Whoever is in a request was in it before, for the same session, or has just started it.
LEMMA Enters ==
  ASSUME TypeOK, [Next]_vars, NEW p \in Handlers
  PROVE  /\ proc'[p].at \in Submission =>
              \/ proc[p].at \in Submission /\ Mine(p)' = Mine(p)
              \/ \E s \in Sessions : Submit(p, s) /\ Mine(p)' = s
         /\ proc'[p].at \in Refreshment => proc[p].at \in Refreshment \/ Refresh(p)
<1> USE DEF TypeOK, Done, Goto, Ask, Idle, Mine, At, Submission, Refreshment
<1>1. CASE proc'[p] = proc[p]
  BY <1>1
<1>2. CASE Submitting(p)
  BY <1>2 DEF Submitting, Commit, Retry, Claim, Hold, Retire, Send
<1>3. CASE Answer(p)
  BY <1>3, AnswerMoves
<1>4. CASE Refreshing(p) /\ ~Answer(p)
  BY <1>4 DEF Refreshing, Look, Fail, Release, Record, Verify, GoLive
<1>5. CASE Refresh(p) \/ Stop(p)
  BY <1>5 DEF Refresh, Stop
<1>6. ASSUME NEW s \in Sessions, Submit(p, s)
      PROVE  proc'[p].at \in Submission /\ Mine(p)' = s
  BY <1>6 DEF Submit
<1>7. ~(\E s \in Sessions : Submit(p, s)) \/ (proc'[p].at \in Submission /\ proc'[p].at \notin Refreshment)
  BY <1>6
<1> QED
  BY <1>1, <1>2, <1>3, <1>4, <1>5, <1>6, <1>7, Moves

LEMMA AloneStep ==
  ASSUME IInv, [Next]_vars, ~overlapped'
  PROVE  Alone(Submission)' /\ Alone(Refreshment)'
<1>0. TypeOK /\ ~overlapped /\ Alone(Submission) /\ Alone(Refreshment)
  BY OverlapKept DEF IInv, Orderly
<1>1. ASSUME NEW p \in Handlers, NEW q \in Handlers, proc'[p].at \in Submission, proc'[q].at \in Submission
      PROVE  p = q
  <2>1. CASE proc[p].at \in Submission /\ proc[q].at \in Submission
    BY <1>0, <2>1 DEF Alone
  <2>2. ASSUME NEW r \in Handlers, NEW s \in Sessions, Submit(r, s), proc[r].at \notin Submission
        PROVE  (p # r => proc'[p].at \notin Submission) /\ (q # r => proc'[q].at \notin Submission)
    <3>1. \A t \in Handlers : proc[t].at \notin Submission
      BY <2>2, OverlapKept DEF Busy
    <3>2. \A t \in Handlers \ {r} : proc'[t] = proc[t]
      BY <1>0, <2>2 DEF Submit, Goto, TypeOK
    <3> QED
      BY <3>1, <3>2
  <2>3. \A r \in Handlers, s \in Sessions : Submit(r, s) => proc[r].at \notin Submission
    BY DEF Submit, At, Submission
  <2> QED
    BY <1>0, <1>1, <2>1, <2>2, <2>3, Enters
<1>2. ASSUME NEW p \in Handlers, NEW q \in Handlers, proc'[p].at \in Refreshment, proc'[q].at \in Refreshment
      PROVE  p = q
  <2>1. CASE proc[p].at \in Refreshment /\ proc[q].at \in Refreshment
    BY <1>0, <2>1 DEF Alone
  <2>2. ASSUME NEW r \in Handlers, Refresh(r)
        PROVE  (p # r => proc'[p].at \notin Refreshment) /\ (q # r => proc'[q].at \notin Refreshment)
    <3>1. \A t \in Handlers : proc[t].at \notin Refreshment
      BY <2>2, OverlapKept DEF Busy
    <3>2. \A t \in Handlers \ {r} : proc'[t] = proc[t]
      BY <1>0, <2>2 DEF Refresh, TypeOK
    <3> QED
      BY <3>1, <3>2
  <2> QED
    BY <1>0, <1>2, <2>1, <2>2, Enters
<1> QED
  BY <1>1, <1>2 DEF Alone

\* While a proposal is being refreshed, nothing but that refresh changes its rows.
LEMMA Frozen ==
  ASSUME IInv, [Next]_vars, ~overlapped', NEW q \in Handlers, proc[q].at \in Refreshment, proc'[q] = proc[q]
  PROVE  session' = session /\ status' = status
<1>0. TypeOK /\ Orderly /\ status = "publishing"
  BY OverlapKept DEF IInv, Orderly, SoundRefreshment
<1>1. ASSUME NEW p \in Handlers, Refreshing(p)
      PROVE  FALSE
  <2>1. proc[p].at \in Refreshment
    BY <1>1 DEF Refreshing, Look, Answer, Fail, Release, Record, Verify, GoLive, At, Refreshment
  <2>2. p = q
    BY <1>0, <2>1 DEF Orderly, Alone
  <2>3. CASE Answer(p)
    <3>1. At(p, "ask") /\ (proc'[p].at # "ask" \/ proc'[p].question = proc[p].question + 1) /\ proc[p].question \in 1..4
      BY <1>0, <2>3, AnswerMoves DEF Goto, Ask, TypeOK
    <3> QED
      BY <2>2, <3>1 DEF At
  <2>4. CASE ~Answer(p)
    BY <1>0, <1>1, <2>2, <2>4 DEF Refreshing, Look, Fail, Release, Record, Verify, GoLive, At, Done, Goto, Ask, Idle, TypeOK
  <2> QED
    BY <2>3, <2>4
<1>2. \A p \in Handlers : ~Commit(p) /\ ~Hold(p) /\ ~Retire(p)
  BY <1>0 DEF Orderly, SoundSubmission, Commit, Hold, Retire, At
<1>3. (\A decision : ~Decide(decision)) /\ (\A s : ~Prepare(s))
  BY <1>0 DEF Decide, Prepare, Publishable
<1> QED
  BY <1>1, <1>2, <1>3 DEF Next, vars, Submitting, Retry, Claim, Send, Refresh, Stop, Submit, Expire, Pass, Land, Refuse, Deadline

LEMMA RefreshmentStep ==
  ASSUME IInv, [Next]_vars, ~overlapped', NEW p \in Handlers
  PROVE  SoundRefreshment(p)'
<1>0. TypeOK /\ SoundRows /\ Orderly /\ SoundRefreshment(p) /\ proc[p] \in Places
  BY OverlapKept DEF IInv, Orderly, TypeOK
<1>1. CASE proc'[p].at \notin Refreshment
  BY <1>1 DEF SoundRefreshment, Refreshment, At
<1>2. CASE proc[p].at \in Refreshment /\ proc'[p] = proc[p]
  BY <1>0, <1>2, Frozen DEF SoundRefreshment, At, Mine, Active
<1>3. CASE Refresh(p)
  BY <1>0, <1>3 DEF Refresh, SoundRefreshment, At, TypeOK
<1>4. CASE Answer(p)
  <2>1. /\ status' = status /\ session' = session /\ status = "publishing"
        /\ session[Mine(p)] = "SUBMITTED"
    BY <1>0, <1>4 DEF Answer, SoundRefreshment, At, Refreshment
  <2>2. /\ \/ Goto(p, "record", Mine(p)) \/ Goto(p, "fail", Mine(p))
           \/ Ask(p, Mine(p), proc[p].question + 1)
        /\ proc \in [Handlers -> Places]
    BY <1>0, <1>4, AnswerMoves DEF TypeOK
  <2>3. proc'[p].at \in {"record", "fail", "ask"} /\ proc'[p].session = Mine(p)
    BY ONLY <2>2 DEF Goto, Ask
  <2> QED
    BY ONLY <2>1, <2>3 DEF SoundRefreshment, At, Mine
<1>5. CASE Fail(p)
  <2>1. Mine(p) \in Sessions /\ session[Mine(p)] = "SUBMITTED" /\ status = "publishing"
    BY <1>0, <1>5, PlaceFields DEF Fail, At, Mine, Refreshment, SoundRefreshment
  <2>2. session' = [session EXCEPT ![Mine(p)] = "FAILED"]
    BY <1>5, <2>1 DEF Fail, SetSession
  <2>3. Active' = {}
    BY <1>0, <2>1, <2>2 DEF Active, SoundRows, TypeOK
  <2>4. proc'[p].at = "release" /\ status' = status
    BY <1>0, <1>5 DEF Fail, Goto, TypeOK
  <2> QED
    BY <2>1, <2>3, <2>4 DEF SoundRefreshment, At
<1>6. CASE Record(p)
  <2>1. Mine(p) \in Sessions /\ session[Mine(p)] = "SUBMITTED" /\ status = "publishing"
    BY <1>0, <1>6, PlaceFields DEF Record, At, Mine, Refreshment, SoundRefreshment
  <2> QED
    BY <1>0, <1>6, <2>1 DEF Record, SetSession, Goto, SoundRefreshment, At, Mine, TypeOK
<1>7. CASE Look(p)
  BY <1>0, <1>7 DEF Look, Done, Goto, Ask, Idle, SoundRefreshment, At, Mine, Refreshment, Active, TypeOK
<1>8. CASE Verify(p)
  BY <1>0, <1>8 DEF Verify, Goto, SoundRefreshment, At, Mine, Refreshment, TypeOK
<1>9. CASE Release(p) \/ GoLive(p) \/ Stop(p)
  BY <1>0, <1>9 DEF Release, GoLive, Stop, Done, Idle, SoundRefreshment, At, Refreshment, TypeOK
<1>10. ASSUME Submitting(p) \/ \E s \in Sessions : Submit(p, s)
       PROVE  proc[p].at \notin Refreshment
  BY <1>10 DEF Submitting, Commit, Retry, Claim, Hold, Retire, Send, Submit, At, Refreshment
<1> QED
  BY <1>0, <1>1, <1>2, <1>3, <1>4, <1>5, <1>6, <1>7, <1>8, <1>9, <1>10, Moves, Enters DEF Refreshing

LEMMA SubmissionStep ==
  ASSUME IInv, [Next]_vars, ~overlapped', NEW p \in Handlers
  PROVE  SoundSubmission(p)'
<1>0. TypeOK /\ SoundRows /\ Orderly /\ SoundSubmission(p) /\ proc[p] \in Places /\ SoundHandler(p)
  BY OverlapKept DEF IInv, Orderly, TypeOK
<1>1. CASE proc'[p].at \notin Submission
  BY <1>1 DEF SoundSubmission, Submission, At
<1>2. CASE proc[p].at \in Submission /\ proc'[p] = proc[p]
  <2>1. proc[p].at # "send" => status' # "publishing" \/ status = "publishing"
    <3>1. \A q \in Handlers : Hold(q) /\ status' = "publishing" => q = p /\ proc'[q].at = "send"
      BY <1>0, <1>2 DEF Hold, SetStatus, Goto, At, Orderly, Alone, Submission, TypeOK
    <3>2. ASSUME ~\E q \in Handlers : Hold(q)
          PROVE  status' # "publishing" \/ status = "publishing"
      BY <3>2 DEF Next, vars, SetStatus, Decisions, Submitting, Refreshing, Commit, Retry, Claim, Retire, Send, Look, Answer,
         Fail, Release, Record, Verify, GoLive, Refresh, Stop, Submit, Prepare, Expire, Pass, Land, Refuse, Deadline, Decide
    <3> QED
      BY <1>2, <3>1, <3>2
  <2>2. CASE At(p, "send")
    <3>1. Mine(p) \in Sessions /\ Signed(Mine(p))
      BY <1>0, <2>2, PlaceFields DEF At, Mine, Submission, SoundHandler
    <3>2. CASE session[Mine(p)] = "FAILED"
      BY <1>0, <1>2, <2>2, <3>1, <3>2, Stable DEF SoundSubmission, At, Mine
    <3>3. CASE status' \in {"publishing", "live"}
      BY <1>2, <2>2, <3>3 DEF SoundSubmission, At
    <3>4. CASE session[Mine(p)] # "FAILED" /\ status' \notin {"publishing", "live"}
      <4>1. status \in {"publishing", "live"}
        BY <1>0, <2>2, <3>4 DEF SoundSubmission
      <4>2. PICK q \in Handlers : Release(q)
        BY <3>4, <4>1 DEF Next, vars, SetStatus, Submitting, Refreshing, Commit, Retry, Claim, Hold, Retire, Send, Look, Answer,
           Fail, Record, Verify, GoLive, Refresh, Stop, Submit, Prepare, Expire, Pass, Land, Refuse, Deadline, Decide
      <4>3. Active = {}
        BY <1>0, <4>2 DEF Orderly, SoundRefreshment, Release
      <4> QED
        BY <1>0, <3>1, <3>4, <4>3 DEF Active, Signed, TypeOK, States
    <3> QED
      BY <3>2, <3>3, <3>4
  <2>3. CASE ~At(p, "send")
    BY <1>0, <1>2, <2>1, <2>3 DEF SoundSubmission, At
  <2> QED
    BY <2>2, <2>3
<1>3. ASSUME NEW s \in Sessions, Submit(p, s), proc'[p].at = "commit"
      PROVE  status' # "publishing"
  BY <1>0, <1>3 DEF Submit, Goto, Publishable, TypeOK
<1>4. ASSUME NEW s \in Sessions, Submit(p, s)
      PROVE  proc'[p].at \in {"commit", "retry"}
  BY <1>0, <1>4 DEF Submit, Goto, TypeOK
<1>5. CASE Commit(p) \/ Retry(p) \/ Claim(p)
  BY <1>0, <1>5 DEF Commit, Retry, Claim, Claimed, Publishable, Done, Goto, Idle, SoundSubmission, At, Mine, TypeOK
<1>6. CASE Hold(p)
  BY <1>0, <1>6 DEF Hold, SetStatus, Goto, SoundSubmission, At, Mine, TypeOK
<1>7. CASE Retire(p) \/ Send(p) \/ Stop(p)
  BY <1>0, <1>7 DEF Retire, Send, Stop, Done, Idle, SoundSubmission, At, TypeOK
<1>8. ASSUME Refreshing(p)
      PROVE  proc[p].at \notin Submission
  BY <1>8 DEF Refreshing, Look, Answer, Fail, Release, Record, Verify, GoLive, At, Submission
<1>9. ASSUME Refresh(p)
      PROVE  proc[p].at \notin Submission
  BY <1>9 DEF Refresh, At, Submission
<1>10. CASE \E s \in Sessions : Submit(p, s)
  BY <1>3, <1>4, <1>10 DEF SoundSubmission, At
<1> QED
  BY <1>0, <1>1, <1>2, <1>5, <1>6, <1>7, <1>8, <1>9, <1>10, Moves, Enters DEF Submitting
\* A create is sent in one step only, by the submission that is about to.
LEMMA Sends ==
  ASSUME TypeOK, [Next]_vars, NEW s \in Sessions, tx[s] = "unsent", tx'[s] # "unsent"
  PROVE  \E p \in Handlers : Send(p) /\ Mine(p) = s
BY DEF TypeOK, Next, vars, outside, Submitting, Refreshing, Commit, Retry, Claim, Hold, Retire, Send, Look, Answer, Fail,
   Release, Record, Verify, GoLive, Refresh, Stop, Submit, Prepare, Expire, Pass, Land, Refuse, Deadline, Decide

LEMMA FailedStep ==
  ASSUME IInv, [Next]_vars, ~overlapped', NEW s \in Sessions, session'[s] = "FAILED"
  PROVE  (DeadEnd(s) \/ Untouched(s))'
<1>0. TypeOK /\ SoundRows /\ Orderly
  BY OverlapKept DEF IInv
<1>1. CASE session[s] = "FAILED" /\ DeadEnd(s)
  BY <1>0, <1>1, Stable
<1>2. CASE session[s] = "FAILED" /\ Untouched(s)
  <2>1. tx'[s] = "unsent"
    <3>1. \A p \in Handlers : Send(p) => Mine(p) # s
      BY <1>2 DEF Untouched, Send, At, Submission
    <3> QED
      BY <1>0, <1>2, <3>1, Sends DEF Untouched
  <2>2. ASSUME NEW p \in Handlers, proc'[p].at \in Submission
        PROVE  Mine(p)' # s
    <3>1. \A t \in Sessions : Submit(p, t) => t # s
      BY <1>2 DEF Submit
    <3> QED
      BY <1>0, <1>2, <2>2, <3>1, Enters DEF Untouched
  <2> QED
    BY <2>1, <2>2 DEF Untouched
<1>3. CASE session[s] # "FAILED"
  <2>1. PICK p \in Handlers : (Fail(p) \/ Retire(p)) /\ Mine(p) = s /\ session[s] = "SUBMITTED"
    BY <1>0, <1>3 DEF TypeOK, Next, vars, SetSession, Submitting, Refreshing, Commit, Retry, Claim, Hold, Retire, Send, Look,
       Answer, Fail, Release, Record, Verify, GoLive, Refresh, Stop, Submit, Prepare, Expire, Pass, Land, Refuse, Deadline, Decide
  <2>2. CASE Fail(p)
    <3>1. DeadEnd(s)
      BY <2>1, <2>2 DEF IInv, SoundHandler, Fail, At
    <3> QED
      BY <1>0, <3>1, Stable
  <2>3. CASE Retire(p)
    <3>1. status # "publishing" /\ s \in Active
      BY <1>0, <2>1, <2>3 DEF Orderly, SoundSubmission, Retire, At, Active
    <3>2. status # "live"
      <4>1. SUFFICES ASSUME status = "live"
                     PROVE  FALSE
        OBVIOUS
      <4>2. PICK t \in Sessions : session[t] = "REGISTERED"
        BY <4>1, OverlapKept DEF IInv, LiveIsPaid, Paid
      <4>3. t = s
        BY <1>0, <3>1, <4>2 DEF SoundRows, Active
      <4> QED
        BY <2>1, <4>2, <4>3
    <3>3. tx'[s] = "unsent"
      BY <1>0, <2>3, <3>1, <3>2 DEF Orderly, Retire, outside
    <3>4. \A q \in Handlers : proc'[q].at \notin Submission
      BY <1>0, <2>3 DEF Orderly, Alone, Retire, At, Done, Idle, Submission, TypeOK
    <3> QED
      BY <3>3, <3>4 DEF Untouched
  <2> QED
    BY <2>1, <2>2, <2>3
<1> QED
  BY <1>0, <1>1, <1>2, <1>3 DEF Orderly

LEMMA HeldStep ==
  ASSUME IInv, [Next]_vars, ~overlapped', NEW s \in Sessions, s \in Active', tx'[s] # "unsent"
  PROVE  status' \in {"publishing", "live"}
<1>0. TypeOK /\ SoundRows /\ Orderly
  BY OverlapKept DEF IInv
<1>1. s \in Active
  <2>1. SUFFICES ASSUME s \notin Active
                 PROVE  FALSE
    OBVIOUS
  <2>2. PICK p \in Handlers : Commit(p) /\ session[s] = "QUOTED"
    BY <1>0, <2>1 DEF TypeOK, Active, Next, vars, SetSession, Submitting, Refreshing, Commit, Retry, Claim, Hold, Retire, Send, Look,
       Answer, Fail, Release, Record, Verify, GoLive, Refresh, Stop, Submit, Prepare, Expire, Pass, Land, Refuse, Deadline, Decide
  <2>3. tx[s] = "unsent" /\ tx' = tx
    BY <1>0, <2>2 DEF SoundRows, Signed, Commit, outside
  <2> QED
    BY <2>3
<1>2. CASE tx[s] # "unsent"
  <2>1. status \in {"publishing", "live"}
    BY <1>0, <1>1, <1>2 DEF Orderly
  <2>2. \A p \in Handlers : ~Release(p)
    BY <1>0, <1>1 DEF Orderly, SoundRefreshment, Release
  <2> QED
    BY <2>1, <2>2 DEF Next, vars, SetStatus, Submitting, Refreshing, Commit, Retry, Claim, Hold, Retire, Send, Look, Answer,
       Fail, Record, Verify, GoLive, Refresh, Stop, Submit, Prepare, Expire, Pass, Land, Refuse, Deadline, Decide
<1>3. CASE tx[s] = "unsent"
  <2>1. PICK p \in Handlers : Send(p) /\ Mine(p) = s
    BY <1>0, <1>3, Sends
  <2> QED
    BY <1>0, <1>1, <2>1 DEF Orderly, SoundSubmission, Active, Send
<1> QED
  BY <1>2, <1>3

LEMMA Initially ==
  ASSUME Init
  PROVE  IInv
<1>1. TypeOK
  BY PlacesMade DEF Init, TypeOK, Statuses, States
<1>2. SoundRows /\ Active = {}
  BY DEF Init, SoundRows, Active
<1>3. \A p \in Handlers : proc[p].at = "idle"
  BY DEF Init, Idle
<1>4. \A p \in Handlers : SoundHandler(p)
  BY <1>3 DEF SoundHandler, Submission, Refreshment, At
<1>5. Orderly
  BY <1>2, <1>3 DEF Init, Orderly, Alone, SoundSubmission, SoundRefreshment, Submission, Refreshment, At
<1>6. LiveIsPaid
  BY DEF Init, LiveIsPaid
<1> QED
  BY <1>1, <1>2, <1>4, <1>5, <1>6 DEF IInv

LEMMA Preserved ==
  ASSUME IInv, [Next]_vars
  PROVE  IInv'
<1>1. TypeOK'
  BY TypeStep DEF IInv
<1>2. SoundRows' /\ \A p \in Handlers : SoundHandler(p)'
  BY RowsStep, HandlerStep DEF IInv
<1>3. LiveIsPaid'
  BY LiveStep
<1>4. ASSUME ~overlapped'
      PROVE  Orderly'
  BY <1>4, AloneStep, SubmissionStep, RefreshmentStep, FailedStep, HeldStep DEF Orderly, Active
<1> QED
  BY <1>1, <1>2, <1>3, <1>4 DEF IInv

\* What the invariant says of the creates that were paid or may still be.
LEMMA MoneyIsActive ==
  ASSUME IInv, ~overlapped, NEW s \in InDoubt \union Paid
  PROVE  s \in Active /\ tx[s] # "unsent" /\ session[s] # "FAILED"
<1>1. s \in Sessions /\ tx[s] \in {"sent", "paid"} /\ ~DeadEnd(s)
  BY DEF InDoubt, Paid, DeadEnd
<1>2. session[s] # "FAILED"
  BY <1>1 DEF IInv, Orderly, Untouched
<1> QED
  BY <1>1, <1>2 DEF IInv, SoundRows, Signed, Active, TypeOK, States

-----------------------------------------------------------------------------
(* Theorems *)

THEOREM Invariance == Spec => []IInv
<1>1. Init => IInv
  BY Initially
<1>2. IInv /\ [Next]_vars => IInv'
  BY Preserved
<1> QED
  BY <1>1, <1>2, PTL DEF Spec

(* Every field of the two rows and of the handlers keeps its range, for any     *)
(* number of sessions: only the statuses the store lists are ever written.     *)
THEOREM ProposalTypes == Spec => []TypeOK
<1>1. IInv => TypeOK
  BY DEF IInv
<1> QED
  BY <1>1, Invariance, PTL

(* A session is retired or failed only when its create moved no money and can  *)
(* move none later, while requests of one kind do not overlap.                 *)
THEOREM FailedIsNeverPaid == Spec => []FailedNeverPaid
<1>1. IInv => FailedNeverPaid
  BY MoneyIsActive DEF FailedNeverPaid
<1> QED
  BY <1>1, Invariance, PTL

(* However many sessions the proposer signs, at most one create of the         *)
(* proposal has been paid or may still be, while requests do not overlap.      *)
THEOREM OneCreateOnly == Spec => []OneCreate
<1>1. IInv => OneCreate
  <2>1. SUFFICES ASSUME IInv, ~overlapped, NEW s \in InDoubt \union Paid, NEW t \in InDoubt \union Paid
                 PROVE  s = t
    BY DEF OneCreate
  <2> QED
    BY <2>1, MoneyIsActive DEF IInv, SoundRows
<1> QED
  BY <1>1, Invariance, PTL

(* From the broadcast of a create until it is settled, the proposal can be     *)
(* neither withdrawn, rejected nor claimed for another session.                *)
THEOREM MoneyAlwaysHeld == Spec => []MoneyIsHeld
<1>1. IInv => MoneyIsHeld
  BY MoneyIsActive DEF MoneyIsHeld, IInv, Orderly
<1> QED
  BY <1>1, Invariance, PTL

(* A proposal that is shown as live has a create that was paid, whatever       *)
(* overlapped before.                                                          *)
THEOREM LiveAlwaysPaid == Spec => []LiveIsPaid
<1>1. IInv => LiveIsPaid
  BY DEF IInv
<1> QED
  BY <1>1, Invariance, PTL

-----------------------------------------------------------------------------
(* What a step may never do *)

Ended ==
  /\ status \in {"rejected", "withdrawn", "live"} => status' = status
  /\ status = "publishing" => status' \in {"publishing", "approved", "live"}
  /\ \A s \in Sessions : session[s] \in {"FAILED", "REGISTERED"} => session'[s] = session[s]

LEMMA StatusKept ==
  ASSUME [Next]_vars
  PROVE  /\ status \in {"rejected", "withdrawn", "live"} => status' = status
         /\ status = "publishing" => status' \in {"publishing", "approved", "live"}
<1> DEFINE Kept == /\ status \in {"rejected", "withdrawn", "live"} => status' = status
                   /\ status = "publishing" => status' \in {"publishing", "approved", "live"}
<1>1. ASSUME NEW p \in Handlers, Submitting(p)
      PROVE  Kept
  BY <1>1 DEF Submitting, Commit, Retry, Claim, Hold, Retire, Send, SetStatus
<1>2. ASSUME NEW p \in Handlers, Refreshing(p)
      PROVE  Kept
  BY <1>2 DEF Refreshing, Look, Answer, Fail, Release, Record, Verify, GoLive, SetStatus
<1>3. ASSUME NEW p \in Handlers, Refresh(p) \/ Stop(p) \/ \E s \in Sessions : Submit(p, s)
      PROVE  Kept
  BY <1>3 DEF Refresh, Stop, Submit
<1>4. ASSUME NEW s \in Sessions, Prepare(s) \/ Expire(s) \/ Pass(s) \/ Land(s) \/ Refuse(s)
      PROVE  Kept
  BY <1>4 DEF Prepare, Expire, Pass, Land, Refuse
<1>5. ASSUME Deadline \/ UNCHANGED vars \/ \E decision \in Decisions : Decide(decision)
      PROVE  Kept
  BY <1>5 DEF Deadline, vars, Decide
<1> QED
  BY <1>1, <1>2, <1>3, <1>4, <1>5 DEF Next

(* The guarded updates of the two rows, whatever overlaps and wherever a handler *)
(* stops: a proposal that is rejected, withdrawn or live stays so; one that is    *)
(* publishing can only go live or be approved again; and a session that failed or *)
(* was registered is never revived.                                               *)
THEOREM EndsAreFinal == Spec => [][Ended]_vars
<1>1. IInv /\ [Next]_vars => Ended
  BY Stable, StatusKept DEF IInv, Ended
<1> QED
  BY <1>1, Invariance, PTL DEF Spec

================================================================================
