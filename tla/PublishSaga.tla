------------------------------ MODULE PublishSaga ------------------------------
(***************************************************************************)
(* The life of one market proposal: its review, its withdrawal, and the     *)
(* paid Panta create that publishes it.  A publish session is one reviewed  *)
(* create: its signed bytes are committed, the proposal is claimed for it,  *)
(* the bytes are sent, and a refresh settles both rows from what Panta and  *)
(* the chain answer.                                                        *)
(*                                                                          *)
(* A handler is a sequence of awaits; between two of them other handlers    *)
(* run, and it may stop there for good (its process restarted, the call it  *)
(* awaits failed).  A row update names the state it expects.                *)
(***************************************************************************)
EXTENDS Naturals, Sequences

CONSTANTS
  Sessions,   \* the create sessions the proposer may open
  Handlers    \* requests in flight at once, the background re-checks among them

VARIABLES
  status,     \* of the proposal
  late,       \* its publish deadline has passed
  session,    \* the state of each session
  expired,    \* the quote of each session has expired
  dead,       \* the chain has passed the height its create can land at
  tx,         \* its create on the way to the chain
  refused,    \* who will never accept it though it was paid: Panta's register, our own check
  proc,       \* where each handler is
  overlapped, \* history: two submissions, or two refreshes, were under way at once
  torn        \* history: a refresh stopped between its two writes

outside == <<late, expired, dead, tx, refused>>
history == <<overlapped, torn>>
vars == <<status, session, proc, outside, history>>

Statuses == {"pending_review", "approved", "rejected", "withdrawn", "publishing", "live"}
States == {"NONE", "QUOTED", "SUBMITTED", "REGISTERED", "FAILED"}
Idle == [at |-> "idle"]

Init ==
  /\ status = "pending_review" /\ late = FALSE
  /\ session = [s \in Sessions |-> "NONE"]
  /\ expired = [s \in Sessions |-> FALSE]
  /\ dead = [s \in Sessions |-> FALSE]
  /\ tx = [s \in Sessions |-> "unsent"]
  /\ refused = [s \in Sessions |-> "no"]
  /\ proc = [p \in Handlers |-> Idle]
  /\ overlapped = FALSE /\ torn = FALSE

-----------------------------------------------------------------------------
At(p, place) == proc[p].at = place
Mine(p) == proc[p].session
Done(p) == proc' = [proc EXCEPT ![p] = Idle]
Goto(p, place, s) == proc' = [proc EXCEPT ![p] = [at |-> place, session |-> s]]
Ask(p, s, question) == proc' = [proc EXCEPT ![p] = [at |-> "ask", session |-> s, question |-> question]]
SetSession(s, from, to) ==
  session' = IF session[s] = from THEN [session EXCEPT ![s] = to] ELSE session
SetStatus(from, to) == status' = IF status = from THEN to ELSE status

(* activeSession; of a proposal's sessions at most one is active              *)
Active == {s \in Sessions : session[s] \in {"SUBMITTED", "REGISTERED"}}
Free(s) == Active \subseteq {s}
Publishable == status = "approved" /\ ~late

Submission == {"commit", "retry", "claim", "hold", "retire", "send"}
Refreshment == {"look", "ask", "fail", "release", "record", "verify", "live"}
Busy(places) == \E p \in Handlers : proc[p].at \in places

-----------------------------------------------------------------------------
Decisions == {"approved", "rejected", "withdrawn"}
(* review and withdraw: the update expects the status that was read *)
Decide(decision) ==
  /\ status = "pending_review" \/ (status = "approved" /\ decision # "approved")
  /\ decision = "approved" => ~late
  /\ status' = decision
  /\ UNCHANGED <<session, proc, outside, history>>

(* preparePublish: the session is of no use to anybody before it is signed *)
Prepare(s) ==
  /\ Publishable /\ session[s] = "NONE"
  /\ SetSession(s, "NONE", "QUOTED")
  /\ UNCHANGED <<status, proc, outside, history>>

-----------------------------------------------------------------------------
(* submitPublish, the first time or again *)
Submit(p, s) ==
  /\ At(p, "idle")
  /\ \/ session[s] = "QUOTED" /\ ~expired[s] /\ Publishable /\ Goto(p, "commit", s)
     \/ session[s] = "SUBMITTED" /\ Goto(p, "retry", s)
  /\ overlapped' = (overlapped \/ Busy(Submission))
  /\ UNCHANGED <<status, session, outside, torn>>

Commit(p) ==
  LET s == Mine(p) IN
  /\ At(p, "commit")
  /\ IF session[s] = "QUOTED" /\ Free(s)
     THEN SetSession(s, "QUOTED", "SUBMITTED") /\ Goto(p, "claim", s)
     ELSE UNCHANGED session /\ Done(p)
  /\ UNCHANGED <<status, outside, history>>

Claimed_Never == TRUE  \* faulty: a retry of committed bytes just sends them
Claimed == status = "publishing"
Retry(p) ==
  /\ At(p, "retry")
  /\ Goto(p, IF Claimed THEN "send" ELSE "claim", Mine(p))
  /\ UNCHANGED <<status, session, outside, history>>

(* claimCommitted: claim the proposal for the session, or retire its bytes *)
Claim(p) ==
  /\ At(p, "claim")
  /\ Goto(p, IF Publishable /\ ~expired[Mine(p)] THEN "hold" ELSE "retire", Mine(p))
  /\ UNCHANGED <<status, session, outside, history>>

Hold(p) ==
  /\ At(p, "hold")
  /\ SetStatus("approved", "publishing")
  /\ Goto(p, IF status = "approved" THEN "send" ELSE "retire", Mine(p))
  /\ UNCHANGED <<session, outside, history>>

Retire(p) ==
  /\ At(p, "retire")
  /\ SetSession(Mine(p), "SUBMITTED", "FAILED")
  /\ Done(p)
  /\ UNCHANGED <<status, outside, history>>

(* broadcast: it reached the network, whatever was answered *)
Send(p) ==
  /\ At(p, "send")
  /\ tx' = [tx EXCEPT ![Mine(p)] = IF @ = "unsent" THEN "sent" ELSE @]
  /\ Done(p)
  /\ UNCHANGED <<status, session, late, expired, dead, refused, history>>

-----------------------------------------------------------------------------
Refresh(p) ==
  /\ At(p, "idle") /\ status = "publishing"
  /\ proc' = [proc EXCEPT ![p] = [at |-> "look"]]
  /\ overlapped' = (overlapped \/ Busy(Refreshment))
  /\ UNCHANGED <<status, session, outside, torn>>

Look(p) ==
  /\ At(p, "look")
  /\ \/ Active = {} /\ Done(p)
     \/ \E s \in Active : IF session[s] = "REGISTERED" THEN Goto(p, "verify", s) ELSE Ask(p, s, 1)
  /\ UNCHANGED <<status, session, outside, history>>

(* what a look at the chain finds; whether register accepts it; what verifyTransaction *)
(* proves of it: that the owner paid exactly the reviewed amount                      *)
OnChain_Sent(s) == tx[s] # "unsent"  \* faulty: accepted for broadcast is taken for landed
OnChain(s) == tx[s] = "paid"
Registers(s) == OnChain(s) /\ refused[s] # "register"
Confirmed(s) == OnChain(s) /\ refused[s] # "verify"
Seen(s) == tx[s] \in {"paid", "erred"}

Questions_SeenFirst == <<"register", "failed", "seen", "height">>  \* faulty: looked up before the height
Questions == <<"register", "failed", "height", "seen">>
Answer(p) ==
  LET s == Mine(p)
      question == Questions[proc[p].question]
      NextQuestion ==
        IF proc[p].question = Len(Questions) THEN Goto(p, "fail", s) ELSE Ask(p, s, proc[p].question + 1)
  IN
  /\ At(p, "ask")
  /\ \/ question = "register" /\ Registers(s) /\ Goto(p, "record", s)
     \/ question = "failed" /\ tx[s] = "erred" /\ Goto(p, "fail", s)
     \/ question \in {"register", "failed"} /\ NextQuestion
     \/ question = "height" /\ dead[s] /\ NextQuestion
     \/ question = "seen" /\ ~Seen(s) /\ NextQuestion
  /\ UNCHANGED <<status, session, outside, history>>

(* the two writes that release a proposal *)
Fail(p) ==
  /\ At(p, "fail")
  /\ SetSession(Mine(p), "SUBMITTED", "FAILED")
  /\ Goto(p, "release", Mine(p))
  /\ UNCHANGED <<status, outside, history>>

Release_Approved(p) ==  \* faulty: the write expects a proposal that was never claimed
  /\ At(p, "release")
  /\ SetStatus("approved", "approved")
  /\ Done(p)
  /\ UNCHANGED <<session, outside, history>>
Release(p) ==
  /\ At(p, "release")
  /\ SetStatus("publishing", "approved")
  /\ Done(p)
  /\ UNCHANGED <<session, outside, history>>

Record(p) ==
  /\ At(p, "record")
  /\ SetSession(Mine(p), "SUBMITTED", "REGISTERED")
  /\ Goto(p, "verify", Mine(p))
  /\ UNCHANGED <<status, outside, history>>

Verify(p) ==
  /\ At(p, "verify") /\ Confirmed(Mine(p))
  /\ Goto(p, "live", Mine(p))
  /\ UNCHANGED <<status, session, outside, history>>

GoLive(p) ==
  /\ At(p, "live")
  /\ SetStatus("publishing", "live")
  /\ Done(p)
  /\ UNCHANGED <<session, outside, history>>

(* the call it awaits failed, its process restarted, or the answer settles nothing *)
Stop(p) ==
  /\ ~At(p, "idle")
  /\ Done(p)
  /\ torn' = (torn \/ (At(p, "release") /\ status = "publishing"))
  /\ UNCHANGED <<status, session, outside, overlapped>>

-----------------------------------------------------------------------------
(* time, and the chain *)
Deadline ==
  /\ ~late /\ late' = TRUE
  /\ UNCHANGED <<status, session, proc, expired, dead, tx, refused, history>>

Expire(s) ==
  /\ session[s] \in {"QUOTED", "SUBMITTED"} /\ ~expired[s]
  /\ expired' = [expired EXCEPT ![s] = TRUE]
  /\ UNCHANGED <<status, session, proc, late, dead, tx, refused, history>>

Pass(s) ==
  /\ session[s] \in {"QUOTED", "SUBMITTED"} /\ ~dead[s]
  /\ dead' = [dead EXCEPT ![s] = TRUE]
  /\ UNCHANGED <<status, session, proc, late, expired, tx, refused, history>>

Land(s) ==
  /\ tx[s] = "sent" /\ ~dead[s]
  /\ \E outcome \in {"paid", "erred"} : tx' = [tx EXCEPT ![s] = outcome]
  /\ UNCHANGED <<status, session, proc, late, expired, dead, refused, history>>

(* TX_MISMATCH, TX_FEE_MISMATCH, a registration that comes too late; a debit that is *)
(* not the reviewed one                                                              *)
Refuse(s) ==
  /\ s \in Active /\ OnChain(s) /\ refused[s] = "no"
  /\ \E who \in {"register", "verify"} : refused' = [refused EXCEPT ![s] = who]
  /\ UNCHANGED <<status, session, proc, late, expired, dead, tx, history>>

Submitting(p) == Commit(p) \/ Retry(p) \/ Claim(p) \/ Hold(p) \/ Retire(p) \/ Send(p)
Refreshing(p) == Look(p) \/ Answer(p) \/ Fail(p) \/ Release(p) \/ Record(p) \/ Verify(p) \/ GoLive(p)

Next ==
  \/ \E decision \in Decisions : Decide(decision)
  \/ \E p \in Handlers : Refresh(p) \/ Submitting(p) \/ Refreshing(p) \/ Stop(p)
  \/ \E p \in Handlers, s \in Sessions : Submit(p, s)
  \/ \E s \in Sessions : Prepare(s) \/ Expire(s) \/ Pass(s) \/ Land(s) \/ Refuse(s)
  \/ Deadline

Spec == Init /\ [][Next]_vars

(* Blocks are produced, somebody comes back to a proposal that is publishing,  *)
(* no await lasts for ever, and the time comes when Panta, the RPC and the     *)
(* store answer whatever a refresh asks them, were it to refuse the create.    *)
Lost(p) ==  \* a step of p that made less of an answer than it could
  LET question == Questions[proc[p].question]
      s == Mine(p)
      stops == proc'[p] = Idle IN
  \/ At(p, "look") /\ stops /\ Active # {}
  \/ At(p, "ask") /\ stops /\ ~(question = "height" /\ ~dead[s]) /\ ~(question = "seen" /\ Seen(s))
  \/ At(p, "ask") /\ question = "register" /\ Registers(s) /\ ~(proc'[p].at = "record")
  \/ At(p, "ask") /\ question = "failed" /\ tx[s] = "erred" /\ ~(proc'[p].at = "fail")
  \/ proc[p].at \in {"fail", "record"} /\ stops
  \/ At(p, "verify") /\ stops /\ Confirmed(s)
  \/ At(p, "live") /\ status' = "publishing"

FairSpec ==
  /\ Spec
  /\ SF_vars(\E p \in Handlers : Refresh(p))
  /\ WF_vars(\E s \in Sessions : Pass(s))
  /\ \A p \in Handlers : WF_vars(Stop(p) \/ Submitting(p) \/ Refreshing(p))
  /\ <>[][\A p \in Handlers : proc'[p] # proc[p] => ~Lost(p)]_vars

-----------------------------------------------------------------------------
Places ==
  {Idle} \union [at : {"look"}]
  \union [at : Submission \union (Refreshment \ {"look", "ask"}), session : Sessions]
  \union [at : {"ask"}, session : Sessions, question : 1..4]
(* Every field keeps its range; only the listed statuses are ever stored.      *)
TypeOK ==
  /\ status \in Statuses
  /\ session \in [Sessions -> States]
  /\ late \in BOOLEAN /\ expired \in [Sessions -> BOOLEAN] /\ dead \in [Sessions -> BOOLEAN]
  /\ tx \in [Sessions -> {"unsent", "sent", "paid", "erred"}]
  /\ refused \in [Sessions -> {"no", "register", "verify"}]
  /\ proc \in [Handlers -> Places]
  /\ overlapped \in BOOLEAN /\ torn \in BOOLEAN

InDoubt == {s \in Sessions : tx[s] = "sent" /\ ~dead[s]}
Paid == {s \in Sessions : tx[s] = "paid"}

(* While neither two submissions nor two refreshes of the proposal overlap:    *)
(* a session called FAILED, after which the proposer may pay for another       *)
(* create, has moved no money and never will.                                  *)
FailedNeverPaid == ~overlapped => \A s \in Sessions : session[s] = "FAILED" => s \notin InDoubt \union Paid

(* ... a proposal never has two creates that were paid or may still be.        *)
OneCreate == ~overlapped => \A s, t \in InDoubt \union Paid : s = t

(* ... and while one was paid or may still be, nobody can withdraw, reject or  *)
(* re-publish the proposal: it stays publishing until it is live.              *)
MoneyIsHeld == ~overlapped => (InDoubt \union Paid # {} => status \in {"publishing", "live"})

(* Whatever overlaps, a proposal is shown as live only if its create was paid; *)
(* without an overlap it is also the one that was registered.                  *)
LiveIsPaid ==
  status = "live" => \E s \in Paid : overlapped \/ session[s] = "REGISTERED"

(* A proposal whose create is signed does not stay publishing for ever, except *)
(* after an overlap, a refresh that stopped between its two writes, or a paid  *)
(* create that Panta or the check of the debit refuses for good.               *)
Publishes ==
  (status = "publishing" /\ Active # {}) ~>
    (status # "publishing" \/ overlapped \/ torn \/ \E s \in Active : refused[s] # "no")
================================================================================
