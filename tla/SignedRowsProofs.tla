---------------------------- MODULE SignedRowsProofs ----------------------------
(***************************************************************************)
(* Proofs about SignedRows for any number of rows, approvals and handlers. *)
(***************************************************************************)
EXTENDS SignedRows, TLAPS

-----------------------------------------------------------------------------
(* The inductive invariant *)

(* The approval of r has failed, or can no longer land and never did. *)
Harmless(r) == tx[sig[r]] = "erred" \/ (dead[r] /\ tx[sig[r]] # "paid")
HeightAt == IF ledger = "transfer" THEN 3 ELSE 4

SignedRow(r) ==
  /\ row[r] \in {"NONE", "PREPARING", "BUILT"} => sig[r] = "none"
  /\ row[r] \in {"SUBMITTED", "CONFIRMED"} => sig[r] # "none"
  /\ sig[r] # "none" => Review[sig[r]] = r
  /\ row[r] = "PREPARING" => ledger # "transfer"
  /\ row[r] = "CONFIRMED" => tx[sig[r]] = "paid"
  /\ (row[r] = "FAILED" /\ sig[r] # "none") => Harmless(r)

SoundHandler(p) ==
  /\ At(p, "send") => sig[Review[proc[p].sig]] = proc[p].sig
  /\ At(p, "ask") =>
       /\ sig[Mine(p)] # "none"
       /\ proc[p].question <= Len(Questions)
       /\ proc[p].question > HeightAt => dead[Mine(p)]
  /\ At(p, "write") =>
       /\ sig[Mine(p)] # "none"
       /\ proc[p].state = "CONFIRMED" => tx[sig[Mine(p)]] = "paid"
       /\ proc[p].state = "FAILED" => Harmless(Mine(p))

SentIsSigned == \A s \in Approvals : tx[s] # "unsent" => sig[Review[s]] = s
OneHolder == \A r, t \in Holders : r = t

IInv ==
  /\ TypeOK
  /\ \A r \in Rows : SignedRow(r)
  /\ SentIsSigned
  /\ OneHolder
  /\ \A p \in Handlers : SoundHandler(p)

-----------------------------------------------------------------------------
(* Types *)

\* What a handler remembers at each place it may be at.
LEMMA PlaceFields ==
  ASSUME NEW x \in Places
  PROVE  /\ x.at \in {"reserve", "build", "ask", "write"} => x.row \in Rows
         /\ x.at \in {"save", "send"} => x.sig \in Approvals
         /\ x.at = "ask" => x.question \in 1..5 /\ x.clear \in BOOLEAN
         /\ x.at = "write" => x.state \in {"CONFIRMED", "FAILED"}
BY DEF Places, Idle

\* The places a handler goes to are places.
LEMMA PlacesMade ==
  /\ Idle \in Places
  /\ \A r \in Rows :
       /\ [at |-> "reserve", row |-> r] \in Places
       /\ [at |-> "build", row |-> r] \in Places
       /\ \A state \in {"CONFIRMED", "FAILED"} : [at |-> "write", row |-> r, state |-> state] \in Places
       /\ \A n \in 1..5, clear \in BOOLEAN :
            [at |-> "ask", row |-> r, question |-> n, clear |-> clear] \in Places
  /\ \A s \in Approvals :
       [at |-> "save", sig |-> s] \in Places /\ [at |-> "send", sig |-> s] \in Places
BY DEF Places

\* The order of the questions, by ledger.
LEMMA QuestionOrder ==
  /\ Len(Questions) = HeightAt + 1 /\ DOMAIN Questions = 1..Len(Questions)
  /\ HeightAt \in {3, 4}
  /\ Questions[1] = "proof" /\ Questions[2] = "failed"
  /\ Questions[HeightAt] = "height" /\ Questions[HeightAt + 1] = "seen"
  /\ \A n \in 1..5 : (n > HeightAt /\ n <= Len(Questions)) => n = HeightAt + 1
<1>1. CASE ledger = "transfer"
  <2>1. Questions = <<"proof", "failed", "height", "seen">> /\ HeightAt = 3
    BY <1>1 DEF Questions, HeightAt
  <2> QED
    BY <2>1
<1>2. CASE ledger # "transfer"
  <2>1. Questions = <<"proof", "failed", "seen", "height", "seen">> /\ HeightAt = 4
    BY <1>2 DEF Questions, HeightAt
  <2> QED
    BY <2>1
<1> QED
  BY <1>1, <1>2

\* What Ask may do to its handler.
LEMMA AskMoves ==
  ASSUME IInv, NEW p \in Handlers, Ask(p)
  PROVE  /\ Mine(p) \in Rows /\ proc[p].question \in DOMAIN Questions
         /\ \/ \E state \in {"CONFIRMED", "FAILED"} :
                 Goto(p, [at |-> "write", row |-> Mine(p), state |-> state])
            \/ /\ proc[p].question # Len(Questions)
               /\ proc[p].question + 1 \in 1..5
               /\ \E clear \in BOOLEAN :
                    Goto(p, [at |-> "ask", row |-> Mine(p), question |-> proc[p].question + 1, clear |-> clear])
<1>1. proc[p] \in Places /\ proc[p].at = "ask"
  BY DEF TypeOK, IInv, Ask, At
<1>2. Mine(p) \in Rows /\ proc[p].question \in 1..5
  BY <1>1, PlaceFields DEF Mine
<1>3. proc[p].question <= Len(Questions)
  BY <1>1 DEF IInv, SoundHandler, At
<1>4. Len(Questions) \in {4, 5} /\ DOMAIN Questions = 1..Len(Questions)
  BY QuestionOrder
<1>5. proc[p].question # Len(Questions) => proc[p].question + 1 \in 1..5
  <2>1. PICK last \in {4, 5} : Len(Questions) = last
    BY <1>4
  <2> QED
    BY <1>2, <1>3, <2>1
<1> DEFINE Concludes == \E state \in {"CONFIRMED", "FAILED"} :
             Goto(p, [at |-> "write", row |-> Mine(p), state |-> state])
           GoesOn == /\ proc[p].question # Len(Questions)
                     /\ proc[p].question + 1 \in 1..5
                     /\ \E clear \in BOOLEAN :
                          Goto(p, [at |-> "ask", row |-> Mine(p), question |-> proc[p].question + 1, clear |-> clear])
<1>6. ASSUME NEW clear \in BOOLEAN,
             IF proc[p].question = Len(Questions)
             THEN Goto(p, [at |-> "write", row |-> Mine(p), state |-> "FAILED"])
             ELSE Goto(p, [at |-> "ask", row |-> Mine(p), question |-> proc[p].question + 1, clear |-> clear])
      PROVE  Concludes \/ GoesOn
  BY <1>5, <1>6
<1>7. Clear(Mine(p)) \subseteq BOOLEAN
  BY DEF Clear
<1>8. \A state \in {"CONFIRMED", "FAILED"} :
        Goto(p, [at |-> "write", row |-> Mine(p), state |-> state]) => Concludes
  OBVIOUS
<1>9. Concludes \/ GoesOn
  <2> HIDE DEF Concludes, GoesOn
  <2> USE DEF Ask
  <2> QED
    BY <1>6, <1>7, <1>8
<1>10. proc[p].question \in DOMAIN Questions
  <2>1. PICK last \in {4, 5} : Len(Questions) = last
    BY <1>4
  <2> QED
    BY <1>2, <1>3, <1>4, <2>1
<1> QED
  BY <1>2, <1>9, <1>10

LEMMA TypeStep ==
  ASSUME IInv, [Next]_vars
  PROVE  TypeOK'
<1>0. TypeOK /\ \A p \in Handlers : proc[p] \in Places
  BY DEF IInv, TypeOK
<1>1. ASSUME NEW q \in Handlers, NEW r \in Rows, Prepare(q, r)
      PROVE  TypeOK'
  BY <1>0, <1>1, PlacesMade DEF TypeOK, Prepare, Retire, Goto, States
<1>2. ASSUME NEW q \in Handlers, NEW s \in Approvals, Submit(q, s)
      PROVE  TypeOK'
  BY <1>0, <1>2, PlacesMade DEF TypeOK, Submit, Goto
<1>3. ASSUME NEW q \in Handlers, Reserve(q)
      PROVE  TypeOK'
  <2>1. Mine(q) \in Rows
    BY <1>0, <1>3, PlaceFields DEF Reserve, At, Mine
  <2> QED
    BY <1>0, <1>3, <2>1, PlacesMade DEF TypeOK, Reserve, Retire, SetRow, Goto, Done, States
<1>4. ASSUME NEW q \in Handlers, Build(q)
      PROVE  TypeOK'
  BY <1>0, <1>4, PlacesMade DEF TypeOK, Build, SetRow, Done, States
<1>5. ASSUME NEW q \in Handlers, Save(q)
      PROVE  TypeOK'
  <2>1. proc[q].sig \in Approvals
    BY <1>0, <1>5, PlaceFields DEF Save, At
  <2> QED
    <3>1. Review[proc[q].sig] \in Rows
      BY <2>1, ApprovalAssumption
    <3>2. /\ row' \in [Rows -> States] /\ sig' \in [Rows -> Approvals \union {"none"}]
          /\ expired' \in [Rows -> BOOLEAN]
      BY <1>0, <1>5, <2>1, <3>1 DEF TypeOK, Save, SetRow, States
    <3>3. proc' \in [Handlers -> Places]
      BY <1>0, <1>5, <2>1, PlacesMade DEF TypeOK, Save, Goto, Done
    <3> QED
      BY <1>0, <1>5, <3>2, <3>3 DEF TypeOK, Save
<1>6. ASSUME NEW q \in Handlers, Send(q)
      PROVE  TypeOK'
  <2>1. proc[q].sig \in Approvals
    BY <1>0, <1>6, PlaceFields DEF Send, At
  <2> QED
    BY <1>0, <1>6, <2>1, PlacesMade DEF TypeOK, Send, Done
<1>7. ASSUME NEW p \in Handlers, Ask(p)
      PROVE  TypeOK'
  <2>1. proc' \in [Handlers -> Places]
    <3>1. proc \in [Handlers -> Places]
      BY <1>0 DEF TypeOK
    <3>2. PICK place \in Places : Goto(p, place)
      BY <1>7, AskMoves, PlacesMade
    <3> QED
      BY <3>1, <3>2 DEF Goto
  <2> QED
    BY <1>0, <1>7, <2>1 DEF TypeOK, Ask
<1>8. ASSUME NEW p \in Handlers, Write(p)
      PROVE  TypeOK'
  <2>1. proc[p].state \in {"CONFIRMED", "FAILED"}
    BY <1>0, <1>8, PlaceFields DEF Write, At
  <2>2. row' \in [Rows -> States]
    BY <1>0, <1>8, <2>1 DEF TypeOK, Write, SetRow, States
  <2>3. proc' \in [Handlers -> Places]
    BY <1>0, <1>8, PlacesMade DEF TypeOK, Write, Done
  <2>4. UNCHANGED <<ledger, sig, expired, dead, tx>>
    BY <1>8 DEF Write
  <2> QED
    BY <1>0, <2>2, <2>3, <2>4 DEF TypeOK
<1>9. ASSUME NEW p \in Handlers, Stop(p)
      PROVE  TypeOK'
  BY <1>0, <1>9, PlacesMade DEF TypeOK, Stop, Done
<1>10. ASSUME NEW p \in Handlers, NEW r \in Rows, Reconcile(p, r)
       PROVE  TypeOK'
  <2>1. PICK place \in Places : Goto(p, place)
    BY <1>10, PlacesMade, 1 \in 1..5 DEF Reconcile
  <2> QED
    BY <1>0, <1>10, <2>1 DEF TypeOK, Reconcile, Goto
<1>11. ASSUME NEW r \in Rows, Replay(r) \/ Expire(r) \/ Pass(r)
       PROVE  TypeOK'
  <2>1. CASE Replay(r)
    BY <1>0, <2>1 DEF TypeOK, Replay, Retire, States
  <2>2. CASE Expire(r)
    BY <1>0, <2>2 DEF TypeOK, Expire
  <2>3. CASE Pass(r)
    BY <1>0, <2>3 DEF TypeOK, Pass
  <2> QED
    BY <1>0, <1>11, <2>1, <2>2, <2>3
<1>12. ASSUME NEW s \in Approvals, Land(s)
       PROVE  TypeOK'
  BY <1>0, <1>12 DEF TypeOK, Land
<1>13. CASE UNCHANGED vars
  BY <1>0, <1>13 DEF TypeOK, vars
<1> QED
  BY <1>0, <1>1, <1>2, <1>3, <1>4, <1>5, <1>6, <1>7, <1>8, <1>9, <1>10, <1>11, <1>12, <1>13 DEF Next

-----------------------------------------------------------------------------
(* What only grows *)

(* An approval stays stored, a height stays passed, an outcome stays, and no  *)
(* approval is paid after its height.                                         *)
Grows ==
  /\ ledger' = ledger
  /\ \A r \in Rows : (sig[r] # "none" => sig'[r] = sig[r]) /\ (dead[r] => dead'[r])
  /\ \A s \in Approvals :
       /\ tx[s] \in {"paid", "erred"} => tx'[s] = tx[s]
       /\ tx'[s] = "paid" => (tx[s] = "paid" \/ ~dead[Review[s]])

LEMMA StepGrows ==
  ASSUME IInv, [Next]_vars
  PROVE  Grows
<1>0. TypeOK /\ \A p \in Handlers : proc[p] \in Places
  BY DEF IInv, TypeOK
<1>1. ASSUME NEW q \in Handlers, Save(q)
      PROVE  Grows
  <2>1. proc[q].sig \in Approvals /\ Review[proc[q].sig] \in Rows
    BY <1>0, <1>1, PlaceFields, ApprovalAssumption DEF Save, At
  <2>2. row[Review[proc[q].sig]] = "BUILT" => sig[Review[proc[q].sig]] = "none"
    BY <2>1 DEF IInv, SignedRow
  <2>3. \A r \in Rows : sig[r] # "none" => sig'[r] = sig[r]
    BY <1>0, <1>1, <2>1, <2>2 DEF Save, TypeOK
  <2> QED
    BY <1>1, <2>3 DEF Save, Grows
<1>2. ASSUME NEW q \in Handlers, Send(q)
      PROVE  Grows
  <2>1. proc[q].sig \in Approvals
    BY <1>0, <1>2, PlaceFields DEF Send, At
  <2> QED
    BY <1>0, <1>2, <2>1 DEF Send, Grows, TypeOK
<1>3. ASSUME NEW r \in Rows, Pass(r)
      PROVE  Grows
  BY <1>0, <1>3 DEF Pass, Grows, TypeOK
<1>4. ASSUME NEW s \in Approvals, Land(s)
      PROVE  Grows
  BY <1>0, <1>4 DEF Land, Grows, TypeOK
<1>5. ASSUME UNCHANGED <<ledger, sig, dead, tx>>
      PROVE  Grows
  BY <1>5 DEF Grows
<1> QED
  BY <1>1, <1>2, <1>3, <1>4, <1>5
  DEF Next, vars, Prepare, Submit, Reserve, Build, Ask, Write, Stop, Reconcile, Replay, Expire

LEMMA HarmlessKept ==
  ASSUME IInv, Grows, NEW r \in Rows, sig[r] # "none", Harmless(r)
  PROVE  Harmless(r)'
<1>1. sig[r] \in Approvals /\ Review[sig[r]] = r /\ sig'[r] = sig[r]
  BY DEF IInv, TypeOK, SignedRow, Grows
<1> QED
  BY <1>1 DEF Harmless, Grows

\* A row that a step leaves alone stays sound.
LEMMA RowKept ==
  ASSUME IInv, Grows, NEW r \in Rows, row'[r] = row[r], sig'[r] = sig[r]
  PROVE  SignedRow(r)'
<1>1. SignedRow(r) /\ sig[r] \in Approvals \union {"none"}
  BY DEF IInv, TypeOK
<1> QED
  BY <1>1, HarmlessKept, ApprovalAssumption DEF SignedRow, Grows

\* So does a handler that does not move.
LEMMA HandlerKept ==
  ASSUME IInv, Grows, NEW p \in Handlers, proc'[p] = proc[p]
  PROVE  SoundHandler(p)'
<1>1. proc[p] \in Places /\ SoundHandler(p)
  BY DEF IInv, TypeOK
<1>2. Questions' = Questions /\ HeightAt' = HeightAt
  BY DEF Grows, Questions, HeightAt
<1>3. At(p, "send") => (sig[Review[proc[p].sig]] = proc[p].sig)'
  BY <1>1, PlaceFields, ApprovalAssumption DEF SoundHandler, At, Grows
<1>4. ASSUME At(p, "ask") \/ At(p, "write")
      PROVE  /\ Mine(p) \in Rows /\ Mine(p)' = Mine(p) /\ sig[Mine(p)] \in Approvals
             /\ sig'[Mine(p)] = sig[Mine(p)]
             /\ dead[Mine(p)] => dead'[Mine(p)]
             /\ tx[sig[Mine(p)]] = "paid" => tx'[sig[Mine(p)]] = "paid"
  <2>1. Mine(p) \in Rows /\ sig[Mine(p)] # "none"
    BY <1>1, <1>4, PlaceFields DEF At, Mine, SoundHandler
  <2> QED
    BY <2>1 DEF IInv, TypeOK, Grows, Mine
<1>5. (At(p, "write") /\ proc[p].state = "FAILED") => Harmless(Mine(p))'
  BY <1>1, <1>4, HarmlessKept, ApprovalAssumption DEF SoundHandler, Harmless
<1> QED
  BY <1>1, <1>2, <1>3, <1>4, <1>5, ApprovalAssumption DEF SoundHandler, At

-----------------------------------------------------------------------------
(* The invariant is inductive *)

LEMMA RowsStep ==
  ASSUME IInv, [Next]_vars
  PROVE  \A r \in Rows : SignedRow(r)'
<1>0. TypeOK /\ Grows /\ \A p \in Handlers : proc[p] \in Places
  BY StepGrows DEF IInv, TypeOK
<1>1. ASSUME NEW rs, \A r \in rs : row[r] = "BUILT", rs \subseteq Rows, Retire(rs), UNCHANGED sig
      PROVE  \A r \in Rows : SignedRow(r)'
  <2> TAKE r \in Rows
  <2>1. CASE r \in rs
    BY <1>1, <2>1 DEF Retire, IInv, SignedRow
  <2>2. CASE r \notin rs
    BY <1>0, <1>1, <2>2, RowKept DEF Retire
  <2> QED
    BY <2>1, <2>2
<1>2. ASSUME NEW r \in Rows, NEW state \in {"PREPARING", "BUILT", "FAILED"}, SetRow(r, state),
             row[r] \in {"NONE", "PREPARING"}, UNCHANGED sig, state = "PREPARING" => ledger # "transfer"
      PROVE  \A t \in Rows : SignedRow(t)'
  <2> TAKE t \in Rows
  <2>1. CASE t = r
    BY <1>0, <1>2, <2>1 DEF SetRow, IInv, SignedRow, TypeOK, Grows
  <2>2. CASE t # r
    BY <1>0, <1>2, <2>2, RowKept DEF SetRow, TypeOK
  <2> QED
    BY <2>1, <2>2
<1>3. ASSUME UNCHANGED <<row, sig>>
      PROVE  \A r \in Rows : SignedRow(r)'
  BY <1>0, <1>3, RowKept
<1>4. ASSUME NEW q \in Handlers, NEW r \in Rows, Prepare(q, r)
      PROVE  \A t \in Rows : SignedRow(t)'
  <2>1. Holders \subseteq Rows /\ \A h \in Holders : row[h] = "BUILT"
    BY <1>4 DEF Prepare, Holders, Retirable
  <2> QED
    BY <1>1, <1>4, <2>1 DEF Prepare
<1>5. ASSUME NEW q \in Handlers, Reserve(q)
      PROVE  \A t \in Rows : SignedRow(t)'
  <2>1. Mine(q) \in Rows
    BY <1>0, <1>5, PlaceFields DEF Reserve, At, Mine
  <2> DEFINE retired == {h \in Holders : Retirable(h)}
  <2>2. retired \subseteq Rows /\ \A h \in retired : row[h] = "BUILT"
    BY DEF Holders, Retirable
  <2> HIDE DEF retired
  <2>3. CASE UNCHANGED row
    BY <1>3, <1>5, <2>3 DEF Reserve
  <2>4. CASE row[Mine(q)] = "NONE" /\ ledger # "transfer" /\ SetRow(Mine(q), "PREPARING")
    BY <1>2, <1>5, <2>1, <2>4 DEF Reserve
  <2>5. CASE row[Mine(q)] = "NONE" /\ SetRow(Mine(q), "BUILT")
    BY <1>2, <1>5, <2>1, <2>5 DEF Reserve
  <2>6. CASE Retire(retired)
    BY <1>1, <1>5, <2>2, <2>6 DEF Reserve
  <2> QED
    BY <1>5, <2>3, <2>4, <2>5, <2>6 DEF Reserve, retired
<1>6. ASSUME NEW q \in Handlers, Build(q)
      PROVE  \A t \in Rows : SignedRow(t)'
  <2>1. Mine(q) \in Rows
    BY <1>0, <1>6, PlaceFields DEF Build, At, Mine
  <2> QED
    BY <1>2, <1>6, <2>1 DEF Build
<1>7. ASSUME NEW q \in Handlers, Save(q)
      PROVE  \A t \in Rows : SignedRow(t)'
  <2> DEFINE s == proc[q].sig
  <2>1. s \in Approvals /\ Review[s] \in Rows /\ s # "none"
    BY <1>0, <1>7, PlaceFields, ApprovalAssumption DEF Save, At
  <2> HIDE DEF s
  <2>2. CASE SetRow(Review[s], "SUBMITTED") /\ sig' = [sig EXCEPT ![Review[s]] = s]
    <3> TAKE t \in Rows
    <3>1. CASE t = Review[s]
      BY <1>0, <2>1, <2>2, <3>1 DEF SetRow, SignedRow, TypeOK
    <3>2. CASE t # Review[s]
      BY <1>0, <2>1, <2>2, <3>2, RowKept DEF SetRow, TypeOK
    <3> QED
      BY <3>1, <3>2
  <2> QED
    BY <1>3, <1>7, <2>2 DEF Save, s
<1>8. ASSUME NEW p \in Handlers, Write(p)
      PROVE  \A t \in Rows : SignedRow(t)'
  <2>1. /\ Mine(p) \in Rows /\ proc[p].state \in {"CONFIRMED", "FAILED"}
        /\ SoundHandler(p) /\ SignedRow(Mine(p)) /\ At(p, "write") /\ UNCHANGED <<sig, tx, dead>>
    BY <1>0, <1>8, PlaceFields DEF Write, At, Mine, IInv
  <2>2. CASE SetRow(Mine(p), proc[p].state)
    <3> TAKE t \in Rows
    <3>1. CASE t = Mine(p)
      <4>1. row'[t] = proc[p].state /\ sig'[t] = sig[t] /\ sig[t] # "none" /\ Review[sig[t]] = t
        BY <1>0, <2>1, <2>2, <3>1 DEF SetRow, TypeOK, SoundHandler, SignedRow
      <4> QED
        BY <2>1, <3>1, <4>1 DEF SignedRow, SoundHandler, Harmless
    <3>2. CASE t # Mine(p)
      BY <1>0, <2>1, <2>2, <3>2, RowKept DEF SetRow, TypeOK
    <3> QED
      BY <3>1, <3>2
  <2> QED
    BY <1>3, <1>8, <2>1, <2>2 DEF Write
<1>9. ASSUME NEW r \in Rows, Replay(r)
      PROVE  \A t \in Rows : SignedRow(t)'
  BY <1>1, <1>9 DEF Replay, Retirable
<1> QED
  BY <1>3, <1>4, <1>5, <1>6, <1>7, <1>8, <1>9
  DEF Next, vars, Submit, Send, Ask, Stop, Reconcile, Expire, Pass, Land

LEMMA SentStep ==
  ASSUME IInv, [Next]_vars
  PROVE  SentIsSigned'
<1>0. TypeOK /\ Grows /\ SentIsSigned /\ \A p \in Handlers : proc[p] \in Places
  BY StepGrows DEF IInv, TypeOK
<1>1. ASSUME NEW s \in Approvals, tx[s] # "unsent" \/ sig[Review[s]] = s
      PROVE  sig'[Review[s]] = s
  BY <1>0, <1>1, ApprovalAssumption DEF Grows, SentIsSigned
<1>2. ASSUME NEW q \in Handlers, Send(q)
      PROVE  SentIsSigned'
  <2>1. proc[q].sig \in Approvals /\ sig[Review[proc[q].sig]] = proc[q].sig
    BY <1>0, <1>2, PlaceFields DEF Send, At, IInv, SoundHandler
  <2> QED
    BY <1>0, <1>1, <1>2, <2>1 DEF Send, SentIsSigned, TypeOK
<1>3. ASSUME NEW s \in Approvals, Land(s)
      PROVE  SentIsSigned'
  BY <1>0, <1>1, <1>3 DEF Land, SentIsSigned, TypeOK
<1>4. ASSUME UNCHANGED tx
      PROVE  SentIsSigned'
  BY <1>1, <1>4 DEF SentIsSigned
<1> QED
  BY <1>2, <1>3, <1>4
  DEF Next, vars, Prepare, Submit, Reserve, Build, Save, Ask, Write, Stop, Reconcile, Replay, Expire, Pass

LEMMA HolderStep ==
  ASSUME IInv, [Next]_vars
  PROVE  OneHolder'
<1>0. TypeOK /\ Holding' = Holding /\ OneHolder /\ \A p \in Handlers : proc[p] \in Places
  BY StepGrows DEF IInv, TypeOK, Grows, Holding
<1>1. ASSUME Holders' \subseteq Holders
      PROVE  OneHolder'
  BY <1>0, <1>1 DEF OneHolder
<1>2. ASSUME NEW r, Holders' \subseteq {r}
      PROVE  OneHolder'
  BY <1>2 DEF OneHolder
<1>3. ASSUME NEW rs, Retire(rs)
      PROVE  OneHolder'
  BY <1>0, <1>1, <1>3 DEF Retire, Holders, Holding
<1>4. ASSUME NEW r \in Rows, NEW state, SetRow(r, state), state \notin Holding \/ row[r] \in Holding
      PROVE  OneHolder'
  BY <1>0, <1>1, <1>4 DEF SetRow, Holders, TypeOK
<1>5. ASSUME NEW r \in Rows, NEW state, SetRow(r, state), Free(r)
      PROVE  OneHolder'
  BY <1>0, <1>2, <1>5 DEF SetRow, Free, Holders, TypeOK
<1>6. ASSUME UNCHANGED row
      PROVE  OneHolder'
  BY <1>0, <1>1, <1>6 DEF Holders
<1>7. ASSUME NEW q \in Handlers, Reserve(q)
      PROVE  OneHolder'
  <2>1. Mine(q) \in Rows
    BY <1>0, <1>7, PlaceFields DEF Reserve, At, Mine
  <2>2. CASE Holders = {} /\ SetRow(Mine(q), "BUILT")
    BY <1>5, <2>1, <2>2 DEF Free
  <2>3. CASE ledger # "transfer" /\ SetRow(Mine(q), "PREPARING")
    BY <1>4, <2>1, <2>3 DEF Holding
  <2> QED
    BY <1>3, <1>6, <1>7, <2>2, <2>3 DEF Reserve
<1>8. ASSUME NEW q \in Handlers, Build(q)
      PROVE  OneHolder'
  <2>1. Mine(q) \in Rows /\ row[Mine(q)] = "PREPARING"
    BY <1>0, <1>8, PlaceFields DEF Build, At, Mine
  <2>2. ledger # "transfer"
    BY <2>1 DEF IInv, SignedRow
  <2>3. "BUILT" \notin Holding /\ "FAILED" \notin Holding
    BY <2>2 DEF Holding
  <2> QED
    BY <1>4, <1>8, <2>1, <2>3 DEF Build
<1>9. ASSUME NEW q \in Handlers, Save(q)
      PROVE  OneHolder'
  <2>1. Review[proc[q].sig] \in Rows
    BY <1>0, <1>9, PlaceFields, ApprovalAssumption DEF Save, At
  <2> QED
    BY <1>5, <1>6, <1>9, <2>1 DEF Save
<1>10. ASSUME NEW p \in Handlers, Write(p)
       PROVE  OneHolder'
  <2>1. Mine(p) \in Rows
    BY <1>0, <1>10, PlaceFields DEF Write, At, Mine
  <2>2. "SUBMITTED" \in Holding
    BY DEF Holding
  <2> QED
    BY <1>4, <1>6, <1>10, <2>1, <2>2 DEF Write
<1> QED
  BY <1>3, <1>6, <1>7, <1>8, <1>9, <1>10
  DEF Next, vars, Prepare, Submit, Send, Ask, Stop, Reconcile, Replay, Expire, Pass, Land

LEMMA HandlersStep ==
  ASSUME IInv, [Next]_vars
  PROVE  \A p \in Handlers : SoundHandler(p)'
<1>0. TypeOK /\ Grows /\ \A p \in Handlers : proc[p] \in Places
  BY StepGrows DEF IInv, TypeOK
<1>1. ASSUME NEW q \in Handlers, NEW place, Goto(q, place),
             (proc'[q] = place) => SoundHandler(q)'
      PROVE  \A p \in Handlers : SoundHandler(p)'
  <2> TAKE p \in Handlers
  <2>1. CASE p = q
    BY <1>0, <1>1, <2>1 DEF Goto, TypeOK
  <2>2. CASE p # q
    BY <1>0, <1>1, <2>2, HandlerKept DEF Goto, TypeOK
  <2> QED
    BY <2>1, <2>2
<1>2. ASSUME NEW q \in Handlers, NEW place, Goto(q, place), place.at \notin {"send", "ask", "write"}
      PROVE  \A p \in Handlers : SoundHandler(p)'
  <2>1. (proc'[q] = place) => SoundHandler(q)'
    BY <1>2 DEF SoundHandler, At
  <2> QED
    BY <1>1, <1>2, <2>1
<1>3. ASSUME NEW q \in Handlers, Done(q)
      PROVE  \A p \in Handlers : SoundHandler(p)'
  BY <1>2, <1>3 DEF Done, Goto, Idle
<1>4. ASSUME NEW q \in Handlers, NEW s \in Approvals, Submit(q, s)
      PROVE  \A p \in Handlers : SoundHandler(p)'
  <2>1. CASE row[Review[s]] = "BUILT"
    BY <1>2, <1>4, <2>1 DEF Submit
  <2>2. CASE row[Review[s]] = "SUBMITTED"
    <3>1. sig[Review[s]] = s /\ UNCHANGED sig
      BY <1>4, <2>2, ApprovalAssumption DEF Submit, Approved, IInv, SignedRow
    <3>2. Goto(q, [at |-> "send", sig |-> s])
      BY <1>4, <2>2 DEF Submit
    <3>3. (proc'[q] = [at |-> "send", sig |-> s]) => SoundHandler(q)'
      BY <3>1 DEF SoundHandler, At
    <3> QED
      BY <1>1, <3>2, <3>3
  <2> QED
    BY <1>4, <2>1, <2>2 DEF Submit
<1>5. ASSUME NEW q \in Handlers, Save(q)
      PROVE  \A p \in Handlers : SoundHandler(p)'
  <2> DEFINE s == proc[q].sig
  <2>1. s \in Approvals /\ Review[s] \in Rows
    BY <1>0, <1>5, PlaceFields, ApprovalAssumption DEF Save, At
  <2>2. CASE Goto(q, [at |-> "send", sig |-> s]) /\ sig'[Review[s]] = s
    <3>1. (proc'[q] = [at |-> "send", sig |-> s]) => SoundHandler(q)'
      BY <2>2 DEF SoundHandler, At
    <3> QED
      BY <1>1, <2>2, <3>1
  <2>3. CASE Done(q)
    BY <1>3, <2>3
  <2> QED
    BY <1>0, <1>5, <2>1, <2>2, <2>3 DEF Save, Approved, TypeOK
<1>6. ASSUME NEW p \in Handlers, NEW r \in Rows, Reconcile(p, r)
      PROVE  \A q \in Handlers : SoundHandler(q)'
  <2> DEFINE place == [at |-> "ask", row |-> r, question |-> 1, clear |-> FALSE]
  <2>1. sig[r] # "none" /\ UNCHANGED <<sig, ledger>> /\ Goto(p, place)
    BY <1>6 DEF Reconcile, IInv, SignedRow
  <2>2. 1 <= Len(Questions) /\ ~(1 > HeightAt) /\ Questions' = Questions /\ HeightAt' = HeightAt
    BY <2>1, QuestionOrder DEF Questions, HeightAt
  <2>3. (proc'[p] = place) => SoundHandler(p)'
    BY <2>1, <2>2 DEF SoundHandler, At, Mine
  <2> QED
    BY <1>1, <2>1, <2>3
<1>7. ASSUME NEW p \in Handlers, Ask(p)
      PROVE  \A q \in Handlers : SoundHandler(q)'
  <2>1. /\ Mine(p) \in Rows /\ sig[Mine(p)] # "none" /\ UNCHANGED <<ledger, sig, tx, dead>>
        /\ proc[p].question <= Len(Questions)
        /\ proc[p].question > HeightAt => dead[Mine(p)]
        /\ proc[p].question \in DOMAIN Questions
    BY <1>7, AskMoves DEF Ask, IInv, SoundHandler
  <2>2. ASSUME NEW state \in {"CONFIRMED", "FAILED"},
               Goto(p, [at |-> "write", row |-> Mine(p), state |-> state]),
               state = "CONFIRMED" => tx[sig[Mine(p)]] = "paid",
               state = "FAILED" => Harmless(Mine(p))
        PROVE  \A q \in Handlers : SoundHandler(q)'
    <3> DEFINE place == [at |-> "write", row |-> Mine(p), state |-> state]
    <3>1. (proc'[p] = place) => SoundHandler(p)'
      BY <2>1, <2>2 DEF SoundHandler, At, Mine, Harmless
    <3> QED
      BY <1>1, <2>2, <3>1
  <2>3. ASSUME NEW clear \in BOOLEAN, proc[p].question # Len(Questions),
               Goto(p, [at |-> "ask", row |-> Mine(p), question |-> proc[p].question + 1, clear |-> clear]),
               Questions[proc[p].question] = "height" => dead[Mine(p)]
        PROVE  \A q \in Handlers : SoundHandler(q)'
    <3> DEFINE place == [at |-> "ask", row |-> Mine(p), question |-> proc[p].question + 1, clear |-> clear]
    <3>1. Questions' = Questions /\ HeightAt' = HeightAt
      BY <2>1 DEF Questions, HeightAt
    <3>2. PICK last \in {4, 5} : Len(Questions) = last /\ HeightAt = last - 1
      BY QuestionOrder
    <3>3. proc[p].question \in 1..last /\ proc[p].question # last
      BY <2>1, <2>3, <3>2, QuestionOrder
    <3>4. proc[p].question + 1 <= last
      BY <3>3
    <3>5. proc[p].question + 1 > HeightAt => dead[Mine(p)]
      BY <2>1, <2>3, <3>2, <3>3, QuestionOrder
    <3>6. (proc'[p] = place) => SoundHandler(p)'
      BY <2>1, <3>1, <3>2, <3>4, <3>5 DEF SoundHandler, At, Mine
    <3> QED
      BY <1>1, <2>3, <3>6
  <2>4. ASSUME NEW clear \in BOOLEAN,
               IF proc[p].question = Len(Questions)
               THEN Goto(p, [at |-> "write", row |-> Mine(p), state |-> "FAILED"])
               ELSE Goto(p, [at |-> "ask", row |-> Mine(p), question |-> proc[p].question + 1, clear |-> clear]),
               Questions[proc[p].question] = "height" => dead[Mine(p)],
               proc[p].question = Len(Questions) => ~Landed(Mine(p))
        PROVE  \A q \in Handlers : SoundHandler(q)'
    <3>1. CASE proc[p].question = Len(Questions)
      <4>1. PICK last \in {4, 5} : Len(Questions) = last /\ HeightAt = last - 1
        BY QuestionOrder
      <4>2. dead[Mine(p)] /\ ~Landed(Mine(p))
        BY <2>1, <2>4, <3>1, <4>1
      <4> QED
        BY <2>2, <2>4, <3>1, <4>2 DEF Harmless, Landed
    <3>2. CASE proc[p].question # Len(Questions)
      BY <2>3, <2>4, <3>2
    <3> QED
      BY <3>1, <3>2
  <2>5. Questions[Len(Questions)] = "seen"
    BY QuestionOrder
  <2> DEFINE question == Questions[proc[p].question]
             NextQuestion(clear) ==
               IF proc[p].question = Len(Questions)
               THEN Goto(p, [at |-> "write", row |-> Mine(p), state |-> "FAILED"])
               ELSE Goto(p, [at |-> "ask", row |-> Mine(p), question |-> proc[p].question + 1, clear |-> clear])
  <2>6. CASE question = "proof" /\ tx[sig[Mine(p)]] = "paid"
             /\ Goto(p, [at |-> "write", row |-> Mine(p), state |-> "CONFIRMED"])
    BY <2>2, <2>6
  <2>7. CASE question = "failed" /\ tx[sig[Mine(p)]] = "erred"
             /\ Goto(p, [at |-> "write", row |-> Mine(p), state |-> "FAILED"])
    BY <2>2, <2>7 DEF Harmless
  <2>8. CASE \E clear \in BOOLEAN : NextQuestion(clear)
             /\ (question = "height" => dead[Mine(p)]) /\ (question = "seen" => ~Landed(Mine(p)))
    BY <2>4, <2>5, <2>8
  <2>9. Clear(Mine(p)) \subseteq BOOLEAN
    BY DEF Clear
  <2> QED
    BY <1>7, <2>6, <2>7, <2>8, <2>9 DEF Ask
<1>8. CASE UNCHANGED proc
  BY <1>0, <1>8, HandlerKept
<1>9. ASSUME NEW q \in Handlers, NEW r \in Rows, Prepare(q, r)
      PROVE  \A p \in Handlers : SoundHandler(p)'
  BY <1>2, <1>9 DEF Prepare
<1>10. ASSUME NEW q \in Handlers, Reserve(q)
       PROVE  \A p \in Handlers : SoundHandler(p)'
  BY <1>2, <1>3, <1>10 DEF Reserve
<1> QED
  BY <1>3, <1>4, <1>5, <1>6, <1>7, <1>8, <1>9, <1>10
  DEF Next, vars, Build, Send, Write, Stop, Replay, Expire, Pass, Land

\* The invariant holds at the start and every step keeps it.
THEOREM Invariance == Spec => []IInv
<1>1. Init => IInv
  <2> SUFFICES ASSUME Init PROVE IInv
    OBVIOUS
  <2>1. TypeOK
    BY PlacesMade DEF Init, TypeOK, States, Ledgers
  <2>2. \A r \in Rows : SignedRow(r)
    BY DEF Init, SignedRow
  <2>3. SentIsSigned /\ OneHolder
    BY DEF Init, SentIsSigned, OneHolder, Holders, Holding
  <2>4. \A p \in Handlers : SoundHandler(p)
    BY DEF Init, SoundHandler, At, Idle
  <2> QED
    BY <2>1, <2>2, <2>3, <2>4 DEF IInv
<1>2. IInv /\ [Next]_vars => IInv'
  BY TypeStep, RowsStep, SentStep, HolderStep, HandlersStep DEF IInv
<1> QED
  BY <1>1, <1>2, PTL DEF Spec
-----------------------------------------------------------------------------
(* Consequences of the invariant *)

\* What is paid was signed, and is not called FAILED.
LEMMA PaidIsHeld ==
  ASSUME IInv, NEW s \in Approvals, tx[s] = "paid"
  PROVE  /\ Review[s] \in Rows /\ sig[Review[s]] = s
         /\ row[Review[s]] \in {"SUBMITTED", "CONFIRMED"}
<1>1. Review[s] \in Rows /\ sig[Review[s]] = s /\ s # "none"
  BY ApprovalAssumption DEF IInv, SentIsSigned
<1>2. SignedRow(Review[s]) /\ row[Review[s]] \in States
  BY <1>1 DEF IInv, TypeOK
<1> QED
  BY <1>1, <1>2 DEF SignedRow, Harmless, States

\* What may still land belongs to the row that holds the slot.
LEMMA DoubtIsHeld ==
  ASSUME IInv, NEW s \in Approvals, tx[s] = "sent", ~dead[Review[s]]
  PROVE  /\ Review[s] \in Rows /\ sig[Review[s]] = s
         /\ row[Review[s]] = "SUBMITTED"
<1>1. Review[s] \in Rows /\ sig[Review[s]] = s /\ s # "none"
  BY ApprovalAssumption DEF IInv, SentIsSigned
<1>2. SignedRow(Review[s]) /\ row[Review[s]] \in States
  BY <1>1 DEF IInv, TypeOK
<1> QED
  BY <1>1, <1>2 DEF SignedRow, Harmless, States

LEMMA SafeFailures ==
  ASSUME IInv
  PROVE  FailedNeverMoves
BY PaidIsHeld DEF FailedNeverMoves

LEMMA SingleDoubt ==
  ASSUME IInv
  PROVE  OneInDoubt
<1> SUFFICES ASSUME NEW s \in InDoubt, NEW t \in InDoubt
             PROVE  s = t
  BY DEF OneInDoubt
<1>1. Review[s] \in Holders /\ Review[t] \in Holders
  BY DoubtIsHeld DEF InDoubt, Holders, Holding
<1> QED
  BY <1>1, DoubtIsHeld DEF IInv, OneHolder, InDoubt

LEMMA SinglePayment ==
  ASSUME IInv
  PROVE  PaidOnce
<1> SUFFICES ASSUME NEW s \in Paid, NEW t \in Paid, Review[s] = Review[t] \/ ledger # "transfer"
             PROVE  s = t
  BY DEF PaidOnce
<1>1. ledger # "transfer" => Review[s] \in Holders /\ Review[t] \in Holders
  BY PaidIsHeld DEF Paid, Holders, Holding
<1>2. Review[s] = Review[t]
  BY <1>1 DEF IInv, OneHolder
<1> QED
  BY <1>2, PaidIsHeld DEF Paid

(* Every field keeps its range in every behaviour: no row ever reaches a      *)
(* state the ledgers of transfers, buys and claims do not know.               *)
THEOREM RowTypes == Spec => []TypeOK
<1>1. IInv => TypeOK
  BY DEF IInv
<1> QED
  BY <1>1, Invariance, PTL

(* Whatever is lost, retried, restarted or lands between two questions, a row *)
(* that reconcile called FAILED has moved no money and never will.            *)
THEOREM FailedIsFinal == Spec => []FailedNeverMoves
BY SafeFailures, Invariance, PTL

(* One slot never has two approvals on their way that can both still land.    *)
THEOREM OneApprovalInDoubt == Spec => []OneInDoubt
BY SingleDoubt, Invariance, PTL

(* No review is paid twice, and no two buys of a call or claims of a position *)
(* are both paid.                                                             *)
THEOREM NothingPaidTwice == Spec => []PaidOnce
BY SinglePayment, Invariance, PTL

-----------------------------------------------------------------------------
(* Refinement *)

PaidRow(r) == \E s \in Paid : Review[s] = r

\* A row without an approval has no payment.
LEMMA UnsignedUnpaid ==
  ASSUME IInv, NEW r \in Rows, row[r] \in {"NONE", "PREPARING", "BUILT", "FAILED"}
  PROVE  ~PaidRow(r)
BY PaidIsHeld DEF PaidRow, Paid

(* What the mapping makes of a row, by its state. *)
MappedRow(r) ==
  /\ row[r] \in {"NONE", "PREPARING", "BUILT"} => StatusOf(r) = "unsigned" /\ ToldOf(r) = "nothing"
  /\ row[r] = "FAILED" => StatusOf(r) = "dead" /\ ToldOf(r) = "dead"
  /\ row[r] = "SUBMITTED" => ToldOf(r) = "nothing"
  /\ row[r] = "CONFIRMED" => StatusOf(r) = "moved" /\ ToldOf(r) = "moved"
  /\ StatusOf(r) = "live" => row[r] = "SUBMITTED"
  /\ StatusOf(r) = "moved" => row[r] \in {"SUBMITTED", "CONFIRMED"}
  /\ StatusOf(r) = IF PaidRow(r) THEN "moved" ELSE IF row[r] = "SUBMITTED" THEN "live"
                   ELSE IF row[r] = "FAILED" THEN "dead" ELSE "unsigned"
  /\ row[r] \notin {"SUBMITTED", "CONFIRMED"} => ~PaidRow(r)
MappedRows == \A r \in Rows : MappedRow(r)

LEMMA StatusByRow == IInv => MappedRows
<1> SUFFICES ASSUME IInv, NEW r \in Rows PROVE MappedRow(r)
  BY DEF MappedRows
<1>1. SignedRow(r) /\ row[r] \in States /\ sig[r] \in Approvals \union {"none"}
  BY DEF IInv, TypeOK
<1>2. row[r] = "CONFIRMED" => PaidRow(r)
  BY <1>1, ApprovalAssumption DEF SignedRow, PaidRow, Paid
<1>3. PaidRow(r) => row[r] \in {"SUBMITTED", "CONFIRMED"}
  BY <1>1, UnsignedUnpaid DEF States
<1>4. StatusOf(r) = IF PaidRow(r) THEN "moved" ELSE IF row[r] = "FAILED" THEN "dead"
                    ELSE IF row[r] \in {"SUBMITTED", "CONFIRMED"} THEN "live" ELSE "unsigned"
  BY DEF StatusOf, PaidRow
<1> QED
  BY <1>1, <1>2, <1>3, <1>4 DEF ToldOf, States, MappedRow

LEMMA StatusByRowNext == IInv' => MappedRows'
BY StatusByRow, PTL

\* A row's status and what was told of it follow from the row and its payment.
LEMMA StatusKept ==
  ASSUME NEW r \in Rows, row'[r] = row[r], PaidRow(r)' <=> PaidRow(r)
  PROVE  StatusOf(r)' = StatusOf(r) /\ ToldOf(r)' = ToldOf(r)
<1>1. StatusOf(r) = IF PaidRow(r) THEN "moved" ELSE IF row[r] = "FAILED" THEN "dead"
                    ELSE IF row[r] \in {"SUBMITTED", "CONFIRMED"} THEN "live" ELSE "unsigned"
  BY DEF StatusOf, PaidRow
<1>2. StatusOf(r)' = IF PaidRow(r)' THEN "moved" ELSE IF row'[r] = "FAILED" THEN "dead"
                    ELSE IF row'[r] \in {"SUBMITTED", "CONFIRMED"} THEN "live" ELSE "unsigned"
  BY DEF StatusOf, PaidRow
<1> QED
  BY <1>1, <1>2 DEF ToldOf

\* Only the chain pays.
LEMMA PaidKept ==
  ASSUME NEW r \in Rows, \A s \in Approvals : tx'[s] = "paid" <=> tx[s] = "paid"
  PROVE  PaidRow(r)' <=> PaidRow(r)
BY DEF PaidRow, Paid

\* A step that changes one row changes the mapped state there only.
LEMMA OneRowMapped ==
  ASSUME NEW r \in Rows, \A t \in Rows \ {r} : row'[t] = row[t] /\ (PaidRow(t)' <=> PaidRow(t))
  PROVE  /\ Status' = [Status EXCEPT ![r] = StatusOf(r)']
         /\ Told' = [Told EXCEPT ![r] = ToldOf(r)']
<1>1. \A t \in Rows \ {r} : StatusOf(t)' = StatusOf(t) /\ ToldOf(t)' = ToldOf(t)
  BY StatusKept
<1> QED
  BY <1>1 DEF Status, Told

LEMMA NoRowMapped ==
  ASSUME \A t \in Rows : row'[t] = row[t] /\ (PaidRow(t)' <=> PaidRow(t))
  PROVE  Status' = Status /\ Told' = Told
BY StatusKept DEF Status, Told

\* Calling unpaid rows FAILED, at most one at a time, drops an intent.
LEMMA DropMapped ==
  ASSUME IInv, IInv', NEW r \in Rows, row[r] # "FAILED", row'[r] = "FAILED",
         \A t \in Rows \ {r} : row'[t] = row[t],
         UNCHANGED <<ledger, tx>>
  PROVE  Spends!Drop(r)
<1>1. \A t \in Rows : PaidRow(t)' <=> PaidRow(t)
  BY PaidKept
<1>2. StatusOf(r)' = "dead" /\ ToldOf(r)' = "dead"
  BY StatusByRowNext DEF MappedRows, MappedRow
<1>3. StatusOf(r) \in {"unsigned", "live"}
  <2>1. ~PaidRow(r)
    <3>1. ~PaidRow(r)'
      BY StatusByRowNext DEF MappedRows, MappedRow
    <3> QED
      BY <1>1, <3>1
  <2> QED
    BY <2>1, StatusByRow DEF MappedRows, MappedRow
<1>4. Status[r] = StatusOf(r)
  BY DEF Status
<1> QED
  BY <1>1, <1>2, <1>3, <1>4, OneRowMapped DEF Spends!Drop, Forever

LEMMA RefinementInit ==
  ASSUME Init
  PROVE  Spends!Init
<1>1. \A r \in Rows : StatusOf(r) = "unsigned" /\ ToldOf(r) = "nothing"
  BY DEF Init, StatusOf, ToldOf, Paid
<1> QED
  BY <1>1 DEF Spends!Init, Status, Told, Forever

LEMMA RefinementStep ==
  ASSUME IInv, IInv', [Next]_vars
  PROVE  [Spends!Next]_(Spends!vars)
<1>0. TypeOK /\ UNCHANGED ledger /\ \A p \in Handlers : proc[p] \in Places
  BY StepGrows DEF IInv, TypeOK, Grows
<1>1. ASSUME \A r \in Rows : row'[r] = row[r],
             \A s \in Approvals : tx'[s] = "paid" <=> tx[s] = "paid"
      PROVE  UNCHANGED Spends!vars
  BY <1>0, <1>1, PaidKept, NoRowMapped DEF Spends!vars, Forever
<1>2. ASSUME NEW r \in Rows, NEW state, SetRow(r, state), UNCHANGED tx, row[r] # "FAILED"
      PROVE  /\ state = "FAILED" => Spends!Drop(r)
             /\ (row[r] \in {"NONE", "PREPARING"} /\ state \in {"PREPARING", "BUILT"}) => UNCHANGED Spends!vars
  <2>1. row'[r] = state /\ \A t \in Rows \ {r} : row'[t] = row[t]
    BY <1>0, <1>2 DEF SetRow, TypeOK
  <2>2. \A t \in Rows : PaidRow(t)' <=> PaidRow(t)
    BY <1>2, PaidKept
  <2>3. state = "FAILED" => Spends!Drop(r)
    BY <1>0, <1>2, <2>1, DropMapped
  <2>4. ASSUME row[r] \in {"NONE", "PREPARING"}, state \in {"PREPARING", "BUILT"}
        PROVE  UNCHANGED Spends!vars
    <3>1. StatusOf(r) = "unsigned" /\ ToldOf(r) = "nothing"
      BY <2>4, StatusByRow DEF MappedRows, MappedRow
    <3>2. StatusOf(r)' = "unsigned" /\ ToldOf(r)' = "nothing"
      BY <2>1, <2>4, StatusByRowNext DEF MappedRows, MappedRow
    <3>3. Status' = Status /\ Told' = Told
      BY <2>1, <2>2, <3>1, <3>2, OneRowMapped DEF Status, Told
    <3> QED
      BY <1>0, <3>3 DEF Spends!vars, Forever
  <2> QED
    BY <2>3, <2>4
<1>3. ASSUME NEW rs, rs \subseteq Holders, \A r \in rs : row[r] = "BUILT", Retire(rs), UNCHANGED tx
      PROVE  [Spends!Next]_(Spends!vars)
  <2>1. CASE rs = {}
    BY <1>0, <1>1, <1>3, <2>1 DEF Retire, TypeOK
  <2>2. CASE rs # {}
    <3>1. PICK r \in rs : rs = {r}
      BY <1>3, <2>2 DEF IInv, OneHolder
    <3>2. r \in Rows
      BY <1>3, <3>1 DEF Holders
    <3>3. Spends!Drop(r)
      BY <1>0, <1>3, <3>1, <3>2, DropMapped DEF Retire
    <3> QED
      BY <3>2, <3>3 DEF Spends!Next
  <2> QED
    BY <2>1, <2>2
<1>4. ASSUME NEW q \in Handlers, NEW r \in Rows, Prepare(q, r)
      PROVE  [Spends!Next]_(Spends!vars)
  BY <1>3, <1>4 DEF Prepare, Retirable
<1>5. ASSUME NEW q \in Handlers, Reserve(q)
      PROVE  [Spends!Next]_(Spends!vars)
  <2>1. Mine(q) \in Rows
    BY <1>0, <1>5, PlaceFields DEF Reserve, At, Mine
  <2> DEFINE retired == {h \in Holders : Retirable(h)}
  <2>2. retired \subseteq Holders /\ \A h \in retired : row[h] = "BUILT"
    BY DEF Retirable
  <2> HIDE DEF retired
  <2>3. CASE UNCHANGED row
    BY <1>1, <1>5, <2>3 DEF Reserve
  <2>4. CASE row[Mine(q)] = "NONE" /\ \E state \in {"PREPARING", "BUILT"} : SetRow(Mine(q), state)
    BY <1>2, <1>5, <2>1, <2>4 DEF Reserve
  <2>5. CASE Retire(retired)
    BY <1>3, <1>5, <2>2, <2>5 DEF Reserve
  <2> QED
    BY <1>5, <2>3, <2>4, <2>5 DEF Reserve, retired
<1>6. ASSUME NEW q \in Handlers, Build(q)
      PROVE  [Spends!Next]_(Spends!vars)
  <2>1. Mine(q) \in Rows
    BY <1>0, <1>6, PlaceFields DEF Build, At, Mine
  <2> QED
    BY <1>2, <1>6, <2>1 DEF Build, Spends!Next
<1>7. ASSUME NEW q \in Handlers, Save(q)
      PROVE  [Spends!Next]_(Spends!vars)
  <2>1. PICK r \in Rows : r = Review[proc[q].sig]
    BY <1>0, <1>7, PlaceFields, ApprovalAssumption DEF Save, At
  <2>2. CASE row[r] = "BUILT" /\ Free(r) /\ SetRow(r, "SUBMITTED") /\ UNCHANGED tx
    <3>1. row'[r] = "SUBMITTED" /\ \A t \in Rows \ {r} : row'[t] = row[t]
      BY <1>0, <2>1, <2>2 DEF SetRow, TypeOK
    <3>2. \A t \in Rows : PaidRow(t)' <=> PaidRow(t)
      BY <2>2, PaidKept
    <3>3. StatusOf(r) = "unsigned" /\ ToldOf(r) = "nothing" /\ ~PaidRow(r)
      BY <2>1, <2>2, StatusByRow, UnsignedUnpaid DEF MappedRows, MappedRow
    <3>4. StatusOf(r)' = "live" /\ ToldOf(r)' = "nothing"
      <4>1. ~PaidRow(r)'
        BY <2>1, <3>2, <3>3
      <4> QED
        BY <2>1, <3>1, <4>1, StatusByRowNext DEF MappedRows, MappedRow
    <3>5. \A j \in Rows \ {r} : StatusOf(j) # "live" /\ (Forever => StatusOf(j) # "moved")
      BY <2>2, StatusByRow DEF MappedRows, MappedRow, Free, Holders, Holding, Forever
    <3>6. Status' = [Status EXCEPT ![r] = "live"] /\ Told' = Told
      <4>1. /\ Status' = [Status EXCEPT ![r] = StatusOf(r)']
            /\ Told' = [Told EXCEPT ![r] = ToldOf(r)']
        BY <3>1, <3>2, OneRowMapped
      <4>2. Told[r] = "nothing"
        BY <3>3 DEF Told
      <4>3. [Told EXCEPT ![r] = "nothing"] = Told
        BY <4>2 DEF Told
      <4> QED
        BY <3>4, <4>1, <4>3
    <3>7. Spends!Sign(r)
      BY <1>0, <2>1, <3>3, <3>5, <3>6 DEF Spends!Sign, Status, Forever
    <3> QED
      BY <2>1, <3>7 DEF Spends!Next
  <2> QED
    BY <1>1, <1>7, <2>1, <2>2 DEF Save
<1>8. ASSUME NEW p \in Handlers, Write(p)
      PROVE  [Spends!Next]_(Spends!vars)
  <2>1. /\ Mine(p) \in Rows /\ proc[p].state \in {"CONFIRMED", "FAILED"}
        /\ SoundHandler(p) /\ SignedRow(Mine(p)) /\ At(p, "write") /\ UNCHANGED tx
        /\ sig[Mine(p)] \in Approvals \union {"none"}
    BY <1>0, <1>8, PlaceFields DEF Write, At, Mine, IInv, TypeOK
  <2>4. PICK r \in Rows : r = Mine(p)
    BY <2>1
  <2>2. CASE row[r] = "SUBMITTED" /\ SetRow(r, "FAILED")
    BY <1>2, <2>1, <2>4, <2>2 DEF Spends!Next
  <2>3. CASE row[r] = "SUBMITTED" /\ SetRow(r, "CONFIRMED") /\ proc[p].state = "CONFIRMED"
    <3>1. row'[r] = "CONFIRMED" /\ \A t \in Rows \ {r} : row'[t] = row[t]
      BY <1>0, <2>1, <2>3 DEF SetRow, TypeOK
    <3>2. \A t \in Rows : PaidRow(t)' <=> PaidRow(t)
      BY <2>1, PaidKept
    <3>3. PaidRow(r)
      BY <2>1, <2>4, <2>3, ApprovalAssumption DEF SoundHandler, SignedRow, PaidRow, Paid
    <3>4. StatusOf(r) = "moved" /\ ToldOf(r) = "nothing"
      BY <2>1, <2>3, <3>3, StatusByRow DEF MappedRows, MappedRow
    <3>5. StatusOf(r)' = "moved" /\ ToldOf(r)' = "moved"
      BY <2>1, <3>1, StatusByRowNext DEF MappedRows, MappedRow
    <3>6. Told' = [Told EXCEPT ![r] = "moved"] /\ Status' = Status
      <4>1. \A t \in Rows \ {r} : row'[t] = row[t] /\ (PaidRow(t)' <=> PaidRow(t))
        BY <3>1, <3>2
      <4>2. /\ Status' = [Status EXCEPT ![r] = StatusOf(r)']
            /\ Told' = [Told EXCEPT ![r] = ToldOf(r)']
        BY ONLY <4>1, OneRowMapped
      <4>3. Status = [Status EXCEPT ![r] = StatusOf(r)]
        BY DEF Status
      <4> QED BY ONLY <3>4, <3>5, <4>2, <4>3
    <3>7. Spends!Tell(r)
      BY <1>0, <2>1, <3>4, <3>6 DEF Spends!Tell, Status, Told, Forever
    <3> QED
      BY <2>1, <3>7 DEF Spends!Next
  <2> QED
    BY <1>1, <1>8, <2>1, <2>4, <2>2, <2>3 DEF Write
<1>9. ASSUME NEW s \in Approvals, Land(s)
      PROVE  [Spends!Next]_(Spends!vars)
  <2>1. UNCHANGED row /\ Review[s] \in Rows /\ tx[s] = "sent" /\ row[Review[s]] = "SUBMITTED" /\ sig[Review[s]] = s
    BY <1>9, DoubtIsHeld, ApprovalAssumption DEF Land
  <2> DEFINE r == Review[s]
  <2>2. CASE tx' = [tx EXCEPT ![s] = "erred"]
    BY <1>0, <1>1, <2>1, <2>2 DEF TypeOK
  <2>3. CASE tx' = [tx EXCEPT ![s] = "paid"]
    <3>1. tx'[s] = "paid" /\ \A t \in Approvals \ {s} : tx'[t] = tx[t]
      BY <1>0, <2>3 DEF TypeOK
    <3>2. \A t \in Rows \ {r} : PaidRow(t)' <=> PaidRow(t)
      BY <3>1 DEF PaidRow, Paid
    <3>3. PaidRow(r)' /\ ~PaidRow(r)
      <4>1. ~PaidRow(r)
        BY <2>1, PaidIsHeld DEF PaidRow, Paid
      <4> QED
        BY <3>1, <4>1 DEF PaidRow, Paid
    <3>4. StatusOf(r) = "live" /\ ToldOf(r) = "nothing"
      BY <2>1, <3>3, StatusByRow DEF MappedRows, MappedRow
    <3>5. StatusOf(r)' = "moved" /\ ToldOf(r)' = "nothing"
      BY <2>1, <3>3 DEF StatusOf, PaidRow, ToldOf
    <3>6. Status' = [Status EXCEPT ![r] = "moved"] /\ Told' = Told
      BY <2>1, <3>2, <3>4, <3>5, OneRowMapped DEF Told
    <3>7. Spends!Move(r)
      BY <1>0, <2>1, <3>4, <3>6 DEF Spends!Move, Status, Forever
    <3> QED
      BY <2>1, <3>7 DEF Spends!Next
  <2> QED
    BY <1>9, <2>2, <2>3 DEF Land
<1>10. ASSUME NEW r \in Rows, Replay(r)
       PROVE  [Spends!Next]_(Spends!vars)
  <2>1. {r} \subseteq Holders /\ row[r] = "BUILT"
    BY <1>10 DEF Replay, Retirable, Holders, Holding
  <2> QED
    BY <1>3, <1>10, <2>1 DEF Replay
<1>11. ASSUME NEW q \in Handlers, Send(q)
       PROVE  [Spends!Next]_(Spends!vars)
  <2>1. proc[q].sig \in Approvals
    BY <1>0, <1>11, PlaceFields DEF Send, At
  <2> QED
    BY <1>0, <1>1, <1>11, <2>1 DEF Send, TypeOK
<1>12. ASSUME UNCHANGED <<row, tx>>
       PROVE  [Spends!Next]_(Spends!vars)
  BY <1>1, <1>12
<1> QED
  BY <1>4, <1>5, <1>6, <1>7, <1>8, <1>9, <1>10, <1>11, <1>12
  DEF Next, vars, Submit, Ask, Stop, Reconcile, Expire, Pass

(* The ledgers implement SpendOnce: an intent is signed at most once, never   *)
(* beside another that may still move money, and its owner is told an outcome *)
(* only when it is certain.                                                   *)
THEOREM LedgersSpendOnce == Spec => SpendsOnce
<1>1. Init => Spends!Init
  BY RefinementInit
<1>2. IInv /\ IInv' /\ [Next]_vars => [Spends!Next]_(Spends!vars)
  BY RefinementStep
<1> QED
  BY <1>1, <1>2, Invariance, PTL DEF Spec, SpendsOnce, Spends!Spec
=============================================================================
