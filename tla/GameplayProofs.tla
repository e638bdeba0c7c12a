---------------------------- MODULE GameplayProofs ----------------------------
(***************************************************************************)
(* Proofs about Gameplay, for all values of its constants.                 *)
(*                                                                         *)
(*   Types, final answers, the ends of a session                           *)
(*   Gameplay implements the game of QuizGame                              *)
(*   What the rows record: deadlines, times, attempts, revisions           *)
(***************************************************************************)
EXTENDS Gameplay, FiniteSetTheorems, TLAPS

\* The session row and the runs belong together, and only an open session has
\* a current run.
Linked ==
  /\ session.status \in {"waiting", "live"} =>
       session.current_run = Len(runs) /\ session.current_question = Len(runs)
  /\ session.status \notin {"waiting", "live"} =>
       session.current_run = 0 /\ session.current_question = 0
  /\ session.status = "waiting" => Len(runs) = 0

\* A run is finalized after its delivery window.
FinalRunsAreOver ==
  \A r \in DOMAIN runs :
    Finalized(runs[r]) => runs[r].delivery_deadline_at < clock

\* Final answers belong to runs that exist.
FinalsOfRuns == \A f \in finals : f.run \in DOMAIN runs

\* What the invariant says of the rows alone.
RowsInv ==
  /\ StateTypes
  /\ Linked
  /\ FinalRunsAreOver
  /\ FinalsOfRuns
  /\ FinalsReflectTimelyAttempts

\* A worker waits and works with a time of the past.
WorkInv ==
  /\ work \in [Workers -> WorkerStates]
  /\ \A w \in Workers :
       work[w].pc \in {"due", "locked"} => work[w].now \in 0..clock

\* So does a command.
CallInv ==
  /\ call \in [CommandCalls -> CallStates]
  /\ \A c \in CommandCalls : call[c].pc = "locked" => call[c].now \in 0..clock

\* What is true of the request of a participant: under way, it names a run
\* that exists; admitted, its time is one of the past; and admitted but not
\* yet stored when its run is final, it came too late.
AnswerFacts(x) ==
  /\ x.pc \in Sharing \cup {"waiting"} =>
       /\ x.participant \in Participants
       /\ x.submission_id \in Submissions
       /\ x.choice \in Choices
       /\ x.run \in DOMAIN runs
  /\ x.pc \in {"admitted", "checked"} =>
       /\ x.admitted_at \in 0..clock
       /\ Finalized(runs[x.run]) => runs[x.run].delivery_deadline_at < x.admitted_at

AnswerInv ==
  /\ answer \in [AnswerCalls -> AnswerStates]
  /\ \A a \in AnswerCalls : AnswerFacts(answer[a])

\* The inductive invariant.
IndInv ==
  /\ RowsInv
  /\ IsFiniteSet(attempts)
  /\ CommandTypes
  /\ LockType
  /\ WorkInv
  /\ CallInv
  /\ AnswerInv
-----------------------------------------------------------------------------
(* The rows: what each part of a transition does to the session and its runs. *)

\* A session that has a current run is live, and the run is its last one.
LEMMA CurrentRunExists ==
  ASSUME StateTypes, Linked, session.current_run # 0
  PROVE  /\ session.status = "live"
         /\ session.current_run \in DOMAIN runs
         /\ session.current_run = Len(runs)
         /\ session.current_question = Len(runs)
         /\ CurrentRun = runs[session.current_run]
         /\ CurrentRun \in RunRow
<1>1. session \in SessionRow /\ runs \in Seq(RunRow)
  BY DEF StateTypes
<1>2. session.status \in {"waiting", "live"}
  BY <1>1 DEF Linked, SessionRow, Statuses
<1>3. session.current_run = Len(runs) /\ session.current_question = Len(runs)
  BY <1>2 DEF Linked
<1>4. session.status = "live"
  BY <1>2, <1>3 DEF Linked
<1>5. session.current_run \in DOMAIN runs
  BY <1>1, <1>3
<1>6. CurrentRun = runs[session.current_run]
  BY <1>5 DEF CurrentRun, RunOf
<1>7. CurrentRun \in RunRow
  BY <1>1, <1>5, <1>6
<1> QED
  BY <1>3, <1>4, <1>5, <1>6, <1>7

\* What the client or a process is shown of a run is a run row or no row.
LEMMA CurrentRunType ==
  ASSUME StateTypes
  PROVE  CurrentRun \in RunRow \cup {NoRun}
<1>1. runs \in Seq(RunRow)
  BY DEF StateTypes
<1> QED
  BY <1>1 DEF CurrentRun, RunOf

\* The facts shown of a typed session and run are typed.
LEMMA BasicStateType ==
  ASSUME NEW s \in SessionRow, NEW run \in RunRow \cup {NoRun}
  PROVE  BasicState(s, run) \in BasicStates
BY DEF BasicState, BasicStates, SessionRow, RunRow, NoRun, OptTime, Time, None

-----------------------------------------------------------------------------
(* Each part of a transition keeps RowsInv.                                *)

\* A step keeps the runs that exist, and keeps those that are final after it
\* as they were, but for the runs in X.
RunsEvolve(X) ==
  \A r \in DOMAIN runs :
    /\ r \in DOMAIN runs'
    /\ Finalized(runs'[r]) /\ r \notin X => runs'[r] = runs[r]

\* The final answer of a run depends on its deadlines and timely attempts only.
LEMMA SameFinalAnswer ==
  ASSUME NEW r, NEW p,
         runs'[r].answering_started_at = runs[r].answering_started_at,
         runs'[r].answer_deadline_at = runs[r].answer_deadline_at,
         TimelyAttempts(r, p)' = TimelyAttempts(r, p)
  PROVE  FinalAnswer(r, p)' = FinalAnswer(r, p)
BY DEF FinalAnswer

\* FinalsReflectTimelyAttempts for one run.
FinalsOf(r) == {f \in finals : f.run = r}

\* A run whose final answers and timely attempts a step leaves alone keeps
\* what FinalsReflectTimelyAttempts says of it.
LEMMA SameFinals ==
  ASSUME NEW r \in DOMAIN runs, FinalsReflectTimelyAttempts,
         FinalsOf(r)' = FinalsOf(r),
         Finalized(runs'[r]) <=> Finalized(runs[r]),
         Finalized(runs[r]) =>
           /\ joined' = joined
           /\ runs'[r] = runs[r]
           /\ \A p \in joined : TimelyAttempts(r, p)' = TimelyAttempts(r, p)
  PROVE  FinalsOf(r)' =
           IF Finalized(runs'[r]) THEN {FinalAnswer(r, p)' : p \in joined'} ELSE {}
<1>1. FinalsOf(r) = IF Finalized(runs[r]) THEN {FinalAnswer(r, p) : p \in joined} ELSE {}
  BY DEF FinalsReflectTimelyAttempts, FinalsOf
<1>2. CASE ~Finalized(runs[r])
  BY <1>1, <1>2
<1>3. CASE Finalized(runs[r])
  <2>1. \A p \in joined : FinalAnswer(r, p)' = FinalAnswer(r, p)
    BY <1>3, SameFinalAnswer
  <2>2. {FinalAnswer(r, p)' : p \in joined} = {FinalAnswer(r, p) : p \in joined}
    BY <2>1
  <2> QED
    BY <1>1, <1>3, <2>2
<1> QED
  BY <1>2, <1>3

\* RowsInv after a step that changes no press and no participant: it is enough
\* to look at the runs it touches.
LEMMA RowsStep ==
  ASSUME RowsInv, StateTypes', Linked', FinalRunsAreOver', FinalsOfRuns',
         UNCHANGED <<joined, attempts>>,
         \A r \in DOMAIN runs' :
           \/ /\ r \in DOMAIN runs
              /\ FinalsOf(r)' = FinalsOf(r)
              /\ Finalized(runs'[r]) <=> Finalized(runs[r])
              /\ Finalized(runs[r]) => runs'[r] = runs[r]
           \/ FinalsOf(r)' =
                IF Finalized(runs'[r]) THEN {FinalAnswer(r, p)' : p \in joined'} ELSE {}
  PROVE  RowsInv'
<1>1. ASSUME NEW r \in DOMAIN runs'
      PROVE  FinalsOf(r)' =
               IF Finalized(runs'[r]) THEN {FinalAnswer(r, p)' : p \in joined'} ELSE {}
  <2>1. CASE /\ r \in DOMAIN runs
             /\ FinalsOf(r)' = FinalsOf(r)
             /\ Finalized(runs'[r]) <=> Finalized(runs[r])
             /\ Finalized(runs[r]) => runs'[r] = runs[r]
    <3>1. Finalized(runs[r]) =>
            \A p \in joined : TimelyAttempts(r, p)' = TimelyAttempts(r, p)
      BY <2>1 DEF TimelyAttempts
    <3> QED
      BY <2>1, <3>1, SameFinals DEF RowsInv
  <2> QED
    BY <2>1
<1>2. FinalsReflectTimelyAttempts'
  BY <1>1 DEF FinalsReflectTimelyAttempts, FinalsOf
<1> QED
  BY <1>2 DEF RowsInv

\* Transitions that leave the runs and the final answers alone.
LEMMA SessionOnly ==
  ASSUME RowsInv, session' \in SessionRow, Linked',
         UNCHANGED <<clock, runs, joined, attempts, finals>>
  PROVE  RowsInv' /\ RunsEvolve({})
<1>1. StateTypes' /\ FinalsOfRuns' /\ FinalRunsAreOver'
  BY DEF RowsInv, StateTypes, FinalsOfRuns, FinalRunsAreOver
<1>2. \A r \in DOMAIN runs : FinalsOf(r)' = FinalsOf(r)
  BY DEF FinalsOf
<1> QED
  BY <1>1, <1>2, RowsStep DEF RunsEvolve

\* Saving a session row of the right type gives one, with only its revision new.
LEMMA SaveSessionType ==
  ASSUME NEW new \in SessionRow, SaveSession(new)
  PROVE  /\ session' \in SessionRow
         /\ session'.status = new.status
         /\ session'.phase = new.phase
         /\ session'.current_run = new.current_run
         /\ session'.current_question = new.current_question
BY DEF SaveSession, SessionRow

\* The session row of a question that opens and of a session that ends.
LEMMA SessionFields ==
  ASSUME NEW st \in Statuses, NEW ph \in Phases, NEW t \in Time,
         NEW q \in Refs, NEW r \in Refs, NEW v \in Refs,
         session \in SessionRow
  PROVE  /\ [session EXCEPT !.status = st, !.phase = ph, !.current_question = q,
                            !.current_run = r, !.revealed_question_id = v,
                            !.phase_started_at = t] \in SessionRow
         /\ [session EXCEPT !.current_question = q, !.current_run = r,
                            !.revealed_question_id = v, !.phase = ph,
                            !.phase_started_at = t] \in SessionRow
BY DEF SessionRow

\* start_session keeps RowsInv.
LEMMA StartSessionRows ==
  ASSUME RowsInv, CanStartSession, StartSession,
         UNCHANGED <<clock, joined, attempts>>
  PROVE  RowsInv' /\ RunsEvolve({})
<1> DEFINE new == [session EXCEPT !.status = "live"]
<1>1. session \in SessionRow
  BY DEF RowsInv, StateTypes
<1>2. new \in SessionRow
  BY <1>1 DEF SessionRow, Statuses
<1>3. SaveSession(new)
  BY DEF StartSession
<1>4. /\ session' \in SessionRow
      /\ session'.status = new.status
      /\ session'.current_run = new.current_run
      /\ session'.current_question = new.current_question
  BY <1>2, <1>3, SaveSessionType
<1>5. /\ session'.status = "live"
      /\ session'.current_run = session.current_run
      /\ session'.current_question = session.current_question
  BY <1>1, <1>4 DEF SessionRow
<1>6. runs' = runs /\ finals' = finals
  BY DEF StartSession
<1>7. Linked'
  BY <1>1, <1>5, <1>6 DEF RowsInv, Linked, CanStartSession
<1> QED
  BY <1>4, <1>6, <1>7, SessionOnly

\* The end of reading and the end of answering keep RowsInv.
LEMMA StartAnsweringRows ==
  ASSUME RowsInv, session.current_run # 0, StartAnswering \/ StartDelivery,
         UNCHANGED <<clock, joined, attempts>>
  PROVE  RowsInv' /\ RunsEvolve({})
<1>1. session \in SessionRow
  BY DEF RowsInv, StateTypes
<1>2. CurrentRun \in RunRow
  BY CurrentRunExists DEF RowsInv
<1>3. CurrentRun.answering_started_at \in Time /\ CurrentRun.answer_deadline_at \in Time
  BY <1>2 DEF RunRow
<1>4. PICK ph \in {"answering", "delivery"}, t \in Time :
        SaveSession([session EXCEPT !.phase = ph, !.phase_started_at = t])
  BY <1>3 DEF StartAnswering, StartDelivery
<1> DEFINE new == [session EXCEPT !.phase = ph, !.phase_started_at = t]
<1>5. new \in SessionRow
  BY <1>1 DEF SessionRow, Phases
<1>6. /\ session' \in SessionRow
      /\ session'.status = new.status
      /\ session'.current_run = new.current_run
      /\ session'.current_question = new.current_question
  BY <1>4, <1>5, SaveSessionType
<1>7. /\ session'.status = session.status
      /\ session'.current_run = session.current_run
      /\ session'.current_question = session.current_question
  BY <1>1, <1>6 DEF SessionRow
<1>8. runs' = runs /\ finals' = finals
  BY DEF StartAnswering, StartDelivery
<1>9. Linked'
  BY <1>7, <1>8 DEF RowsInv, Linked
<1> QED
  BY <1>6, <1>8, <1>9, SessionOnly

\* The end of a session, by its last results or by abort_session, keeps RowsInv.
LEMMA FinishSessionRows ==
  ASSUME RowsInv, NEW now \in Time, NEW status \in {"finished", "aborted"},
         FinishSession(now, status), UNCHANGED <<clock, joined, attempts>>
  PROVE  RowsInv' /\ RunsEvolve({})
<1> DEFINE new == [session EXCEPT !.status = status, !.phase = "final",
                                  !.current_question = 0, !.current_run = 0,
                                  !.revealed_question_id = 0,
                                  !.phase_started_at = now]
<1>1. session \in SessionRow
  BY DEF RowsInv, StateTypes
<1>2. 0 \in Refs /\ "final" \in Phases /\ status \in Statuses
  BY NumbersAssumption DEF Refs, Phases, Statuses
<1>3. new \in SessionRow
  BY <1>1, <1>2, SessionFields
<1>4. SaveSession(new) /\ runs' = runs /\ finals' = finals
  BY DEF FinishSession
<1>5. new.status = status /\ new.current_run = 0 /\ new.current_question = 0
  BY <1>1 DEF SessionRow
<1>6. /\ session' \in SessionRow
      /\ session'.status = status
      /\ session'.current_run = 0
      /\ session'.current_question = 0
  BY <1>3, <1>4, <1>5, SaveSessionType
<1>7. Linked'
  BY <1>6 DEF Linked
<1> QED
  BY <1>4, <1>6, <1>7, SessionOnly

\* A question that opens keeps RowsInv: its run is new and has no final answer.
LEMMA StartQuestionRows ==
  ASSUME RowsInv, NEW now \in Time, session.status = "live",
         HasNextQuestion(session), StartQuestion(now),
         UNCHANGED <<clock, joined, attempts>>
  PROVE  RowsInv' /\ RunsEvolve({})
<1>0. PICK n : n = Len(runs) + 1
  OBVIOUS
<1> DEFINE opens == now + ReadingTime
           ends == opens + AnswerTime
           run == [question |-> session.current_question + 1,
                   reading_ends_at |-> opens,
                   answering_started_at |-> opens,
                   planned_answer_deadline_at |-> ends,
                   answer_deadline_at |-> ends,
                   delivery_deadline_at |-> ends + DeliveryWindow,
                   finalized_at |-> None,
                   results_ends_at |-> None]
           new == [session EXCEPT !.current_question = session.current_question + 1,
                                  !.current_run = n,
                                  !.revealed_question_id = 0,
                                  !.phase = "reading",
                                  !.phase_started_at = now]
<1>1. session \in SessionRow /\ runs \in Seq(RunRow)
  BY DEF RowsInv, StateTypes
<1>2. session.current_question = Len(runs) /\ Len(runs) \in Nat
  BY <1>1 DEF RowsInv, Linked
<1>3. n \in Refs /\ 0 \in Refs /\ "reading" \in Phases /\ session.status \in Statuses
  BY <1>0, <1>1, <1>2, NumbersAssumption DEF HasNextQuestion, Refs, Phases, SessionRow
<1>4. session.current_question + 1 = n
  BY <1>0, <1>2
<1>5. opens \in Time /\ ends \in Time /\ ends + DeliveryWindow \in Time
  BY NumbersAssumption DEF Time
<1>6. None \in OptTime
  BY DEF OptTime
<1>7. run \in RunRow
  BY <1>3, <1>4, <1>5, <1>6 DEF RunRow
<1>8. runs' = Append(runs, run) /\ SaveSession(new) /\ finals' = finals
  BY <1>0 DEF StartQuestion
<1> HIDE DEF run
<1>9. /\ runs' \in Seq(RunRow)
      /\ Len(runs') = n
      /\ DOMAIN runs' = DOMAIN runs \cup {n}
      /\ n \notin DOMAIN runs
      /\ runs'[n] = run
      /\ \A r \in DOMAIN runs : runs'[r] = runs[r]
  BY <1>0, <1>1, <1>7, <1>8
<1>10. new \in SessionRow
  BY <1>1, <1>3, <1>4, SessionFields
<1>11. new.status = "live" /\ new.current_run = n /\ new.current_question = n
  BY <1>1, <1>4 DEF SessionRow
<1>12. /\ session' \in SessionRow
       /\ session'.status = "live"
       /\ session'.current_run = n
       /\ session'.current_question = n
  <2> HIDE DEF new
  <2> QED
    BY <1>8, <1>10, <1>11, SaveSessionType
<1>13. ~Finalized(runs'[n])
  BY <1>9 DEF run, Finalized
<1>14. StateTypes' /\ Linked'
  BY <1>9, <1>12 DEF RowsInv, StateTypes, Linked
<1>15. FinalRunsAreOver'
  BY <1>9, <1>13 DEF RowsInv, FinalRunsAreOver
<1>16. FinalsOfRuns'
  BY <1>8, <1>9 DEF RowsInv, FinalsOfRuns
<1>17. \A r \in DOMAIN runs : FinalsOf(r)' = FinalsOf(r)
  BY <1>8 DEF FinalsOf
<1>18. FinalsOf(n)' = {}
  BY <1>8, <1>9 DEF RowsInv, FinalsOfRuns, FinalsOf
<1>19. RowsInv'
  BY <1>9, <1>13, <1>14, <1>15, <1>16, <1>17, <1>18, RowsStep
<1> QED
  BY <1>9, <1>19 DEF RunsEvolve

\* Replacing one run keeps the others, their number and their type.
LEMMA ReplacedRun ==
  ASSUME runs \in Seq(RunRow), NEW i \in DOMAIN runs, NEW row \in RunRow
  PROVE  LET new == [runs EXCEPT ![i] = row]
         IN  /\ new \in Seq(RunRow)
             /\ Len(new) = Len(runs)
             /\ DOMAIN new = DOMAIN runs
             /\ new[i] = row
             /\ \A r \in DOMAIN runs \ {i} : new[r] = runs[r]
OBVIOUS

\* end_question moves the deadlines of a run that is not final.
LEMMA EndQuestionRows ==
  ASSUME RowsInv, NEW now \in Time, CanEndQuestion(now), EndQuestion(now),
         UNCHANGED <<clock, joined, attempts>>
  PROVE  RowsInv' /\ RunsEvolve({})
<1>0. PICK i : i = session.current_run
  OBVIOUS
<1> DEFINE row == [runs[i] EXCEPT !.answer_deadline_at = now,
                                  !.delivery_deadline_at = now + DeliveryWindow]
           new == [session EXCEPT !.phase = "delivery", !.phase_started_at = now]
<1>1. session \in SessionRow /\ runs \in Seq(RunRow)
  BY DEF RowsInv, StateTypes
<1>2. i \in DOMAIN runs /\ CurrentRun = runs[i] /\ runs[i] \in RunRow
  BY <1>0, CurrentRunExists DEF RowsInv, CanEndQuestion
<1>3. now + DeliveryWindow \in Time
  BY NumbersAssumption DEF Time
<1>4. row \in RunRow /\ row.finalized_at = runs[i].finalized_at
  BY <1>2, <1>3 DEF RunRow
<1>5. runs' = [runs EXCEPT ![i] = row] /\ SaveSession(new) /\ finals' = finals
  BY <1>0, <1>1, <1>2 DEF EndQuestion
<1>6. new \in SessionRow
  BY <1>1 DEF SessionRow, Phases
<1>7. /\ new.status = session.status
      /\ new.current_run = i
      /\ new.current_question = session.current_question
  BY <1>0, <1>1 DEF SessionRow
<1> HIDE DEF row, new
<1>8. /\ runs' \in Seq(RunRow)
      /\ Len(runs') = Len(runs)
      /\ DOMAIN runs' = DOMAIN runs
      /\ runs'[i] = row
      /\ \A r \in DOMAIN runs \ {i} : runs'[r] = runs[r]
  BY <1>1, <1>2, <1>4, <1>5, ReplacedRun
<1>9. /\ session' \in SessionRow
      /\ session'.status = session.status
      /\ session'.current_run = i
      /\ session'.current_question = session.current_question
  BY <1>5, <1>6, <1>7, SaveSessionType
<1>10. ~Finalized(runs[i]) /\ ~Finalized(runs'[i])
  BY <1>2, <1>4, <1>8 DEF CanEndQuestion, Finalized
<1>11. StateTypes' /\ Linked'
  BY <1>0, <1>8, <1>9 DEF RowsInv, StateTypes, Linked
<1>12. FinalRunsAreOver' /\ FinalsOfRuns'
  BY <1>5, <1>8, <1>10 DEF RowsInv, FinalRunsAreOver, FinalsOfRuns
<1>13. \A r \in DOMAIN runs : FinalsOf(r)' = FinalsOf(r)
  BY <1>5 DEF FinalsOf
<1>14. \A r \in DOMAIN runs : /\ Finalized(runs'[r]) <=> Finalized(runs[r])
                              /\ Finalized(runs[r]) => runs'[r] = runs[r]
  BY <1>8, <1>10
<1>15. RowsInv'
  BY <1>8, <1>11, <1>12, <1>13, <1>14, RowsStep
<1> QED
  BY <1>8, <1>14, <1>15 DEF RunsEvolve

\* Finalization gives its run exactly the final answers the run should have.
LEMMA FinalizeRows ==
  ASSUME RowsInv, NEW now \in 0..clock, session.current_run # 0,
         FinalizeDue(CurrentRun, now), Finalize(now),
         UNCHANGED <<clock, joined, attempts>>
  PROVE  RowsInv' /\ RunsEvolve({session.current_run})
<1>0. PICK i : i = session.current_run
  OBVIOUS
<1> DEFINE row == [runs[i] EXCEPT !.finalized_at = now,
                                  !.results_ends_at = now + ResultsTime]
           new == [session EXCEPT !.phase = "results",
                                  !.revealed_question_id = runs[i].question,
                                  !.phase_started_at = now]
<1>1. session \in SessionRow /\ runs \in Seq(RunRow) /\ clock \in Nat
  BY DEF RowsInv, StateTypes, Time
<1>2. i \in DOMAIN runs /\ CurrentRun = runs[i] /\ runs[i] \in RunRow
  BY <1>0, CurrentRunExists DEF RowsInv
<1>3. now \in Time /\ now \in OptTime /\ now + ResultsTime \in OptTime
  BY <1>1, NumbersAssumption DEF Time, OptTime
<1>4. /\ row \in RunRow
      /\ row.finalized_at = now
      /\ row.answering_started_at = runs[i].answering_started_at
      /\ row.answer_deadline_at = runs[i].answer_deadline_at
      /\ row.delivery_deadline_at = runs[i].delivery_deadline_at
  BY <1>2, <1>3 DEF RunRow
<1>5. /\ runs' = [runs EXCEPT ![i] = row]
      /\ SaveSession(new)
      /\ finals' = finals \cup {FinalAnswer(i, p) : p \in joined}
  BY <1>0, <1>1, <1>2 DEF Finalize
<1>6. runs[i].question \in Refs /\ "results" \in Phases
  BY <1>2 DEF RunRow, Phases
<1>7. new \in SessionRow
  BY <1>1, <1>3, <1>6 DEF SessionRow
<1>8. /\ new.status = session.status
      /\ new.current_run = i
      /\ new.current_question = session.current_question
  BY <1>0, <1>1 DEF SessionRow
<1> HIDE DEF row, new
<1>9. /\ runs' \in Seq(RunRow)
      /\ Len(runs') = Len(runs)
      /\ DOMAIN runs' = DOMAIN runs
      /\ runs'[i] = row
      /\ \A r \in DOMAIN runs \ {i} : runs'[r] = runs[r]
  BY <1>1, <1>2, <1>4, <1>5, ReplacedRun
<1>10. /\ session' \in SessionRow
       /\ session'.status = session.status
       /\ session'.current_run = i
       /\ session'.current_question = session.current_question
  BY <1>5, <1>7, <1>8, SaveSessionType
<1>11. ~Finalized(runs[i]) /\ Finalized(runs'[i]) /\ runs[i].delivery_deadline_at < now
  <2>1. row.finalized_at # -1
    BY <1>1, <1>4
  <2>2. runs[i].delivery_deadline_at \in Nat
    BY <1>2 DEF RunRow, Time
  <2> QED
    BY <1>1, <1>2, <1>9, <2>1, <2>2 DEF FinalizeDue, Finalized, None
<1>12. StateTypes' /\ Linked'
  BY <1>0, <1>9, <1>10 DEF RowsInv, StateTypes, Linked
<1>13. FinalRunsAreOver'
  <2>1. runs'[i].delivery_deadline_at < clock'
    <3>1. runs[i].delivery_deadline_at \in Nat
      BY <1>2 DEF RunRow, Time
    <3> QED
      BY <1>1, <1>4, <1>9, <1>11, <3>1
  <2> QED
    BY <1>9, <2>1 DEF RowsInv, FinalRunsAreOver
<1>14. \A p \in joined : FinalAnswer(i, p).run = i
  BY DEF FinalAnswer
<1>15. FinalsOfRuns'
  BY <1>2, <1>5, <1>9, <1>14 DEF RowsInv, FinalsOfRuns
<1>16. \A r \in DOMAIN runs \ {i} : FinalsOf(r)' = FinalsOf(r)
  BY <1>5, <1>14 DEF FinalsOf
<1>17. FinalsOf(i)' = {FinalAnswer(i, p)' : p \in joined'}
  <2>1. FinalsOf(i) = {}
    BY <1>2, <1>11 DEF RowsInv, FinalsReflectTimelyAttempts, FinalsOf
  <2>2. FinalsOf(i)' = {FinalAnswer(i, p) : p \in joined}
    BY <1>5, <1>14, <2>1 DEF FinalsOf
  <2>3. ASSUME NEW p \in joined
        PROVE  FinalAnswer(i, p)' = FinalAnswer(i, p)
    <3>1. TimelyAttempts(i, p)' = TimelyAttempts(i, p)
      BY <1>4, <1>9, <1>10 DEF TimelyAttempts
    <3> QED
      BY <1>4, <1>9, <1>10, <3>1 DEF FinalAnswer
  <2> QED
    BY <2>2, <2>3
<1>18. RowsInv'
  BY <1>9, <1>11, <1>12, <1>13, <1>15, <1>16, <1>17, RowsStep
<1> QED
  BY <1>0, <1>9, <1>18 DEF RunsEvolve
-----------------------------------------------------------------------------
(* The transitions of the two drivers.                                     *)

\* What one may keep of the runs one may keep of fewer.
LEMMA RunsEvolveMore ==
  ASSUME NEW X, RunsEvolve({})
  PROVE  RunsEvolve(X)
BY DEF RunsEvolve

\* The log stays typed when a transition is recorded.
LEMMA LogCommandTypes ==
  ASSUME CommandTypes, StateTypes', NEW id \in CommandIdRows,
         NEW facts \in FactRows, LogCommand(id, facts)
  PROVE  CommandTypes'
<1>1. RunOf(session', runs') \in RunRow \cup {NoRun} /\ session' \in SessionRow
  BY DEF StateTypes, RunOf
<1>2. BasicState(session', RunOf(session', runs')) \in BasicStates
  BY <1>1, BasicStateType
<1> QED
  BY <1>2 DEF CommandTypes, LogCommand

\* The facts of an automatic transition and its identifier are typed.
LEMMA LogAutomaticTypes ==
  ASSUME StateTypes, StateTypes', CommandTypes, NEW kind \in AutoKinds,
         NEW boundary \in Time, LogAutomatic(kind, boundary)
  PROVE  CommandTypes'
<1>1. session \in SessionRow /\ session' \in SessionRow
  BY DEF StateTypes
<1>2. AutoFacts(kind, boundary) \in FactRows
  BY <1>1 DEF AutoFacts, FactRows, SessionRow, OptTime
<1>3. [run |-> session'.current_run, kind |-> kind, boundary |-> boundary]
        \in CommandIdRows
  BY <1>1 DEF CommandIdRows, AutomaticIds, SessionRow
<1> QED
  BY <1>2, <1>3, LogCommandTypes DEF LogAutomatic

\* Every automatic transition keeps RowsInv and finalizes at most the current run.
LEMMA AutomaticRows ==
  ASSUME RowsInv, CommandTypes, session.current_run # 0, NEW now \in 0..clock,
         AutomaticTransition(now), UNCHANGED <<clock, joined, attempts>>
  PROVE  RowsInv' /\ CommandTypes' /\ RunsEvolve({session.current_run})
<1>1. StateTypes /\ Linked /\ clock \in Nat
  BY DEF RowsInv, StateTypes, Time
<1>2. now \in Time
  BY <1>1 DEF Time
<1>3. session.status = "live" /\ CurrentRun \in RunRow
  BY <1>1, CurrentRunExists
<1>4. /\ CurrentRun.delivery_deadline_at \in Time
      /\ CurrentRun.reading_ends_at \in Time
      /\ CurrentRun.answer_deadline_at \in Time
      /\ CurrentRun.results_ends_at # None => CurrentRun.results_ends_at \in Time
  BY <1>3 DEF RunRow, OptTime
<1>5. /\ "auto_finalize_question" \in AutoKinds
      /\ "auto_start_answering" \in AutoKinds
      /\ "auto_start_delivery" \in AutoKinds
      /\ "auto_next_question" \in AutoKinds
      /\ "auto_finish_session" \in AutoKinds
  BY DEF AutoKinds
<1>6. RowsInv' => StateTypes'
  BY DEF RowsInv
<1>7. CASE /\ FinalizeDue(CurrentRun, now)
           /\ Finalize(now)
           /\ LogAutomatic("auto_finalize_question", CurrentRun.delivery_deadline_at)
  <2>1. RowsInv' /\ RunsEvolve({session.current_run})
    BY <1>7, FinalizeRows
  <2> QED
    BY <1>1, <1>4, <1>5, <1>6, <1>7, <2>1, LogAutomaticTypes
<1>8. CASE /\ StartAnswering
           /\ LogAutomatic("auto_start_answering", CurrentRun.reading_ends_at)
  <2>1. RowsInv' /\ RunsEvolve({session.current_run})
    BY <1>8, StartAnsweringRows, RunsEvolveMore
  <2> QED
    BY <1>1, <1>4, <1>5, <1>6, <1>8, <2>1, LogAutomaticTypes
<1>9. CASE /\ StartDelivery
           /\ LogAutomatic("auto_start_delivery", CurrentRun.answer_deadline_at)
  <2>1. RowsInv' /\ RunsEvolve({session.current_run})
    BY <1>9, StartAnsweringRows, RunsEvolveMore
  <2> QED
    BY <1>1, <1>4, <1>5, <1>6, <1>9, <2>1, LogAutomaticTypes
<1>10. CASE /\ ResultsOver(session, CurrentRun, now)
            /\ HasNextQuestion(session)
            /\ StartQuestion(now)
            /\ LogAutomatic("auto_next_question", CurrentRun.results_ends_at)
  <2>1. RowsInv' /\ RunsEvolve({session.current_run})
    BY <1>2, <1>3, <1>10, StartQuestionRows, RunsEvolveMore
  <2>2. CurrentRun.results_ends_at \in Time
    BY <1>4, <1>10 DEF ResultsOver
  <2> QED
    BY <1>1, <1>5, <1>6, <1>10, <2>1, <2>2, LogAutomaticTypes
<1>11. CASE /\ ResultsOver(session, CurrentRun, now)
            /\ FinishSession(now, "finished")
            /\ LogAutomatic("auto_finish_session", CurrentRun.results_ends_at)
  <2>1. RowsInv' /\ RunsEvolve({session.current_run})
    BY <1>2, <1>11, FinishSessionRows, RunsEvolveMore
  <2>2. CurrentRun.results_ends_at \in Time
    BY <1>4, <1>11 DEF ResultsOver
  <2> QED
    BY <1>1, <1>5, <1>6, <1>11, <2>1, <2>2, LogAutomaticTypes
<1> QED
  BY <1>7, <1>8, <1>9, <1>10, <1>11 DEF AutomaticTransition

\* Every applicable command of the teacher keeps RowsInv and finalizes no run.
LEMMA ManualRows ==
  ASSUME RowsInv, NEW kind, NEW now \in 0..clock, Applicable(kind, now),
         ManualTransition(kind, now), UNCHANGED <<clock, joined, attempts>>
  PROVE  RowsInv' /\ RunsEvolve({})
<1>1. now \in Time
  BY DEF RowsInv, StateTypes, Time
<1>2. CASE kind = "start_session"
  <2>1. CanStartSession /\ StartSession
    BY <1>2 DEF Applicable, ManualTransition
  <2> QED
    BY <2>1, StartSessionRows
<1>3. CASE kind \in {"start_quiz", "next_question"}
  <2>1. StartQuestion(now) /\ (CanStartQuiz \/ CanOpenNext)
    BY <1>3 DEF Applicable, ManualTransition
  <2>2. session.status = "live" /\ HasNextQuestion(session)
    BY <2>1 DEF CanStartQuiz, CanOpenNext
  <2> QED
    BY <1>1, <2>1, <2>2, StartQuestionRows
<1>4. CASE kind = "end_question"
  <2>1. CanEndQuestion(now) /\ EndQuestion(now)
    BY <1>4 DEF Applicable, ManualTransition
  <2> QED
    BY <1>1, <2>1, EndQuestionRows
<1>5. CASE kind = "abort_session"
  <2>1. FinishSession(now, "aborted")
    BY <1>5 DEF Applicable, ManualTransition
  <2> QED
    BY <1>1, <2>1, FinishSessionRows
<1> QED
  BY <1>2, <1>3, <1>4, <1>5 DEF ManualTransition
-----------------------------------------------------------------------------
(* The processes.                                                          *)

\* The values that processes start from are typed.
LEMMA InitialTypes ==
  /\ NewSession \in SessionRow
  /\ Unread \in SnapshotRows
  /\ UnreadRun \in SeenRuns
  /\ IdleWorker \in WorkerStates
  /\ IdleCall \in CallStates
  /\ DoneCall \in CallStates
  /\ NoAnswer \in AnswerStates
  /\ DoneAnswer \in AnswerStates
<1>1. 0 \in Refs
  BY NumbersAssumption DEF Refs
<1>2. NewSession \in SessionRow
  BY <1>1 DEF NewSession, SessionRow, Statuses, Phases, Time
<1>3. Unread \in SnapshotRows
  BY <1>2 DEF Unread, SnapshotRows
<1>4. UnreadRun \in SeenRuns
  BY <1>1 DEF UnreadRun, SeenRuns
<1>5. None \in OptTime
  BY DEF OptTime
<1>6. IdleWorker \in WorkerStates
  BY <1>3, <1>5 DEF IdleWorker, WorkerStates
<1>7. NoFacts \in FactRows
  BY <1>1, <1>5 DEF NoFacts, FactRows, Phases
<1>8. IdleCall \in CallStates
  BY <1>4, <1>5, <1>7 DEF IdleCall, CallStates
<1>9. DoneCall \in CallStates
  BY <1>8 DEF DoneCall, CallStates
<1>10. NoAnswer \in AnswerStates
  BY <1>1, <1>5 DEF NoAnswer, AnswerStates
<1>11. DoneAnswer \in AnswerStates
  BY <1>10 DEF DoneAnswer, AnswerStates
<1> QED
  BY <1>2, <1>3, <1>4, <1>6, <1>8, <1>9, <1>10, <1>11

\* What a process can read of the session and its run is typed.
LEMMA SnapshotTypes ==
  ASSUME StateTypes
  PROVE  /\ Snapshot \in SnapshotRows
         /\ [current_run |-> session.current_run, run |-> CurrentRun] \in SeenRuns
<1>1. session \in SessionRow /\ session.current_run \in Refs
  BY DEF StateTypes, SessionRow
<1>2. CurrentRun \in RunRow \cup {NoRun}
  BY CurrentRunType
<1> QED
  BY <1>1, <1>2 DEF Snapshot, SnapshotRows, SeenRuns

\* A step that leaves the rows and the clock alone keeps what is said of them.
LEMMA RowsKept ==
  ASSUME IndInv, UNCHANGED <<clock, rows>>
  PROVE  RowsInv' /\ IsFiniteSet(attempts)' /\ CommandTypes'
<1>1. UNCHANGED <<clock, session, runs, joined, attempts, finals, commands>>
  BY DEF rows
<1>2. session' \in SessionRow
  BY <1>1 DEF IndInv, RowsInv, StateTypes
<1>3. Linked'
  BY <1>1 DEF IndInv, RowsInv, Linked
<1>4. RowsInv'
  BY <1>1, <1>2, <1>3, SessionOnly DEF IndInv
<1> QED
  BY <1>1, <1>4 DEF IndInv, CommandTypes

\* A step of one worker.
LEMMA WorkStep ==
  ASSUME WorkInv, NEW w \in Workers, NEW x \in WorkerStates,
         x.pc \in {"due", "locked"} => x.now \in 0..clock,
         work' = [work EXCEPT ![w] = x], clock' = clock
  PROVE  WorkInv'
BY DEF WorkInv

\* A step of one command.
LEMMA CallsStep ==
  ASSUME CallInv, NEW c \in CommandCalls, NEW x \in CallStates,
         x.pc = "locked" => x.now \in 0..clock,
         call' = [call EXCEPT ![c] = x], clock' = clock
  PROVE  CallInv'
BY DEF CallInv

\* A step of one request of a participant that finds the runs as they are.
LEMMA AnswersStep ==
  ASSUME AnswerInv, NEW a \in AnswerCalls, NEW x \in AnswerStates,
         AnswerFacts(x), answer' = [answer EXCEPT ![a] = x],
         UNCHANGED <<clock, runs>>
  PROVE  AnswerInv'
<1>1. \A b \in AnswerCalls : answer'[b] = IF b = a THEN x ELSE answer[b]
  BY DEF AnswerInv
<1>2. \A b \in AnswerCalls : AnswerFacts(answer'[b])
  BY <1>1 DEF AnswerInv
<1>3. ASSUME NEW b \in AnswerCalls PROVE AnswerFacts(answer[b])'
  BY <1>2 DEF AnswerFacts, Finalized
<1> QED
  BY <1>3 DEF AnswerInv

\* Requests under way are not disturbed by a transition: the runs it may
\* finalize are shared by none of them.
LEMMA AnswersWait ==
  ASSUME AnswerInv, NEW X, RunsEvolve(X), UNCHANGED <<clock, answer>>,
         \A a \in AnswerCalls : answer[a].pc \in Sharing => answer[a].run \notin X
  PROVE  AnswerInv'
<1>1. ASSUME NEW a \in AnswerCalls PROVE AnswerFacts(answer[a])'
  <2>1. AnswerFacts(answer[a])
    BY DEF AnswerInv
  <2>2. answer[a].pc \in Sharing \cup {"waiting"} => answer[a].run \in DOMAIN runs'
    BY <2>1 DEF AnswerFacts, RunsEvolve
  <2>3. CASE answer[a].pc \in {"admitted", "checked"}
    <3>1. answer[a].pc \in Sharing
      BY <2>3 DEF Sharing
    <3>2. answer[a].run \in DOMAIN runs /\ answer[a].run \notin X
      BY <2>1, <3>1 DEF AnswerFacts
    <3>3. Finalized(runs'[answer[a].run]) => runs'[answer[a].run] = runs[answer[a].run]
      BY <3>2 DEF RunsEvolve
    <3> QED
      BY <2>1, <2>2, <2>3, <3>3 DEF AnswerFacts, Finalized
  <2>4. CASE answer[a].pc \notin {"admitted", "checked"}
    BY <2>1, <2>2, <2>4 DEF AnswerFacts
  <2> QED
    BY <2>3, <2>4
<1> QED
  BY <1>1 DEF AnswerInv

\* A process that does not move is as it was.
LEMMA OthersKept ==
  ASSUME clock' = clock
  PROVE  /\ WorkInv /\ work' = work => WorkInv'
         /\ CallInv /\ call' = call => CallInv'
         /\ AnswerInv /\ answer' = answer /\ runs' = runs => AnswerInv'
<1>1. WorkInv /\ work' = work => WorkInv'
  BY DEF WorkInv
<1>2. CallInv /\ call' = call => CallInv'
  BY DEF CallInv
<1>3. AnswerInv /\ answer' = answer /\ runs' = runs => AnswerInv'
  BY DEF AnswerInv, AnswerFacts, Finalized
<1> QED
  BY <1>1, <1>2, <1>3
-----------------------------------------------------------------------------
(* Every action keeps IndInv.                                              *)

\* The clock moves on: times of the past stay so.
LEMMA TickInv ==
  ASSUME IndInv, Tick
  PROVE  IndInv'
<1>1. /\ clock \in Nat /\ clock' = clock + 1
      /\ UNCHANGED <<session, runs, joined, attempts, finals, commands,
                     session_lock, work, call, answer>>
  BY DEF IndInv, RowsInv, StateTypes, Time, Tick, rows, procs
<1>2. StateTypes' /\ Linked' /\ FinalsOfRuns'
  BY <1>1 DEF IndInv, RowsInv, StateTypes, Time, Linked, FinalsOfRuns
<1>3. FinalRunsAreOver'
  <2>1. \A r \in DOMAIN runs : runs[r] \in RunRow
    BY DEF IndInv, RowsInv, StateTypes
  <2>2. \A r \in DOMAIN runs : runs[r].delivery_deadline_at \in Nat
    BY <2>1 DEF RunRow, Time
  <2> QED
    BY <1>1, <2>2 DEF IndInv, RowsInv, FinalRunsAreOver, Finalized
<1>4. \A r \in DOMAIN runs : FinalsOf(r)' = FinalsOf(r)
  BY <1>1 DEF FinalsOf
<1>5. RowsInv'
  BY <1>1, <1>2, <1>3, <1>4, RowsStep DEF IndInv
<1>6. WorkInv' /\ CallInv'
  BY <1>1 DEF IndInv, WorkInv, CallInv
<1>7. ASSUME NEW a \in AnswerCalls PROVE AnswerFacts(answer[a])'
  BY <1>1 DEF IndInv, AnswerInv, AnswerFacts, Finalized
<1>8. AnswerInv'
  BY <1>1, <1>7 DEF IndInv, AnswerInv
<1> QED
  BY <1>1, <1>5, <1>6, <1>8 DEF IndInv, CommandTypes, LockType

\* A participant joins while there is no run and so no final answer.
LEMMA JoinInv ==
  ASSUME IndInv, NEW p \in Participants, Join(p)
  PROVE  IndInv'
<1>1. /\ joined' = joined \cup {p} /\ session.status = "waiting"
      /\ UNCHANGED <<clock, session, runs, attempts, finals, commands,
                     session_lock, work, call, answer>>
  BY DEF Join, procs
<1>2. DOMAIN runs = {}
  BY <1>1 DEF IndInv, RowsInv, StateTypes, Linked
<1>3. StateTypes' /\ Linked' /\ FinalRunsAreOver' /\ FinalsOfRuns'
  BY <1>1 DEF IndInv, RowsInv, StateTypes, Linked, FinalRunsAreOver, FinalsOfRuns,
              Finalized
<1>4. FinalsReflectTimelyAttempts'
  BY <1>1, <1>2 DEF FinalsReflectTimelyAttempts
<1>5. WorkInv' /\ CallInv' /\ AnswerInv'
  BY <1>1, OthersKept DEF IndInv
<1> QED
  BY <1>1, <1>3, <1>4, <1>5 DEF IndInv, RowsInv, CommandTypes, LockType

\* Locks are taken by those they belong to.
LEMMA LockTypes ==
  ASSUME LockType, NEW who \in Workers \cup CommandCalls,
         \/ LockSession(who)
         \/ UnlockSession(who)
         \/ session_lock' = session_lock
         \/ session_lock' = ReleasedBy(who)
  PROVE  LockType'
BY DEF LockType, LockSession, UnlockSession, ReleasedBy

\* The steps of a worker before it holds the session, and its death.
LEMMA WorkerWaitsInv ==
  ASSUME IndInv, NEW w \in Workers,
         AdvanceRead(w) \/ AdvancePreflight(w) \/ AdvanceLock(w) \/ WorkerDies(w)
  PROVE  IndInv'
<1>1. UNCHANGED <<clock, rows, call, answer>>
  BY DEF AdvanceRead, AdvancePreflight, AdvanceLock, WorkerDies
<1>2. UNCHANGED <<clock, runs, call, answer>>
  BY <1>1 DEF rows
<1>3. work[w] \in WorkerStates /\ clock \in 0..clock /\ clock \in OptTime
  BY DEF IndInv, WorkInv, RowsInv, StateTypes, Time, OptTime
<1>4. StateTypes
  BY DEF IndInv, RowsInv
<1>5. WorkInv'
  <2>1. CASE AdvanceRead(w)
    <3> DEFINE x == [pc |-> "read", now |-> None, seen |-> Snapshot]
    <3>1. x \in WorkerStates
      BY <1>4, SnapshotTypes DEF WorkerStates, OptTime
    <3> QED
      BY <1>2, <2>1, <3>1, WorkStep DEF IndInv, AdvanceRead
  <2>2. CASE AdvancePreflight(w)
    <3> DEFINE x == [pc |-> "due", now |-> clock, seen |-> Unread]
    <3>1. x \in WorkerStates
      BY <1>3, InitialTypes DEF WorkerStates
    <3>2. work' = [work EXCEPT ![w] = x] \/ work' = [work EXCEPT ![w] = IdleWorker]
      BY <2>2 DEF AdvancePreflight
    <3>3. IdleWorker \in WorkerStates /\ IdleWorker.pc = "idle"
      BY InitialTypes DEF IdleWorker
    <3> QED
      BY <1>2, <1>3, <3>1, <3>2, <3>3, WorkStep DEF IndInv
  <2>3. CASE AdvanceLock(w) \/ WorkerDies(w)
    <3> DEFINE x == [work[w] EXCEPT !.pc = "locked"]
    <3>1. x \in WorkerStates /\ x.now = work[w].now
      BY <1>3 DEF WorkerStates
    <3>2. \/ work' = [work EXCEPT ![w] = x] /\ work[w].pc = "due"
          \/ work' = [work EXCEPT ![w] = IdleWorker]
      BY <2>3 DEF AdvanceLock, WorkerDies
    <3>3. IdleWorker \in WorkerStates /\ IdleWorker.pc = "idle"
      BY InitialTypes DEF IdleWorker
    <3>4. work[w].pc = "due" => x.now \in 0..clock
      BY <3>1 DEF IndInv, WorkInv
    <3> QED
      BY <1>2, <3>1, <3>2, <3>3, <3>4, WorkStep DEF IndInv
  <2> QED
    BY <2>1, <2>2, <2>3
<1>6. LockType'
  <2>1. \/ LockSession(w)
        \/ session_lock' = session_lock
        \/ session_lock' = ReleasedBy(w)
    BY DEF AdvanceRead, AdvancePreflight, AdvanceLock, WorkerDies
  <2> QED
    BY <2>1, LockTypes DEF IndInv
<1> QED
  BY <1>1, <1>2, <1>5, <1>6, RowsKept, OthersKept DEF IndInv

\* A worker commits with the time it took, which is one of the past.
LEMMA AdvanceCommitInv ==
  ASSUME IndInv, NEW w \in Workers, AdvanceCommit(w)
  PROVE  IndInv'
<1> DEFINE now == work[w].now
           r == session.current_run
<1>1. /\ UNCHANGED <<clock, joined, attempts, call, answer>>
      /\ work' = [work EXCEPT ![w] = IdleWorker]
      /\ UnlockSession(w)
      /\ CurrentRunUnshared
  BY DEF AdvanceCommit
<1>2. now \in 0..clock
  BY DEF AdvanceCommit, IndInv, WorkInv
<1>3. RowsInv' /\ CommandTypes' /\ RunsEvolve({r})
  <2>1. CASE AutomaticTransition(now) /\ r # 0
    BY <1>1, <1>2, <2>1, AutomaticRows DEF IndInv
  <2>2. CASE UNCHANGED <<session, runs, finals, commands>>
    <3>1. UNCHANGED <<clock, rows>>
      BY <1>1, <2>2 DEF rows
    <3> QED
      BY <2>2, <3>1, RowsKept DEF RunsEvolve
  <2> QED
    BY <2>1, <2>2 DEF AdvanceCommit, MayBeDue
<1>4. WorkInv'
  <2>1. IdleWorker \in WorkerStates /\ IdleWorker.pc = "idle"
    BY InitialTypes DEF IdleWorker
  <2> QED
    BY <1>1, <2>1, WorkStep DEF IndInv
<1>5. AnswerInv'
  <2>1. \A a \in AnswerCalls : answer[a].pc \in Sharing => answer[a].run \notin {r}
    BY <1>1 DEF CurrentRunUnshared
  <2> QED
    BY <1>1, <1>3, <2>1, AnswersWait DEF IndInv
<1>6. CallInv' /\ LockType'
  BY <1>1, OthersKept, LockTypes DEF IndInv
<1> QED
  BY <1>1, <1>3, <1>4, <1>5, <1>6 DEF IndInv

\* What a client may name is typed.
LEMMA KnownStatesTypes ==
  ASSUME CommandTypes
  PROVE  KnownStates \subseteq BasicStates
<1>1. BasicState(NewSession, NoRun) \in BasicStates
  BY InitialTypes, BasicStateType
<1> QED
  BY <1>1 DEF KnownStates, CommandTypes

\* The steps of a command that write nothing.
LEMMA CommandWaitsInv ==
  ASSUME IndInv, NEW c \in CommandCalls,
         \/ CommandArrives(c) \/ CommandLocks(c) \/ CommandRejected(c)
         \/ CommandRefused(c) \/ CommandDies(c)
  PROVE  IndInv'
<1>1. UNCHANGED <<clock, rows, work, answer>>
  BY DEF CommandArrives, CommandLocks, CommandRejected, CommandRefused, CommandDies
<1>2. UNCHANGED <<clock, runs, work, answer>>
  BY <1>1 DEF rows
<1>3. call[c] \in CallStates /\ clock \in 0..clock /\ clock \in OptTime
  BY DEF IndInv, CallInv, RowsInv, StateTypes, Time, OptTime
<1>4. StateTypes /\ None \in OptTime
  BY DEF IndInv, RowsInv, OptTime
<1>5. DoneCall \in CallStates /\ DoneCall.pc = "done"
  BY InitialTypes DEF DoneCall, IdleCall
<1>6. CallInv'
  <2>1. CASE CommandArrives(c)
    <3>1. PICK known \in KnownStates :
            call' = [call EXCEPT ![c] =
                       [pc |-> "waiting",
                        facts |-> [kind |-> KindOf(c),
                                   state_revision |-> known.state_revision,
                                   phase |-> known.phase,
                                   question_run_id |-> known.question_run_id,
                                   boundary |-> None],
                        now |-> None,
                        seen |-> [current_run |-> session.current_run,
                                  run |-> CurrentRun]]]
      BY <2>1 DEF CommandArrives
    <3> DEFINE facts == [kind |-> KindOf(c),
                         state_revision |-> known.state_revision,
                         phase |-> known.phase,
                         question_run_id |-> known.question_run_id,
                         boundary |-> None]
               seen == [current_run |-> session.current_run, run |-> CurrentRun]
               x == [pc |-> "waiting", facts |-> facts, now |-> None, seen |-> seen]
    <3>2. known \in BasicStates
      BY KnownStatesTypes DEF IndInv
    <3>3. facts \in FactRows
      BY <1>4, <3>2, RequestsAssumption DEF FactRows, BasicStates
    <3>4. seen \in SeenRuns
      BY <1>4, SnapshotTypes
    <3> HIDE DEF facts, seen
    <3>5. x \in CallStates
      BY <1>4, <3>3, <3>4 DEF CallStates
    <3> QED
      BY <1>2, <3>1, <3>5, CallsStep DEF facts, seen, IndInv
  <2>2. CASE CommandLocks(c)
    <3> DEFINE x == [call[c] EXCEPT !.pc = "locked", !.now = clock]
               y == [call[c] EXCEPT !.pc = "refused"]
    <3>1. \/ call' = [call EXCEPT ![c] = x]
          \/ call' = [call EXCEPT ![c] = y]
          \/ call' = [call EXCEPT ![c] = DoneCall]
      BY <2>2 DEF CommandLocks, IndInv, CallInv
    <3>2. x \in CallStates /\ x.now = clock
      BY <1>3 DEF CallStates
    <3>3. y \in CallStates /\ y.pc = "refused"
      BY <1>3 DEF CallStates
    <3> HIDE DEF x, y
    <3> QED
      BY <1>2, <1>3, <1>5, <3>1, <3>2, <3>3, CallsStep DEF IndInv
  <2>3. CASE CommandRejected(c)
    <3>1. PICK seen \in SeenRuns :
            call' = [call EXCEPT ![c] =
                       [call[c] EXCEPT !.pc = "refused", !.now = None, !.seen = seen]]
      <4>1. [current_run |-> session.current_run, run |-> CurrentRun] \in SeenRuns
        BY <1>4, SnapshotTypes
      <4>2. call[c].seen \in SeenRuns /\ call \in [CommandCalls -> CallStates]
        BY <1>3 DEF CallStates, IndInv, CallInv
      <4> QED
        BY <2>3, <4>1, <4>2 DEF CommandRejected
    <3> DEFINE x == [call[c] EXCEPT !.pc = "refused", !.now = None, !.seen = seen]
    <3>2. x \in CallStates /\ x.pc = "refused"
      BY <1>3, <1>4 DEF CallStates
    <3> HIDE DEF x
    <3> QED
      BY <1>2, <3>1, <3>2, CallsStep DEF x, IndInv
  <2>4. CASE CommandRefused(c) \/ CommandDies(c)
    <3>1. call' = [call EXCEPT ![c] = DoneCall]
      BY <2>4 DEF CommandRefused, CommandDies
    <3> QED
      BY <1>2, <1>5, <3>1, CallsStep DEF IndInv
  <2> QED
    BY <2>1, <2>2, <2>3, <2>4
<1>7. LockType'
  <2>1. \/ LockSession(c)
        \/ UnlockSession(c)
        \/ session_lock' = session_lock
        \/ session_lock' = ReleasedBy(c)
    BY DEF CommandArrives, CommandLocks, CommandRejected, CommandRefused, CommandDies
  <2> QED
    BY <2>1, LockTypes DEF IndInv
<1> QED
  BY <1>1, <1>2, <1>6, <1>7, RowsKept, OthersKept DEF IndInv

\* A command of the teacher commits.
LEMMA CommandCommitsInv ==
  ASSUME IndInv, NEW c \in CommandCalls, CommandCommits(c)
  PROVE  IndInv'
<1> DEFINE kind == call[c].facts.kind
           now == call[c].now
<1>1. /\ UNCHANGED <<clock, joined, attempts, work, answer>>
      /\ call' = [call EXCEPT ![c] = DoneCall]
      /\ UnlockSession(c)
      /\ Applicable(kind, now)
      /\ ManualTransition(kind, now)
      /\ LogCommand(CommandIdOf(c), call[c].facts)
  BY DEF CommandCommits
<1>2. now \in 0..clock
  BY DEF CommandCommits, IndInv, CallInv
<1>3. RowsInv' /\ RunsEvolve({})
  BY <1>1, <1>2, ManualRows DEF IndInv
<1>4. CommandTypes'
  <2>1. CommandIdOf(c) \in CommandIdRows
    BY RequestsAssumption DEF CommandIdRows
  <2>2. call[c].facts \in FactRows
    BY DEF IndInv, CallInv, CallStates
  <2> QED
    BY <1>1, <1>3, <2>1, <2>2, LogCommandTypes DEF IndInv, RowsInv
<1>5. CallInv'
  <2>1. DoneCall \in CallStates /\ DoneCall.pc = "done"
    BY InitialTypes DEF DoneCall, IdleCall
  <2> QED
    BY <1>1, <2>1, CallsStep DEF IndInv
<1>6. AnswerInv'
  BY <1>1, <1>3, AnswersWait DEF IndInv
<1>7. WorkInv' /\ LockType'
  BY <1>1, OthersKept, LockTypes DEF IndInv
<1> QED
  BY <1>1, <1>3, <1>4, <1>5, <1>6, <1>7 DEF IndInv

\* The steps of a participant's request that store nothing.
LEMMA AnswerWaitsInv ==
  ASSUME IndInv, NEW a \in AnswerCalls,
         \/ AnswerArrives(a) \/ AnswerLocksRun(a) \/ AnswerAdmitted(a)
         \/ AnswerRechecked(a) \/ AnswerDies(a)
  PROVE  IndInv'
<1>1. UNCHANGED <<clock, rows, session_lock, work, call>>
  BY DEF AnswerArrives, AnswerLocksRun, AnswerAdmitted, AnswerRechecked, AnswerDies
<1>2. UNCHANGED <<clock, runs, work, call>>
  BY <1>1 DEF rows
<1>3. answer[a] \in AnswerStates /\ AnswerFacts(answer[a])
  BY DEF IndInv, AnswerInv
<1>4. clock \in 0..clock /\ clock \in OptTime /\ None \in OptTime
  BY DEF IndInv, RowsInv, StateTypes, Time, OptTime
<1>5. DoneAnswer \in AnswerStates /\ AnswerFacts(DoneAnswer)
  BY InitialTypes DEF DoneAnswer, NoAnswer, AnswerFacts, Sharing
<1>6. AnswerInv'
  <2>1. CASE AnswerArrives(a)
    <3>1. PICK p \in joined, s \in Submissions, ch \in Choices :
            answer' = [answer EXCEPT ![a] =
                         [pc |-> "waiting", participant |-> p, submission_id |-> s,
                          choice |-> ch, run |-> session.current_run,
                          admitted_at |-> None]]
      BY <2>1 DEF AnswerArrives
    <3> DEFINE x == [pc |-> "waiting", participant |-> p, submission_id |-> s,
                     choice |-> ch, run |-> session.current_run, admitted_at |-> None]
    <3>2. p \in Participants /\ session.current_run \in Refs
      BY DEF IndInv, RowsInv, StateTypes, SessionRow
    <3>3. session.current_run \in DOMAIN runs
      BY <2>1, CurrentRunExists DEF AnswerArrives, IndInv, RowsInv
    <3>4. x \in AnswerStates /\ AnswerFacts(x)
      BY <1>4, <3>2, <3>3 DEF AnswerStates, AnswerFacts
    <3> QED
      BY <1>2, <3>1, <3>4, AnswersStep DEF IndInv
  <2>2. CASE AnswerLocksRun(a)
    <3> DEFINE x == [answer[a] EXCEPT !.pc = "shared"]
    <3>1. answer' = [answer EXCEPT ![a] = x]
      BY <2>2 DEF AnswerLocksRun, IndInv, AnswerInv
    <3>2. x \in AnswerStates /\ AnswerFacts(x)
      BY <1>3, <2>2 DEF AnswerStates, AnswerFacts, AnswerLocksRun
    <3> QED
      BY <1>2, <3>1, <3>2, AnswersStep DEF IndInv
  <2>3. CASE AnswerAdmitted(a)
    <3> DEFINE x == [answer[a] EXCEPT !.pc = "admitted", !.admitted_at = clock]
    <3>1. answer' = [answer EXCEPT ![a] = x]
      BY <2>3 DEF AnswerAdmitted, IndInv, AnswerInv
    <3>2. x \in AnswerStates /\ x.admitted_at = clock
      BY <1>3, <1>4 DEF AnswerStates
    <3>3. answer[a].run \in DOMAIN runs
      BY <1>3, <2>3 DEF AnswerFacts, AnswerAdmitted, Sharing
    <3>4. Finalized(runs[answer[a].run])
            => runs[answer[a].run].delivery_deadline_at < clock
      BY <3>3 DEF IndInv, RowsInv, FinalRunsAreOver
    <3>5. AnswerFacts(x)
      BY <1>3, <1>4, <2>3, <3>2, <3>4
         DEF AnswerStates, AnswerFacts, AnswerAdmitted, Sharing
    <3> QED
      BY <1>2, <3>1, <3>2, <3>5, AnswersStep DEF IndInv
  <2>4. CASE AnswerRechecked(a)
    <3> DEFINE x == [answer[a] EXCEPT !.pc = "checked"]
    <3>1. answer' = [answer EXCEPT ![a] = x] \/ answer' = [answer EXCEPT ![a] = DoneAnswer]
      BY <2>4 DEF AnswerRechecked
    <3>2. x \in AnswerStates /\ AnswerFacts(x)
      BY <1>3, <2>4 DEF AnswerStates, AnswerFacts, AnswerRechecked, Sharing
    <3> QED
      BY <1>2, <1>5, <3>1, <3>2, AnswersStep DEF IndInv
  <2>5. CASE AnswerDies(a)
    BY <1>2, <1>5, <2>5, AnswersStep DEF IndInv, AnswerDies
  <2> QED
    BY <2>1, <2>2, <2>3, <2>4, <2>5
<1>7. RowsInv' /\ IsFiniteSet(attempts)' /\ CommandTypes'
  BY <1>1, RowsKept
<1>8. WorkInv' /\ CallInv' /\ LockType'
  BY <1>1, <1>2, OthersKept DEF IndInv, LockType
<1> QED
  BY <1>6, <1>7, <1>8 DEF IndInv

\* The row a press is stored as.
LEMMA NewAttemptType ==
  ASSUME IndInv, NEW a \in AnswerCalls, answer[a].pc = "checked"
  PROVE  /\ NewAttempt(a) \in AttemptRows
         /\ NewAttempt(a).run = answer[a].run
         /\ NewAttempt(a).admitted_at = answer[a].admitted_at
<1>1. AnswerFacts(answer[a])
  BY DEF IndInv, AnswerInv
<1>2. /\ answer[a].participant \in Participants
      /\ answer[a].submission_id \in Submissions
      /\ answer[a].choice \in Choices
      /\ answer[a].run \in DOMAIN runs
      /\ answer[a].admitted_at \in 0..clock
  BY <1>1 DEF AnswerFacts, Sharing
<1>3. answer[a].run \in Refs /\ answer[a].admitted_at \in Time
  BY <1>2 DEF IndInv, AnswerInv, AnswerStates, RowsInv, StateTypes, Time
<1>4. IsFiniteSet(attempts)
  BY DEF IndInv
<1>5. IsFiniteSet(AttemptsOf(answer[a].run, answer[a].participant))
  BY <1>4, FS_Subset DEF AttemptsOf
<1>6. /\ Cardinality(attempts) + 1 \in Nat
      /\ Cardinality(AttemptsOf(answer[a].run, answer[a].participant)) + 1 \in Nat
  BY <1>4, <1>5, FS_CardinalityType
<1> QED
  BY <1>2, <1>3, <1>6 DEF NewAttempt, AttemptRows

\* A press stored after its run is final is late and changes no final answer.
LEMMA AnswerStoredInv ==
  ASSUME IndInv, NEW a \in AnswerCalls, AnswerStored(a)
  PROVE  IndInv'
<1>1. /\ answer[a].pc = "checked"
      /\ answer' = [answer EXCEPT ![a] = DoneAnswer]
      /\ UNCHANGED <<clock, session, runs, joined, finals, commands, session_lock,
                     work, call>>
  BY DEF AnswerStored
<1>2. AnswerInv'
  <2>1. DoneAnswer \in AnswerStates /\ AnswerFacts(DoneAnswer)
    BY InitialTypes DEF DoneAnswer, NoAnswer, AnswerFacts, Sharing
  <2> QED
    BY <1>1, <2>1, AnswersStep DEF IndInv
<1>3. WorkInv' /\ CallInv' /\ LockType'
  BY <1>1, OthersKept DEF IndInv, LockType
<1>4. CASE attempts' = attempts
  <2>1. UNCHANGED <<clock, rows>>
    BY <1>1, <1>4 DEF rows
  <2> QED
    BY <1>2, <1>3, <2>1, RowsKept DEF IndInv
<1>5. CASE attempts' = attempts \cup {NewAttempt(a)}
  <2>1. PICK new : new = NewAttempt(a)
    OBVIOUS
  <2>2. attempts' = attempts \cup {new}
    BY <1>5, <2>1
  <2>3. /\ new \in AttemptRows
        /\ new.run = answer[a].run
        /\ new.admitted_at = answer[a].admitted_at
    BY <1>1, <2>1, NewAttemptType
  <2>4. IsFiniteSet(attempts)'
    BY <2>2, FS_AddElement DEF IndInv
  <2>5. StateTypes' /\ Linked' /\ FinalRunsAreOver' /\ FinalsOfRuns'
    BY <1>1, <2>2, <2>3 DEF IndInv, RowsInv, StateTypes, Linked, FinalRunsAreOver,
                            FinalsOfRuns
  <2>6. ASSUME NEW r \in DOMAIN runs, Finalized(runs[r]), NEW p
        PROVE  TimelyAttempts(r, p)' = TimelyAttempts(r, p)
    <3>1. CASE new.run # r
      BY <1>1, <2>2, <3>1 DEF TimelyAttempts
    <3>2. CASE new.run = r
      <4>1. runs[r].delivery_deadline_at < new.admitted_at
        BY <1>1, <2>3, <2>6, <3>2 DEF IndInv, AnswerInv, AnswerFacts
      <4>2. runs[r] \in RunRow
        BY DEF IndInv, RowsInv, StateTypes
      <4>3. runs[r].delivery_deadline_at \in Nat /\ new.admitted_at \in Nat
        BY <2>3, <4>2 DEF RunRow, AttemptRows, Time
      <4>4. ~(new.admitted_at <= runs[r].delivery_deadline_at)
        BY <4>1, <4>3
      <4> QED
        BY <1>1, <2>2, <4>4 DEF TimelyAttempts
    <3> QED
      BY <3>1, <3>2
  <2>7. FinalsReflectTimelyAttempts'
    <3>1. ASSUME NEW r \in DOMAIN runs
          PROVE  FinalsOf(r)' =
                   IF Finalized(runs'[r]) THEN {FinalAnswer(r, p)' : p \in joined'}
                   ELSE {}
      <4>1. FinalsOf(r)' = FinalsOf(r)
        BY <1>1 DEF FinalsOf
      <4> QED
        BY <1>1, <2>6, <4>1, SameFinals DEF IndInv, RowsInv
    <3> QED
      BY <1>1, <3>1 DEF FinalsReflectTimelyAttempts, FinalsOf
  <2> QED
    BY <1>1, <1>2, <1>3, <2>4, <2>5, <2>7 DEF IndInv, RowsInv, CommandTypes
<1> QED
  BY <1>4, <1>5 DEF AnswerStored
-----------------------------------------------------------------------------
\* The invariant holds of a new session.
LEMMA InitInv ==
  ASSUME Init
  PROVE  IndInv
<1>1. 0 \in Refs /\ 0 \in Time /\ Time = Nat
  BY NumbersAssumption DEF Refs, Time
<1>2. runs \in Seq(RunRow) /\ Len(runs) = 0 /\ DOMAIN runs = {}
  BY DEF Init
<1>3. StateTypes
  BY <1>1, <1>2, InitialTypes DEF Init, StateTypes
<1>4. Linked
  BY <1>2 DEF Init, Linked, NewSession
<1>5. FinalRunsAreOver /\ FinalsOfRuns /\ FinalsReflectTimelyAttempts
  BY <1>2 DEF Init, FinalRunsAreOver, FinalsOfRuns, FinalsReflectTimelyAttempts
<1>6. IsFiniteSet(attempts)
  BY FS_EmptySet DEF Init
<1>7. CommandTypes /\ LockType
  BY DEF Init, CommandTypes, LockType
<1>8. WorkInv
  BY InitialTypes DEF Init, WorkInv, IdleWorker
<1>9. CallInv
  BY InitialTypes DEF Init, CallInv, IdleCall
<1>10. AnswerInv
  BY InitialTypes DEF Init, AnswerInv, AnswerFacts, NoAnswer, Sharing
<1> QED
  BY <1>3, <1>4, <1>5, <1>6, <1>7, <1>8, <1>9, <1>10 DEF IndInv, RowsInv

\* Every step of the system, and a step that changes nothing, keeps it.
LEMMA NextInv ==
  ASSUME IndInv, [Next]_vars
  PROVE  IndInv'
<1>1. CASE Tick
  BY <1>1, TickInv
<1>2. CASE \E p \in Participants : Join(p)
  BY <1>2, JoinInv
<1>3. CASE \E w \in Workers : WorkerStep(w) \/ WorkerDies(w)
  BY <1>3, WorkerWaitsInv, AdvanceCommitInv DEF WorkerStep
<1>4. CASE \E c \in CommandCalls : CommandArrives(c) \/ CallStep(c) \/ CommandDies(c)
  BY <1>4, CommandWaitsInv, CommandCommitsInv DEF CallStep
<1>5. CASE \E a \in AnswerCalls : AnswerArrives(a) \/ AnswerStep(a) \/ AnswerDies(a)
  BY <1>5, AnswerWaitsInv, AnswerStoredInv DEF AnswerStep
<1>6. CASE Quiet \/ UNCHANGED vars
  <2>1. UNCHANGED vars
    BY <1>6 DEF Quiet
  <2>2. UNCHANGED <<clock, rows>>
    BY <2>1 DEF vars, rows
  <2>3. UNCHANGED <<clock, runs, session_lock, work, call, answer>>
    BY <2>1 DEF vars
  <2>4. RowsInv' /\ IsFiniteSet(attempts)' /\ CommandTypes'
    BY <2>2, RowsKept
  <2>5. WorkInv' /\ CallInv' /\ AnswerInv' /\ LockType'
    BY <2>3, OthersKept DEF IndInv, LockType
  <2> QED
    BY <2>4, <2>5 DEF IndInv
<1> QED
  BY <1>1, <1>2, <1>3, <1>4, <1>5, <1>6 DEF Next

\* IndInv holds in every reachable state.
THEOREM Invariance == Spec => []IndInv
<1>1. Init => IndInv
  BY InitInv
<1>2. IndInv /\ [Next]_vars => IndInv'
  BY NextInv
<1> QED
  BY <1>1, <1>2, PTL DEF Spec

\* Every variable keeps its type, whatever the numbers of questions,
\* participants, requests and workers.
THEOREM TypeCorrectness == Spec => []TypeOK
<1>1. IndInv => TypeOK
  BY DEF IndInv, RowsInv, TypeOK, WorkInv, CallInv, AnswerInv
<1> QED
  BY <1>1, Invariance, PTL

\* A finalized run has exactly the final answers its timely attempts give, also
\* after presses that were in flight when it was finalized are stored.
THEOREM FinalsAreRight == Spec => []FinalsReflectTimelyAttempts
<1>1. IndInv => FinalsReflectTimelyAttempts
  BY DEF IndInv, RowsInv
<1> QED
  BY <1>1, Invariance, PTL
-----------------------------------------------------------------------------
(* What a step of Gameplay may never do.                                   *)

\* Before its first question a session has no run.
LobbyHasNoRun == session.phase = "lobby" => session.current_run = 0

\* A press that has seen its session and not stored yet keeps the session
\* where it is, by the lock it shares on the run.
CheckedIsCurrent ==
  \A a \in AnswerCalls :
    answer[a].pc = "checked" =>
      session.status = "live" /\ session.current_run = answer[a].run

Held == LobbyHasNoRun /\ CheckedIsCurrent
-----------------------------------------------------------------------------
\* A press that has been checked names a run, so the session has one.
LEMMA CheckedRun ==
  ASSUME IndInv, Held, NEW a \in AnswerCalls, answer[a].pc = "checked"
  PROVE  /\ session.status = "live"
         /\ session.current_run = answer[a].run
         /\ session.current_run # 0
         /\ session.phase # "lobby"
         /\ ~CurrentRunUnshared
<1>1. session.status = "live" /\ session.current_run = answer[a].run
  BY DEF Held, CheckedIsCurrent
<1>2. answer[a].run \in DOMAIN runs /\ runs \in Seq(RunRow)
  BY DEF IndInv, AnswerInv, AnswerFacts, Sharing, RowsInv, StateTypes
<1>3. session.current_run # 0
  BY <1>1, <1>2
<1>4. session.phase # "lobby"
  BY <1>3 DEF Held, LobbyHasNoRun
<1>5. ~CurrentRunUnshared
  BY <1>1 DEF CurrentRunUnshared, Sharing
<1> QED
  BY <1>1, <1>3, <1>4, <1>5

\* A transition leaves the lobby or leaves the session without a run.
LEMMA TransitionsLeaveLobby ==
  ASSUME StateTypes, LobbyHasNoRun, NEW now, NEW status,
         \/ StartSession \/ StartQuestion(now) \/ EndQuestion(now) \/ Finalize(now)
         \/ StartAnswering \/ StartDelivery \/ FinishSession(now, status)
  PROVE  LobbyHasNoRun'
<1>1. session \in SessionRow
  BY DEF StateTypes
<1>2. CASE StartSession
  BY <1>1, <1>2 DEF StartSession, SaveSession, LobbyHasNoRun, SessionRow
<1>3. CASE StartQuestion(now)
  BY <1>1, <1>3 DEF StartQuestion, SaveSession, LobbyHasNoRun, SessionRow
<1>4. CASE EndQuestion(now)
  BY <1>1, <1>4 DEF EndQuestion, SaveSession, LobbyHasNoRun, SessionRow
<1>5. CASE Finalize(now)
  BY <1>1, <1>5 DEF Finalize, SaveSession, LobbyHasNoRun, SessionRow
<1>6. CASE StartAnswering \/ StartDelivery
  BY <1>1, <1>6 DEF StartAnswering, StartDelivery, SaveSession, LobbyHasNoRun, SessionRow
<1>7. CASE FinishSession(now, status)
  BY <1>1, <1>7 DEF FinishSession, SaveSession, LobbyHasNoRun, SessionRow
<1> QED
  BY <1>2, <1>3, <1>4, <1>5, <1>6, <1>7

\* A worker commits only when no press shares the current run.
LEMMA CommitHeld ==
  ASSUME IndInv, Held, NEW w \in Workers, AdvanceCommit(w)
  PROVE  Held'
<1>1. \A a \in AnswerCalls : answer[a].pc # "checked"
  BY CheckedRun DEF AdvanceCommit
<1>2. CheckedIsCurrent'
  BY <1>1 DEF AdvanceCommit, CheckedIsCurrent
<1>3. LobbyHasNoRun'
  <2>1. CASE AutomaticTransition(work[w].now)
    BY <2>1, TransitionsLeaveLobby DEF AutomaticTransition, IndInv, RowsInv, Held
  <2>2. CASE session' = session
    BY <2>2 DEF Held, LobbyHasNoRun
  <2> QED
    BY <2>1, <2>2 DEF AdvanceCommit
<1> QED
  BY <1>2, <1>3 DEF Held

\* No command commits while a press is between its check and its insertion:
\* it locks the run, or it is one for a session without a run.
LEMMA NoCommitOverChecked ==
  ASSUME IndInv, Held, NEW c \in CommandCalls, CommandCommits(c),
         NEW a \in AnswerCalls
  PROVE  answer[a].pc # "checked"
<1> DEFINE kind == call[c].facts.kind
           now == call[c].now
<1> SUFFICES ASSUME answer[a].pc = "checked" PROVE FALSE
  OBVIOUS
<1>1. session.status = "live" /\ session.phase # "lobby" /\ ~CurrentRunUnshared
  BY CheckedRun
<1>2. Applicable(kind, now) /\ (LocksRun(kind) => CurrentRunUnshared)
  BY DEF CommandCommits
<1>3. ~LocksRun(kind)
  BY <1>1, <1>2
<1>4. kind # "start_session" /\ kind # "start_quiz"
  BY <1>1, <1>2 DEF Applicable, CanStartSession, CanStartQuiz
<1> QED
  BY <1>1, <1>2, <1>3, <1>4
     DEF Applicable, LocksRun, CanEndQuestion, CanOpenNext

\* A command keeps Held.
LEMMA CommandHeld ==
  ASSUME IndInv, Held, NEW c \in CommandCalls, CommandCommits(c)
  PROVE  Held'
<1>1. CheckedIsCurrent'
  BY NoCommitOverChecked DEF CommandCommits, CheckedIsCurrent
<1>2. LobbyHasNoRun'
  BY TransitionsLeaveLobby DEF CommandCommits, ManualTransition, IndInv, RowsInv, Held
<1> QED
  BY <1>1, <1>2 DEF Held

\* A press enters the checked state only when the session is where it says.
LEMMA AnswerHeld ==
  ASSUME IndInv, Held, NEW a \in AnswerCalls,
         \/ AnswerArrives(a) \/ AnswerStep(a) \/ AnswerDies(a)
  PROVE  Held'
<1>1. session' = session
  BY DEF AnswerArrives, AnswerStep, AnswerLocksRun, AnswerAdmitted, AnswerRechecked,
         AnswerStored, AnswerDies, rows
<1>2. PICK x : /\ answer' = [answer EXCEPT ![a] = x]
               /\ x.pc = "checked" => StillCurrent(a) /\ x.run = answer[a].run
  <2>1. CASE AnswerArrives(a)
    BY <2>1 DEF AnswerArrives
  <2>2. CASE AnswerLocksRun(a)
    <3> DEFINE y == [answer[a] EXCEPT !.pc = "shared"]
    <3>1. y.pc # "checked"
      BY DEF IndInv, AnswerInv, AnswerStates
    <3>2. answer' = [answer EXCEPT ![a] = y]
      BY <2>2 DEF AnswerLocksRun, IndInv, AnswerInv
    <3> QED
      BY <3>1, <3>2
  <2>3. CASE AnswerAdmitted(a)
    <3> DEFINE y == [answer[a] EXCEPT !.pc = "admitted", !.admitted_at = clock]
    <3>1. y.pc # "checked"
      BY DEF IndInv, AnswerInv, AnswerStates
    <3>2. answer' = [answer EXCEPT ![a] = y]
      BY <2>3 DEF AnswerAdmitted, IndInv, AnswerInv
    <3> QED
      BY <3>1, <3>2
  <2>4. CASE AnswerRechecked(a)
    <3>1. DoneAnswer.pc = "done"
      BY DEF DoneAnswer, NoAnswer
    <3>2. [answer[a] EXCEPT !.pc = "checked"].run = answer[a].run
      BY DEF IndInv, AnswerInv, AnswerStates
    <3> QED
      BY <2>4, <3>1, <3>2 DEF AnswerRechecked
  <2>5. CASE AnswerStored(a) \/ AnswerDies(a)
    BY <2>5 DEF AnswerStored, AnswerDies, DoneAnswer, NoAnswer
  <2> QED
    BY <2>1, <2>2, <2>3, <2>4, <2>5 DEF AnswerStep
<1>3. \A b \in AnswerCalls : answer'[b] = IF b = a THEN x ELSE answer[b]
  BY <1>2 DEF IndInv, AnswerInv
<1>4. CheckedIsCurrent'
  BY <1>1, <1>2, <1>3 DEF Held, CheckedIsCurrent, StillCurrent
<1> QED
  BY <1>1, <1>4 DEF Held, LobbyHasNoRun

\* Every step keeps Held.
LEMMA NextHeld ==
  ASSUME IndInv, Held, [Next]_vars
  PROVE  Held'
<1>1. CASE UNCHANGED <<session, answer>>
  BY <1>1 DEF Held, LobbyHasNoRun, CheckedIsCurrent
<1>2. CASE Tick \/ Quiet \/ UNCHANGED vars
  BY <1>1, <1>2 DEF Tick, Quiet, vars, rows, procs
<1>3. CASE \E p \in Participants : Join(p)
  BY <1>1, <1>3 DEF Join, procs
<1>4. CASE \E w \in Workers : WorkerStep(w) \/ WorkerDies(w)
  BY <1>1, <1>4, CommitHeld
     DEF WorkerStep, AdvanceRead, AdvancePreflight, AdvanceLock, WorkerDies, rows
<1>5. CASE \E c \in CommandCalls : CommandArrives(c) \/ CallStep(c) \/ CommandDies(c)
  BY <1>1, <1>5, CommandHeld
     DEF CallStep, CommandArrives, CommandLocks, CommandRejected, CommandRefused,
         CommandDies, rows
<1>6. CASE \E a \in AnswerCalls : AnswerArrives(a) \/ AnswerStep(a) \/ AnswerDies(a)
  BY <1>6, AnswerHeld
<1> QED
  BY <1>2, <1>3, <1>4, <1>5, <1>6 DEF Next

\* Held holds in every reachable state.
LEMMA HeldAlways == Spec => []Held
<1>1. Init => Held
  BY DEF Init, Held, LobbyHasNoRun, CheckedIsCurrent, NewSession, NoAnswer
<1>2. IndInv /\ Held /\ [Next]_vars => Held'
  BY NextHeld
<1> QED
  BY <1>1, <1>2, Invariance, PTL DEF Spec
-----------------------------------------------------------------------------
\* Only AnswerStored adds attempts; every other step leaves them alone.
LEMMA OnlyStoredAdds ==
  ASSUME [Next]_vars
  PROVE  \/ attempts' = attempts
         \/ \E a \in AnswerCalls : AnswerStored(a)
<1>1. CASE \E w \in Workers : WorkerStep(w) \/ WorkerDies(w)
  BY <1>1 DEF WorkerStep, AdvanceRead, AdvancePreflight, AdvanceLock, AdvanceCommit,
              WorkerDies, rows
<1>2. CASE \E c \in CommandCalls : CommandArrives(c) \/ CallStep(c) \/ CommandDies(c)
  BY <1>2 DEF CallStep, CommandArrives, CommandLocks, CommandRejected, CommandRefused,
              CommandCommits, CommandDies, rows
<1>3. CASE \E a \in AnswerCalls : AnswerArrives(a) \/ AnswerStep(a) \/ AnswerDies(a)
  BY <1>3 DEF AnswerStep, AnswerArrives, AnswerLocksRun, AnswerAdmitted,
              AnswerRechecked, AnswerDies, rows
<1>4. CASE Tick \/ (\E p \in Participants : Join(p)) \/ Quiet \/ UNCHANGED vars
  BY <1>4 DEF Tick, Join, Quiet, vars, rows
<1> QED
  BY <1>1, <1>2, <1>3, <1>4 DEF Next

\* An attempt is stored only while its run is the current one of a live
\* session, though the session was looked at before the participant's lock.
THEOREM StoredInTheCurrentRun == Spec => AttemptsOnlyInCurrentRun
<1> DEFINE A == \A a \in attempts' \ attempts :
                  session.status = "live" /\ a.run = session.current_run
<1>1. IndInv /\ Held /\ [Next]_vars => A
  <2> SUFFICES ASSUME IndInv, Held, [Next]_vars PROVE A
    OBVIOUS
  <2>1. CASE attempts' = attempts
    BY <2>1
  <2>2. ASSUME NEW a \in AnswerCalls, AnswerStored(a)
        PROVE  A
    <3>1. answer[a].pc = "checked"
      BY <2>2 DEF AnswerStored
    <3>2. session.status = "live" /\ session.current_run = answer[a].run
      BY <3>1, CheckedRun
    <3>3. NewAttempt(a).run = answer[a].run
      BY DEF NewAttempt
    <3> QED
      BY <2>2, <3>2, <3>3 DEF AnswerStored
  <2> QED
    BY <2>1, <2>2, OnlyStoredAdds
<1>2. IndInv /\ Held /\ [Next]_vars => [A]_vars
  BY <1>1
<1> QED
  BY <1>2, Invariance, HeldAlways, PTL DEF Spec, AttemptsOnlyInCurrentRun

\* A finished or aborted session is never written to again: no transition
\* applies to it, nobody joins it and no press that saw it open is left.
THEOREM TerminalStaysFinal == Spec => TerminalIsFinal
<1> DEFINE A == session.status \in {"finished", "aborted"} => UNCHANGED rows
<1>1. IndInv /\ Held /\ [Next]_vars => A
  <2> SUFFICES ASSUME IndInv, Held, [Next]_vars,
                      session.status \in {"finished", "aborted"}
               PROVE  UNCHANGED rows
    OBVIOUS
  <2>1. session.status # "live" /\ session.status # "waiting" /\ session.current_run = 0
    BY DEF IndInv, RowsInv, Linked
  <2>2. CASE Tick \/ Quiet \/ UNCHANGED vars
    BY <2>2 DEF Tick, Quiet, vars, rows
  <2>3. CASE \E p \in Participants : Join(p)
    BY <2>1, <2>3 DEF Join
  <2>4. ASSUME NEW w \in Workers, WorkerStep(w) \/ WorkerDies(w)
        PROVE  UNCHANGED rows
    <3>1. CASE AdvanceCommit(w)
      BY <2>1, <3>1 DEF AdvanceCommit, MayBeDue, rows
    <3> QED
      BY <2>4, <3>1 DEF WorkerStep, AdvanceRead, AdvancePreflight, AdvanceLock, WorkerDies
  <2>5. ASSUME NEW c \in CommandCalls, CommandArrives(c) \/ CallStep(c) \/ CommandDies(c)
        PROVE  UNCHANGED rows
    <3>1. ~CommandCommits(c)
      BY <2>1 DEF CommandCommits, Applicable, CanStartSession, CanStartQuiz,
                  CanEndQuestion, CanOpenNext, CanAbort
    <3> QED
      BY <2>5, <3>1 DEF CallStep, CommandArrives, CommandLocks, CommandRejected,
                        CommandRefused, CommandDies
  <2>6. ASSUME NEW a \in AnswerCalls, AnswerArrives(a) \/ AnswerStep(a) \/ AnswerDies(a)
        PROVE  UNCHANGED rows
    <3>1. ~AnswerStored(a)
      BY <2>1, CheckedRun DEF AnswerStored
    <3> QED
      BY <2>6, <3>1 DEF AnswerStep, AnswerArrives, AnswerLocksRun, AnswerAdmitted,
                        AnswerRechecked, AnswerDies
  <2> QED
    BY <2>2, <2>3, <2>4, <2>5, <2>6 DEF Next
<1>2. IndInv /\ Held /\ [Next]_vars => [A]_vars
  BY <1>1
<1> QED
  BY <1>2, Invariance, HeldAlways, PTL DEF Spec, TerminalIsFinal
-----------------------------------------------------------------------------
(***************************************************************************)
(* Gameplay implements the game of QuizGame.  Transitions are steps of the *)
(* game one by one; a press that is stored counts or changes nothing that  *)
(* a player can see.                                                       *)
(***************************************************************************)

\* Status, phase and current run belong together.
PhasesFit ==
  /\ session.status = "waiting" => session.phase = "lobby"
  /\ session.status = "live" => session.phase # "final"
  /\ session.status \in {"finished", "aborted"} => session.phase = "final"
  /\ session.status = "live" /\ session.current_run = 0 => session.phase = "lobby"
  /\ OneOpenRun
  /\ session.phase \in {"reading", "answering"} =>
       CurrentRun.delivery_deadline_at =
         CurrentRun.planned_answer_deadline_at + DeliveryWindow

\* Attempts belong to runs that exist and to people who joined, and their
\* identifiers tell them apart.
AttemptsFit ==
  /\ \A a \in attempts : /\ a.run \in DOMAIN runs
                         /\ a.session_participant \in joined
                         /\ a.id \in 1..Cardinality(attempts)
  /\ \A a, b \in attempts : a.id = b.id => a = b

Until(r, p, t) ==
  {a \in attempts : a.run = r /\ a.session_participant = p /\ a.admitted_at <= t}

IsLast(a, S) == \A b \in S \ {a} : Precedes(b, a)

\* Among the attempts until any time one is the last: what the induction over the
\* presses that are stored gives, as each of them comes before or after it.
LastExists ==
  \A r \in Nat, p \in Participants, t \in Nat :
    Until(r, p, t) # {} => \E a \in Until(r, p, t) : IsLast(a, Until(r, p, t))

\* A press under way is one of a player, on a question that is open to presses.
PressesFit ==
  \A a \in AnswerCalls : answer[a].pc \in Sharing \cup {"waiting"} =>
    /\ answer[a].participant \in joined
    /\ answer[a].run = session.current_run => session.phase # "reading"

GameInv == PhasesFit /\ AttemptsFit /\ LastExists /\ PressesFit
-----------------------------------------------------------------------------
(* The transitions, with what is known when one is committed.              *)

MayOpen ==
  /\ session.status = "live" /\ session.phase \in {"lobby", "results"}
  /\ HasNextQuestion(session)

MayEnd(status) ==
  \/ status = "aborted" /\ session.status \in {"waiting", "live"}
  \/ /\ status = "finished" /\ session.status = "live"
     /\ session.phase = "results" /\ ~HasNextQuestion(session)

Transition(now) ==
  \/ CanStartSession /\ StartSession
  \/ MayOpen /\ StartQuestion(now)
  \/ \E status \in {"finished", "aborted"} : MayEnd(status) /\ FinishSession(now, status)
  \/ session.current_run # 0 /\ FinalizeDue(CurrentRun, now) /\ Finalize(now)
  \/ session.current_run # 0 /\ session.phase = "reading" /\ StartAnswering
  \/ session.current_run # 0 /\ session.phase = "answering" /\ StartDelivery
  \/ CanEndQuestion(now) /\ EndQuestion(now)

\* What a worker commits is a transition, or nothing when it is late.
LEMMA WorkersTransition ==
  ASSUME IndInv, NEW w \in Workers, AdvanceCommit(w)
  PROVE  /\ UNCHANGED <<joined, attempts, answer>>
         /\ \/ UNCHANGED <<session, runs, finals>>
            \/ \E now \in 0..clock : Transition(now)
<1>1. UNCHANGED <<joined, attempts, answer>> /\ work[w].now \in 0..clock
  BY DEF AdvanceCommit, IndInv, WorkInv
<1>2. CASE ~MayBeDue(session, CurrentRun, work[w].now)
  BY <1>1, <1>2 DEF AdvanceCommit
<1>3. CASE MayBeDue(session, CurrentRun, work[w].now)
  <2>1. session.current_run # 0 /\ AutomaticTransition(work[w].now)
    BY <1>3 DEF AdvanceCommit, MayBeDue
  <2>2. session.status = "live"
    BY <2>1, CurrentRunExists DEF IndInv, RowsInv
  <2>3. Transition(work[w].now)
    BY <2>1, <2>2 DEF AutomaticTransition, Transition, MayOpen, MayEnd, ReadingOver,
       AnsweringOver, ResultsOver
  <2> QED
    BY <1>1, <2>3
<1> QED
  BY <1>2, <1>3

\* What a command commits is a transition.
LEMMA CommandsTransition ==
  ASSUME IndInv, NEW c \in CommandCalls, CommandCommits(c)
  PROVE  /\ UNCHANGED <<joined, attempts, answer>>
         /\ \E now \in 0..clock : Transition(now)
<1>1. UNCHANGED <<joined, attempts, answer>> /\ call[c].now \in 0..clock
  BY DEF CommandCommits, IndInv, CallInv
<1>2. Transition(call[c].now)
  BY DEF CommandCommits, Applicable, ManualTransition, Transition, MayOpen, MayEnd,
     CanStartQuiz, CanOpenNext, CanAbort
<1> QED
  BY <1>1, <1>2
-----------------------------------------------------------------------------
(* What each transition does to the session and its runs.                  *)

\* A question that opens has a run of its own, planned in full.
LEMMA OpenEffect ==
  ASSUME RowsInv, NEW now \in Time, MayOpen, StartQuestion(now)
  PROVE  /\ session'.status = "live" /\ session'.phase = "reading"
         /\ session'.current_run = Len(runs) + 1
         /\ session'.current_question = Len(runs) + 1
         /\ Len(runs) + 1 <= NumQuestions
         /\ Len(runs') = Len(runs) + 1
         /\ DOMAIN runs' = DOMAIN runs \cup {Len(runs) + 1}
         /\ \A r \in DOMAIN runs : runs'[r] = runs[r]
         /\ runs'[Len(runs) + 1].question = Len(runs) + 1
         /\ ~Finalized(runs'[Len(runs) + 1])
         /\ runs'[Len(runs) + 1].delivery_deadline_at =
              runs'[Len(runs) + 1].planned_answer_deadline_at + DeliveryWindow
         /\ finals' = finals
<1>0. PICK n : n = Len(runs) + 1
  OBVIOUS
<1> DEFINE ends == now + ReadingTime + AnswerTime
           run == [question |-> n,
                   reading_ends_at |-> now + ReadingTime,
                   answering_started_at |-> now + ReadingTime,
                   planned_answer_deadline_at |-> ends,
                   answer_deadline_at |-> ends,
                   delivery_deadline_at |-> ends + DeliveryWindow,
                   finalized_at |-> None,
                   results_ends_at |-> None]
           new == [session EXCEPT !.current_question = n,
                                  !.current_run = n,
                                  !.revealed_question_id = 0,
                                  !.phase = "reading",
                                  !.phase_started_at = now]
<1>1. session \in SessionRow /\ runs \in Seq(RunRow) /\ Len(runs) \in Nat
  BY DEF RowsInv, StateTypes
<1>2. session.current_question = Len(runs) /\ n <= NumQuestions
  BY <1>0, <1>1, NumbersAssumption DEF RowsInv, Linked, MayOpen, HasNextQuestion
<1>3. runs' = Append(runs, run) /\ SaveSession(new) /\ finals' = finals
  BY <1>0, <1>2 DEF StartQuestion
<1>4. /\ new.status = "live" /\ new.phase = "reading"
      /\ new.current_run = n /\ new.current_question = n /\ new \in SessionRow
  <2>1. n \in Refs /\ 0 \in Refs /\ "reading" \in Phases /\ session.status \in Statuses
    BY <1>0, <1>1, <1>2, NumbersAssumption DEF Refs, Phases, SessionRow
  <2>2. new \in SessionRow
    BY <1>1, <2>1, SessionFields
  <2> QED
    BY <1>1, <2>2 DEF SessionRow, MayOpen
<1>5. /\ run.question = n /\ ~Finalized(run)
      /\ run.delivery_deadline_at = run.planned_answer_deadline_at + DeliveryWindow
  BY DEF Finalized
<1> HIDE DEF run, new
<1>6. /\ Len(runs') = n /\ DOMAIN runs' = DOMAIN runs \cup {n} /\ runs'[n] = run
      /\ \A r \in DOMAIN runs : runs'[r] = runs[r]
  BY <1>0, <1>1, <1>3
<1>7. /\ session'.status = "live" /\ session'.phase = "reading"
      /\ session'.current_run = n /\ session'.current_question = n
  BY <1>3, <1>4, SaveSessionType
<1> QED
  BY <1>0, <1>2, <1>3, <1>5, <1>6, <1>7

\* The two transitions that write into a run leave its question and the other runs.
Rewritten(i) ==
  /\ i \in DOMAIN runs /\ CurrentRun = runs[i]
  /\ Len(runs') = Len(runs) /\ DOMAIN runs' = DOMAIN runs
  /\ runs'[i].question = runs[i].question
  /\ \A r \in DOMAIN runs \ {i} : runs'[r] = runs[r]
  /\ session'.status = session.status /\ session'.current_run = i
  /\ session'.current_question = session.current_question

\* An early end shortens the current run only.
LEMMA CloseEffect ==
  ASSUME RowsInv, NEW now \in Time, CanEndQuestion(now), EndQuestion(now),
         NEW i, i = session.current_run
  PROVE  /\ Rewritten(i) /\ session'.phase = "delivery"
         /\ ~Finalized(runs'[i])
         /\ runs'[i].delivery_deadline_at = now + DeliveryWindow
         /\ finals' = finals
<1> DEFINE row == [runs[i] EXCEPT !.answer_deadline_at = now,
                                  !.delivery_deadline_at = now + DeliveryWindow]
           new == [session EXCEPT !.phase = "delivery", !.phase_started_at = now]
<1>1. session \in SessionRow /\ runs \in Seq(RunRow)
  BY DEF RowsInv, StateTypes
<1>2. /\ i \in DOMAIN runs /\ CurrentRun = runs[i] /\ runs[i] \in RunRow
      /\ ~Finalized(runs[i])
  BY CurrentRunExists DEF RowsInv, CanEndQuestion
<1>3. now + DeliveryWindow \in Time
  BY NumbersAssumption DEF Time
<1>4. /\ row \in RunRow /\ row.finalized_at = runs[i].finalized_at
      /\ row.question = runs[i].question
      /\ row.delivery_deadline_at = now + DeliveryWindow
  BY <1>2, <1>3 DEF RunRow
<1>5. runs' = [runs EXCEPT ![i] = row] /\ SaveSession(new) /\ finals' = finals
  BY <1>1, <1>2 DEF EndQuestion
<1>6. /\ new \in SessionRow /\ new.status = session.status /\ new.current_run = i
      /\ new.current_question = session.current_question /\ new.phase = "delivery"
  BY <1>1 DEF SessionRow, Phases
<1> HIDE DEF row, new
<1>7. /\ Len(runs') = Len(runs) /\ DOMAIN runs' = DOMAIN runs /\ runs'[i] = row
      /\ \A r \in DOMAIN runs \ {i} : runs'[r] = runs[r]
  BY <1>1, <1>2, <1>4, <1>5, ReplacedRun
<1>8. /\ session'.status = session.status /\ session'.current_run = i
      /\ session'.current_question = session.current_question
      /\ session'.phase = "delivery"
  BY <1>5, <1>6, SaveSessionType
<1> QED
  BY <1>2, <1>4, <1>5, <1>7, <1>8 DEF Rewritten, Finalized

\* Results finalize the current run and keep its deadlines.
LEMMA RevealEffect ==
  ASSUME RowsInv, NEW now \in 0..clock, FinalizeDue(CurrentRun, now), Finalize(now),
         NEW i, i = session.current_run, i # 0
  PROVE  /\ Rewritten(i) /\ session'.phase = "results"
         /\ Finalized(runs'[i]) /\ ~Finalized(runs[i])
         /\ runs'[i].delivery_deadline_at = runs[i].delivery_deadline_at
         /\ finals' = finals \cup {FinalAnswer(i, p) : p \in joined}
<1> DEFINE row == [runs[i] EXCEPT !.finalized_at = now,
                                  !.results_ends_at = now + ResultsTime]
           new == [session EXCEPT !.phase = "results",
                                  !.revealed_question_id = runs[i].question,
                                  !.phase_started_at = now]
<1>1. session \in SessionRow /\ runs \in Seq(RunRow) /\ clock \in Nat
  BY DEF RowsInv, StateTypes, Time
<1>2. /\ i \in DOMAIN runs /\ CurrentRun = runs[i] /\ runs[i] \in RunRow
      /\ ~Finalized(runs[i])
  BY CurrentRunExists DEF RowsInv, FinalizeDue
<1>3. now \in Time /\ now \in OptTime /\ now + ResultsTime \in OptTime
  BY <1>1, NumbersAssumption DEF Time, OptTime
<1>4. /\ row \in RunRow /\ row.finalized_at = now
      /\ row.question = runs[i].question
      /\ row.delivery_deadline_at = runs[i].delivery_deadline_at
  BY <1>2, <1>3 DEF RunRow
<1>5. /\ runs' = [runs EXCEPT ![i] = row] /\ SaveSession(new)
      /\ finals' = finals \cup {FinalAnswer(i, p) : p \in joined}
  BY <1>1, <1>2 DEF Finalize
<1>6. /\ new \in SessionRow /\ new.status = session.status /\ new.current_run = i
      /\ new.current_question = session.current_question /\ new.phase = "results"
  <2>1. runs[i].question \in Refs /\ "results" \in Phases
    BY <1>2 DEF RunRow, Phases
  <2> QED
    BY <1>1, <1>3, <2>1 DEF SessionRow
<1> HIDE DEF row, new
<1>7. /\ Len(runs') = Len(runs) /\ DOMAIN runs' = DOMAIN runs /\ runs'[i] = row
      /\ \A r \in DOMAIN runs \ {i} : runs'[r] = runs[r]
  BY <1>1, <1>2, <1>4, <1>5, ReplacedRun
<1>8. /\ session'.status = session.status /\ session'.current_run = i
      /\ session'.current_question = session.current_question
      /\ session'.phase = "results"
  BY <1>5, <1>6, SaveSessionType
<1>9. Finalized(row)
  BY <1>1, <1>4 DEF Finalized, None
<1> QED
  BY <1>2, <1>4, <1>5, <1>7, <1>8, <1>9 DEF Rewritten

\* The others write no run.
LEMMA SessionEffect ==
  ASSUME RowsInv, NEW ph \in Phases, NEW st \in Statuses,
         \/ StartSession /\ ph = session.phase /\ st = "live"
         \/ /\ st = session.status /\ session.current_run # 0
            /\ \/ StartAnswering /\ ph = "answering"
               \/ StartDelivery /\ ph = "delivery"
  PROVE  /\ session'.status = st /\ session'.phase = ph
         /\ session'.current_run = session.current_run
         /\ session'.current_question = session.current_question
         /\ UNCHANGED <<runs, finals>>
<1>1. session \in SessionRow
  BY DEF RowsInv, StateTypes
<1>2. session.phase_started_at \in Time /\ session.phase \in Phases
  BY <1>1 DEF SessionRow
<1>3. session.current_run # 0 =>
        CurrentRun.answering_started_at \in Time /\ CurrentRun.answer_deadline_at \in Time
  BY CurrentRunExists DEF RowsInv, RunRow
<1>4. PICK new \in SessionRow :
        /\ SaveSession(new) /\ new.status = st /\ new.phase = ph
        /\ new.current_run = session.current_run
        /\ new.current_question = session.current_question
  <2>1. CASE StartSession /\ ph = session.phase /\ st = "live"
    <3> DEFINE new == [session EXCEPT !.status = "live"]
    <3>1. /\ new \in SessionRow /\ new.status = st /\ new.phase = ph
          /\ new.current_run = session.current_run
          /\ new.current_question = session.current_question
      BY <1>1, <2>1 DEF SessionRow
    <3> QED
      BY <2>1, <3>1 DEF StartSession
  <2>2. ASSUME NEW t \in Time, st = session.status,
               SaveSession([session EXCEPT !.phase = ph, !.phase_started_at = t])
        PROVE  \E new \in SessionRow :
                 /\ SaveSession(new) /\ new.status = st /\ new.phase = ph
                 /\ new.current_run = session.current_run
                 /\ new.current_question = session.current_question
    <3> DEFINE new == [session EXCEPT !.phase = ph, !.phase_started_at = t]
    <3>1. /\ new \in SessionRow /\ new.status = st /\ new.phase = ph
          /\ new.current_run = session.current_run
          /\ new.current_question = session.current_question
      BY <1>1, <2>2 DEF SessionRow
    <3> QED
      BY <2>2, <3>1
  <2> QED
    BY <1>3, <2>1, <2>2 DEF StartAnswering, StartDelivery
<1>5. UNCHANGED <<runs, finals>>
  BY DEF StartSession, StartAnswering, StartDelivery
<1> QED
  BY <1>4, <1>5, SaveSessionType

\* The end of a session writes no run.
LEMMA EndEffect ==
  ASSUME RowsInv, NEW now \in Time, NEW st \in {"finished", "aborted"},
         FinishSession(now, st)
  PROVE  /\ session'.status = st /\ session'.phase = "final"
         /\ session'.current_run = 0 /\ session'.current_question = 0
         /\ UNCHANGED <<runs, finals>>
<1> DEFINE new == [session EXCEPT !.status = st, !.phase = "final",
                                  !.current_question = 0, !.current_run = 0,
                                  !.revealed_question_id = 0,
                                  !.phase_started_at = now]
<1>1. session \in SessionRow /\ 0 \in Refs /\ "final" \in Phases /\ st \in Statuses
  BY NumbersAssumption DEF RowsInv, StateTypes, Refs, Phases, Statuses
<1>2. new \in SessionRow
  BY <1>1, SessionFields
<1>3. /\ new.status = st /\ new.phase = "final"
      /\ new.current_run = 0 /\ new.current_question = 0
  BY <1>1 DEF SessionRow
<1>4. SaveSession(new) /\ UNCHANGED <<runs, finals>>
  BY DEF FinishSession
<1> HIDE DEF new
<1> QED
  BY <1>2, <1>3, <1>4, SaveSessionType
-----------------------------------------------------------------------------
(* Each transition keeps PhasesFit.                                        *)

\* A question opens only over questions that are all final.
LEMMA OpenPhases ==
  ASSUME IndInv, Held, PhasesFit, NEW now \in Time, MayOpen, StartQuestion(now)
  PROVE  PhasesFit'
<1>0. PICK n : n = Len(runs) + 1
  OBVIOUS
<1>1. runs \in Seq(RunRow) /\ Len(runs) \in Nat /\ DOMAIN runs = 1..Len(runs)
      /\ session.status = "live" /\ session.current_run = Len(runs)
  BY DEF IndInv, RowsInv, StateTypes, Linked, MayOpen
<1>2. \A r \in DOMAIN runs : Finalized(runs[r]) /\ runs[r].question = r
  <2>1. CASE session.phase = "lobby"
    BY <1>1, <2>1 DEF Held, LobbyHasNoRun
  <2>2. CASE session.phase = "results"
    <3>1. CurrentRun = runs[Len(runs)] /\ Finalized(CurrentRun)
      BY <1>1, <2>2, CurrentRunExists DEF PhasesFit, OneOpenRun, IndInv, RowsInv
    <3> QED
      BY <1>1, <3>1 DEF PhasesFit, OneOpenRun
  <2> QED
    BY <2>1, <2>2 DEF MayOpen
<1>3. /\ session'.status = "live" /\ session'.phase = "reading"
      /\ session'.current_run = n /\ session'.current_question = n
      /\ n <= NumQuestions /\ Len(runs') = n /\ DOMAIN runs' = DOMAIN runs \cup {n}
      /\ \A r \in DOMAIN runs : runs'[r] = runs[r]
      /\ runs'[n].question = n /\ ~Finalized(runs'[n])
      /\ runs'[n].delivery_deadline_at =
           runs'[n].planned_answer_deadline_at + DeliveryWindow
  BY <1>0, OpenEffect DEF IndInv, RowsInv
<1>4. CurrentRun' = runs'[n]
  BY <1>3 DEF CurrentRun, RunOf
<1>5. \A r \in DOMAIN runs' : /\ runs'[r].question = r
                              /\ r < Len(runs') => Finalized(runs'[r])
  BY <1>1, <1>2, <1>3
<1>6. OneOpenRun'
  BY <1>0, <1>1, <1>3, <1>4, <1>5 DEF OneOpenRun
<1> QED
  BY <1>0, <1>1, <1>3, <1>4, <1>6 DEF PhasesFit

\* Early ends and results.
LEMMA RewrittenPhases ==
  ASSUME IndInv, PhasesFit, NEW i, Rewritten(i), i = session.current_run,
         session'.phase \in {"delivery", "results"},
         session'.phase = "results" <=> Finalized(runs'[i])
  PROVE  PhasesFit'
<1>1. /\ runs \in Seq(RunRow) /\ Len(runs) \in Nat /\ DOMAIN runs = 1..Len(runs)
      /\ i \in DOMAIN runs
  BY DEF IndInv, RowsInv, StateTypes, Rewritten
<1>2. i = Len(runs) /\ session.status = "live" /\ i # 0
  BY <1>1, CurrentRunExists DEF IndInv, RowsInv
<1>3. CurrentRun' = runs'[i] /\ session'.status = "live"
  BY <1>2 DEF CurrentRun, RunOf, Rewritten
<1>4. \A r \in DOMAIN runs' : /\ runs'[r].question = r
                              /\ r < Len(runs') => Finalized(runs'[r])
  BY <1>1, <1>2 DEF Rewritten, PhasesFit, OneOpenRun
<1>5. OneOpenRun'
  BY <1>1, <1>2, <1>3, <1>4 DEF Rewritten, PhasesFit, OneOpenRun
<1> QED
  BY <1>2, <1>3, <1>5 DEF PhasesFit, Rewritten

\* Transitions that only move the session along.
LEMMA SessionPhases ==
  ASSUME IndInv, PhasesFit, UNCHANGED runs,
         NEW ph, session'.phase = ph, session'.current_run = session.current_run,
         session'.current_question = session.current_question,
         \/ session.status = "waiting" /\ session'.status = "live" /\ ph = session.phase
         \/ /\ session'.status = "live" /\ session.current_run # 0
            /\ \/ session.phase = "reading" /\ ph = "answering"
               \/ session.phase = "answering" /\ ph = "delivery"
  PROVE  PhasesFit'
<1>1. CurrentRun' = CurrentRun
  BY DEF CurrentRun, RunOf
<1>2. OneOpenRun'
  BY <1>1 DEF PhasesFit, OneOpenRun
<1> QED
  BY <1>1, <1>2 DEF PhasesFit

\* A session finishes only over questions that are all final.
LEMMA EndPhases ==
  ASSUME IndInv, PhasesFit, UNCHANGED runs, NEW st \in {"finished", "aborted"}, MayEnd(st),
         session'.status = st, session'.phase = "final",
         session'.current_run = 0, session'.current_question = 0
  PROVE  PhasesFit'
<1>1. Len(runs) \in Nat /\ DOMAIN runs = 1..Len(runs)
  BY DEF IndInv, RowsInv, StateTypes
<1>2. st = "finished" => Len(runs) = NumQuestions /\ \A r \in DOMAIN runs : Finalized(runs[r])
  <2>1. SUFFICES ASSUME st = "finished"
                 PROVE  Len(runs) = NumQuestions /\ \A r \in DOMAIN runs : Finalized(runs[r])
    OBVIOUS
  <2>2. session.current_run # 0 /\ Finalized(CurrentRun) /\ ~HasNextQuestion(session)
    BY <2>1 DEF MayEnd, PhasesFit, OneOpenRun
  <2>3. /\ session.current_question = Len(runs)
        /\ CurrentRun = runs[Len(runs)]
    BY <2>2, CurrentRunExists DEF IndInv, RowsInv
  <2>4. Len(runs) <= NumQuestions /\ ~(Len(runs) < NumQuestions)
    BY <2>2, <2>3 DEF HasNextQuestion, PhasesFit, OneOpenRun
  <2>5. \A r \in DOMAIN runs : Finalized(runs[r])
    BY <1>1, <2>2, <2>3 DEF PhasesFit, OneOpenRun
  <2>6. Len(runs) = NumQuestions
    <3>1. Len(runs) \in Nat /\ NumQuestions \in Nat
      BY <1>1, NumbersAssumption
    <3> QED
      BY <2>4, <3>1
  <2> QED
    BY <2>5, <2>6
<1>3. OneOpenRun'
  BY <1>1, <1>2 DEF PhasesFit, OneOpenRun
<1> QED
  BY <1>3 DEF PhasesFit

\* Every transition.
LEMMA TransitionPhases ==
  ASSUME IndInv, Held, PhasesFit, NEW now \in 0..clock, Transition(now)
  PROVE  PhasesFit'
<1>1. now \in Time /\ session.status \in Statuses /\ session.phase \in Phases
  BY DEF IndInv, RowsInv, StateTypes, SessionRow, Time
<1>2. CASE CanStartSession /\ StartSession
  BY <1>1, <1>2, SessionEffect, SessionPhases DEF CanStartSession, Statuses, IndInv
<1>3. CASE MayOpen /\ StartQuestion(now)
  BY <1>1, <1>3, OpenPhases
<1>4. CASE \E status \in {"finished", "aborted"} : MayEnd(status) /\ FinishSession(now, status)
  BY <1>1, <1>4, EndEffect, EndPhases DEF IndInv
<1>5. CASE session.current_run # 0 /\ FinalizeDue(CurrentRun, now) /\ Finalize(now)
  BY <1>5, RevealEffect, RewrittenPhases DEF IndInv
<1>6. CASE session.current_run # 0 /\ session.phase = "reading" /\ StartAnswering
  <2>1. session.status = "live" /\ "answering" \in Phases
    BY <1>6, CurrentRunExists DEF IndInv, RowsInv, Phases
  <2> QED
    BY <1>1, <1>6, <2>1, SessionEffect, SessionPhases DEF IndInv
<1>7. CASE session.current_run # 0 /\ session.phase = "answering" /\ StartDelivery
  <2>1. session.status = "live" /\ "delivery" \in Phases
    BY <1>7, CurrentRunExists DEF IndInv, RowsInv, Phases
  <2> QED
    BY <1>1, <1>7, <2>1, SessionEffect, SessionPhases DEF IndInv
<1>8. CASE CanEndQuestion(now) /\ EndQuestion(now)
  BY <1>1, <1>8, CloseEffect, RewrittenPhases DEF IndInv
<1> QED
  BY <1>2, <1>3, <1>4, <1>5, <1>6, <1>7, <1>8 DEF Transition
-----------------------------------------------------------------------------
(* The presses.                                                            *)

\* Runs stay, and only the run of a question that opens is new.
LEMMA TransitionRuns ==
  ASSUME IndInv, PhasesFit, NEW now \in 0..clock, Transition(now)
  PROVE  /\ \A r \in DOMAIN runs :
              r \in DOMAIN runs' /\ runs'[r].question = runs[r].question
         /\ session'.phase = "reading" => session'.current_run \notin DOMAIN runs
<1>1. now \in Time /\ session.status \in Statuses /\ session.phase \in Phases
  BY DEF IndInv, RowsInv, StateTypes, SessionRow, Time
<1>2. CASE CanStartSession /\ StartSession
  BY <1>1, <1>2, SessionEffect DEF CanStartSession, Statuses, IndInv, PhasesFit
<1>3. CASE MayOpen /\ StartQuestion(now)
  <2>1. Len(runs) + 1 \notin DOMAIN runs
    BY DEF IndInv, RowsInv, StateTypes
  <2> QED
    BY <1>1, <1>3, <2>1, OpenEffect DEF IndInv
<1>4. CASE \E status \in {"finished", "aborted"} : MayEnd(status) /\ FinishSession(now, status)
  BY <1>1, <1>4, EndEffect DEF IndInv
<1>5. CASE session.current_run # 0 /\ FinalizeDue(CurrentRun, now) /\ Finalize(now)
  BY <1>5, RevealEffect DEF IndInv, Rewritten
<1>6. CASE session.current_run # 0 /\ session.phase = "reading" /\ StartAnswering
  BY <1>1, <1>6, SessionEffect DEF IndInv, Phases
<1>7. CASE session.current_run # 0 /\ session.phase = "answering" /\ StartDelivery
  BY <1>1, <1>7, SessionEffect DEF IndInv, Phases
<1>8. CASE CanEndQuestion(now) /\ EndQuestion(now)
  BY <1>1, <1>8, CloseEffect DEF IndInv, Rewritten
<1> QED
  BY <1>2, <1>3, <1>4, <1>5, <1>6, <1>7, <1>8 DEF Transition

\* Attempts that are not added to stay fit while runs and players are added.
LEMMA SameAttempts ==
  ASSUME AttemptsFit, LastExists, attempts' = attempts, joined \subseteq joined',
         \A r \in DOMAIN runs : r \in DOMAIN runs'
  PROVE  AttemptsFit' /\ LastExists'
<1>1. \A r, p, t : Until(r, p, t)' = Until(r, p, t)
  BY DEF Until
<1> QED
  BY <1>1 DEF AttemptsFit, LastExists, IsLast

\* What is known of a press when it is stored.
LEMMA StoredFacts ==
  ASSUME IndInv, Held, GameInv, NEW a \in AnswerCalls, AnswerStored(a)
  PROVE  LET x == NewAttempt(a) IN
         /\ x \in AttemptRows /\ x.id = Cardinality(attempts) + 1
         /\ x.run = session.current_run /\ x.run \in DOMAIN runs /\ x.run = Len(runs)
         /\ x.session_participant \in joined
         /\ \A b \in attempts : b.id < x.id
         /\ Finalized(runs[x.run]) => runs[x.run].delivery_deadline_at < x.admitted_at
         /\ session.phase \in {"answering", "delivery", "results"}
         /\ attempts' \in {attempts, attempts \cup {x}}
         /\ UNCHANGED <<clock, session, runs, joined, finals>>
<1> DEFINE x == NewAttempt(a)
<1>1. answer[a].pc = "checked" /\ answer[a].pc \in Sharing
  BY DEF AnswerStored, Sharing
<1>2. /\ x \in AttemptRows /\ x.run = answer[a].run
      /\ x.admitted_at = answer[a].admitted_at
      /\ x.id = Cardinality(attempts) + 1
      /\ x.session_participant = answer[a].participant
  BY <1>1, NewAttemptType DEF NewAttempt
<1>3. /\ session.status = "live" /\ session.current_run = x.run
      /\ session.phase # "lobby" /\ session.current_run # 0
  BY <1>1, <1>2, CheckedRun
<1>4. x.run \in DOMAIN runs /\ x.run = Len(runs)
  BY <1>3, CurrentRunExists DEF IndInv, RowsInv
<1>5. x.session_participant \in joined /\ session.phase # "reading"
  BY <1>1, <1>2, <1>3 DEF GameInv, PressesFit
<1>6. Finalized(runs[x.run]) => runs[x.run].delivery_deadline_at < x.admitted_at
  BY <1>1, <1>2 DEF IndInv, AnswerInv, AnswerFacts
<1>7. session.phase \in {"answering", "delivery", "results"}
  BY <1>3, <1>5 DEF GameInv, PhasesFit, IndInv, RowsInv, StateTypes, SessionRow, Phases
<1>8. \A b \in attempts : b.id < x.id
  BY <1>2, FS_CardinalityType DEF GameInv, AttemptsFit, IndInv
<1>9. attempts' \in {attempts, attempts \cup {x}} /\ UNCHANGED <<clock, session, runs, joined, finals>>
  BY DEF AnswerStored
<1> QED
  BY <1>2, <1>3, <1>4, <1>5, <1>6, <1>7, <1>8, <1>9

\* One more attempt, with an identifier above all others.
LEMMA OneMoreAttempt ==
  ASSUME IndInv, AttemptsFit, LastExists, NEW x \in AttemptRows,
         attempts' = attempts \cup {x}, UNCHANGED <<runs, joined>>,
         x.id = Cardinality(attempts) + 1, x.run \in DOMAIN runs,
         x.session_participant \in joined, \A b \in attempts : b.id < x.id
  PROVE  AttemptsFit' /\ LastExists'
<1>1. IsFiniteSet(attempts) /\ attempts \subseteq AttemptRows
  BY DEF IndInv, RowsInv, StateTypes
<1>2. x \notin attempts
  BY <1>1 DEF AttemptRows
<1>3. Cardinality(attempts) \in Nat /\ Cardinality(attempts') = Cardinality(attempts) + 1
  BY <1>1, <1>2, FS_AddElement, FS_CardinalityType
<1>4. \A b \in attempts' : b.id \in 1..Cardinality(attempts')
  BY <1>3 DEF AttemptsFit
<1>5. \A b, c \in attempts' : b.id = c.id => b = c
  BY <1>1 DEF AttemptsFit, AttemptRows
<1>6. AttemptsFit'
  BY <1>4, <1>5 DEF AttemptsFit
<1>7. ASSUME NEW r \in Nat, NEW p \in Participants, NEW t \in Nat, Until(r, p, t)' # {}
      PROVE  \E a \in Until(r, p, t)' : IsLast(a, Until(r, p, t)')
  <2>1. CASE Until(r, p, t)' = Until(r, p, t)
    BY <1>7, <2>1 DEF LastExists, IsLast
  <2>2. CASE Until(r, p, t)' # Until(r, p, t)
    <3>1. Until(r, p, t)' = Until(r, p, t) \cup {x}
      BY <2>2 DEF Until
    <3>2. \A b \in Until(r, p, t) : b \in AttemptRows /\ b.id < x.id
      BY <1>1 DEF Until
    <3>3. \A b \in Until(r, p, t) : Precedes(b, x) \/ Precedes(x, b)
      BY <3>2 DEF Precedes, AttemptRows, Time
    <3>4. CASE Until(r, p, t) = {}
      BY <3>1, <3>4 DEF IsLast
    <3>5. CASE Until(r, p, t) # {}
      <4>1. PICK m \in Until(r, p, t) : IsLast(m, Until(r, p, t))
        BY <3>5 DEF LastExists
      <4>2. CASE Precedes(x, m)
        BY <3>1, <4>1, <4>2 DEF IsLast
      <4>3. CASE Precedes(m, x)
        <5>1. \A b \in Until(r, p, t) : b = m \/ Precedes(b, m)
          BY <4>1 DEF IsLast
        <5>2. \A b \in Until(r, p, t) : Precedes(b, m) => Precedes(b, x)
          BY <3>2, <4>1, <4>3 DEF Precedes, AttemptRows, Time
        <5> QED
          BY <3>1, <4>3, <5>1, <5>2 DEF IsLast
      <4> QED
        BY <3>3, <4>1, <4>2, <4>3
    <3> QED
      BY <3>4, <3>5
  <2> QED
    BY <2>1, <2>2
<1>8. LastExists'
  BY <1>7 DEF LastExists
<1> QED
  BY <1>6, <1>8

\* A press under way keeps its player and its run.
LEMMA AnswerPresses ==
  ASSUME IndInv, PressesFit, NEW a \in AnswerCalls,
         AnswerArrives(a) \/ AnswerStep(a) \/ AnswerDies(a)
  PROVE  PressesFit'
<1>1. UNCHANGED <<session, joined>>
  BY DEF AnswerArrives, AnswerStep, AnswerLocksRun, AnswerAdmitted, AnswerRechecked,
         AnswerStored, AnswerDies, rows
<1> DEFINE Fits(x) == x.pc \in Sharing \cup {"waiting"} =>
             /\ x.participant \in joined
             /\ x.run = session.current_run => session.phase # "reading"
<1>2. answer[a] \in AnswerStates /\ Fits(answer[a])
  BY DEF IndInv, AnswerInv, PressesFit
<1>3. PICK x : answer' = [answer EXCEPT ![a] = x] /\ Fits(x)
  <2>1. CASE AnswerArrives(a)
    <3>1. PICK p \in joined, s \in Submissions, ch \in Choices :
            answer' = [answer EXCEPT ![a] =
                         [pc |-> "waiting", participant |-> p, submission_id |-> s,
                          choice |-> ch, run |-> session.current_run,
                          admitted_at |-> None]]
      BY <2>1 DEF AnswerArrives
    <3>2. session.phase # "reading"
      BY <2>1 DEF AnswerArrives, AnswerPhases
    <3> DEFINE y == [pc |-> "waiting", participant |-> p, submission_id |-> s,
                     choice |-> ch, run |-> session.current_run, admitted_at |-> None]
    <3>3. y.participant \in joined
      OBVIOUS
    <3> HIDE DEF y
    <3> QED
      BY <3>1, <3>2, <3>3 DEF y
  <2>2. ASSUME NEW y, y.participant = answer[a].participant, y.run = answer[a].run,
               answer[a].pc \in Sharing \cup {"waiting"}
        PROVE  Fits(y)
    BY <1>2, <2>2
  <2>3. CASE AnswerLocksRun(a)
    <3> DEFINE y == [answer[a] EXCEPT !.pc = "shared"]
    <3>1. y.participant = answer[a].participant /\ y.run = answer[a].run
      BY <1>2 DEF AnswerStates
    <3>2. answer' = [answer EXCEPT ![a] = y] /\ answer[a].pc = "waiting"
      BY <2>3 DEF AnswerLocksRun, IndInv, AnswerInv
    <3> HIDE DEF y
    <3> QED
      BY <2>2, <3>1, <3>2
  <2>4. CASE AnswerAdmitted(a)
    <3> DEFINE y == [answer[a] EXCEPT !.pc = "admitted", !.admitted_at = clock]
    <3>1. y.participant = answer[a].participant /\ y.run = answer[a].run
      BY <1>2 DEF AnswerStates
    <3>2. answer' = [answer EXCEPT ![a] = y] /\ answer[a].pc \in Sharing
      BY <2>4 DEF AnswerAdmitted, IndInv, AnswerInv, Sharing
    <3> HIDE DEF y
    <3> QED
      BY <2>2, <3>1, <3>2
  <2>5. Fits(DoneAnswer)
    BY DEF DoneAnswer, NoAnswer, Sharing
  <2>6. CASE AnswerRechecked(a)
    <3> DEFINE y == [answer[a] EXCEPT !.pc = "checked"]
    <3>1. y.participant = answer[a].participant /\ y.run = answer[a].run
      BY <1>2 DEF AnswerStates
    <3>2. answer' = [answer EXCEPT ![a] = IF StillCurrent(a) THEN y ELSE DoneAnswer]
          /\ answer[a].pc \in Sharing
      BY <2>6 DEF AnswerRechecked, Sharing
    <3> HIDE DEF y
    <3> QED
      BY <2>2, <2>5, <3>1, <3>2
  <2>7. CASE AnswerStored(a) \/ AnswerDies(a)
    BY <2>5, <2>7 DEF AnswerStored, AnswerDies
  <2> QED
    BY <2>1, <2>3, <2>4, <2>6, <2>7 DEF AnswerStep
<1>4. \A b \in AnswerCalls : answer'[b] = IF b = a THEN x ELSE answer[b]
  BY <1>3 DEF IndInv, AnswerInv
<1> QED
  BY <1>1, <1>3, <1>4 DEF PressesFit

\* A transition opens no new run to the presses under way.
LEMMA TransitionGameInv ==
  ASSUME IndInv, Held, GameInv, NEW now \in 0..clock, Transition(now),
         UNCHANGED <<joined, attempts, answer>>
  PROVE  GameInv'
<1>1. PhasesFit'
  BY TransitionPhases DEF GameInv
<1>2. /\ \A r \in DOMAIN runs : r \in DOMAIN runs'
      /\ session'.phase = "reading" => session'.current_run \notin DOMAIN runs
  BY TransitionRuns DEF GameInv
<1>3. AttemptsFit' /\ LastExists'
  BY <1>2, SameAttempts DEF GameInv
<1>4. \A a \in AnswerCalls :
        answer[a].pc \in Sharing \cup {"waiting"} => answer[a].run \in DOMAIN runs
  BY DEF IndInv, AnswerInv, AnswerFacts
<1>5. PressesFit'
  BY <1>2, <1>4 DEF GameInv, PressesFit
<1> QED
  BY <1>1, <1>3, <1>5 DEF GameInv

\* Steps that leave the rows of the game as they are.
Visible == <<session, runs, joined, attempts, finals>>

\* Every step is a transition, a new player, a press that is stored, or one that
\* changes nothing of the game.
LEMMA StepKinds ==
  ASSUME IndInv, [Next]_vars
  PROVE  \/ UNCHANGED <<Visible, answer>>
         \/ /\ UNCHANGED <<joined, attempts, answer>>
            /\ \E now \in 0..clock : Transition(now)
         \/ \E p \in Participants : Join(p)
         \/ \E a \in AnswerCalls : AnswerStored(a)
         \/ \E a \in AnswerCalls :
              /\ AnswerArrives(a) \/ AnswerStep(a) \/ AnswerDies(a)
              /\ UNCHANGED Visible
<1>1. CASE Tick \/ Quiet \/ UNCHANGED vars
  BY <1>1 DEF Tick, Quiet, vars, rows, procs, Visible
<1>2. ASSUME NEW w \in Workers, WorkerStep(w) \/ WorkerDies(w)
      PROVE  \/ UNCHANGED <<Visible, answer>>
             \/ /\ UNCHANGED <<joined, attempts, answer>>
                /\ \E now \in 0..clock : Transition(now)
  <2>1. CASE AdvanceCommit(w)
    BY <2>1, WorkersTransition DEF Visible
  <2>2. CASE ~AdvanceCommit(w)
    BY <1>2, <2>2 DEF WorkerStep, AdvanceRead, AdvancePreflight, AdvanceLock, WorkerDies,
       rows, Visible
  <2> QED
    BY <2>1, <2>2
<1>3. ASSUME NEW c \in CommandCalls, CommandArrives(c) \/ CallStep(c) \/ CommandDies(c)
      PROVE  \/ UNCHANGED <<Visible, answer>>
             \/ /\ UNCHANGED <<joined, attempts, answer>>
                /\ \E now \in 0..clock : Transition(now)
  <2>1. CASE CommandCommits(c)
    BY <2>1, CommandsTransition
  <2>2. CASE ~CommandCommits(c)
    BY <1>3, <2>2 DEF CallStep, CommandArrives, CommandLocks, CommandRejected,
       CommandRefused, CommandDies, rows, Visible
  <2> QED
    BY <2>1, <2>2
<1>4. ASSUME NEW a \in AnswerCalls, AnswerArrives(a) \/ AnswerStep(a) \/ AnswerDies(a),
             ~AnswerStored(a)
      PROVE  UNCHANGED Visible
  BY <1>4 DEF AnswerStep, AnswerArrives, AnswerLocksRun, AnswerAdmitted, AnswerRechecked,
     AnswerDies, rows, Visible
<1> QED
  BY <1>1, <1>2, <1>3, <1>4 DEF Next

\* Every step keeps GameInv.
LEMMA NextGameInv ==
  ASSUME IndInv, Held, GameInv, [Next]_vars
  PROVE  GameInv'
<1>1. ASSUME UNCHANGED Visible PROVE PhasesFit' /\ AttemptsFit' /\ LastExists'
  <2>1. PhasesFit'
    BY <1>1 DEF Visible, GameInv, PhasesFit, OneOpenRun, CurrentRun, RunOf
  <2> QED
    BY <1>1, <2>1, SameAttempts DEF Visible, GameInv
<1>2. CASE UNCHANGED <<Visible, answer>>
  BY <1>1, <1>2 DEF Visible, GameInv, PressesFit
<1>3. CASE /\ UNCHANGED <<joined, attempts, answer>>
           /\ \E now \in 0..clock : Transition(now)
  BY <1>3, TransitionGameInv
<1>4. ASSUME NEW p \in Participants, Join(p) PROVE GameInv'
  <2>1. joined \subseteq joined' /\ UNCHANGED <<session, runs, attempts, answer>>
    BY <1>4 DEF Join, procs
  <2>2. PhasesFit'
    BY <2>1 DEF GameInv, PhasesFit, OneOpenRun, CurrentRun, RunOf
  <2>3. AttemptsFit' /\ LastExists'
    BY <2>1, SameAttempts DEF GameInv
  <2>4. PressesFit'
    BY <2>1 DEF GameInv, PressesFit
  <2> QED
    BY <2>2, <2>3, <2>4 DEF GameInv
<1>5. ASSUME NEW a \in AnswerCalls, AnswerStored(a) PROVE GameInv'
  <2>1. PICK x : x = NewAttempt(a)
    OBVIOUS
  <2>2. /\ x \in AttemptRows /\ x.id = Cardinality(attempts) + 1
        /\ x.run \in DOMAIN runs /\ x.session_participant \in joined
        /\ \A b \in attempts : b.id < x.id
        /\ attempts' \in {attempts, attempts \cup {x}}
        /\ UNCHANGED <<clock, session, runs, joined, finals>>
    BY <1>5, <2>1, StoredFacts
  <2>3. PhasesFit'
    BY <2>2 DEF GameInv, PhasesFit, OneOpenRun, CurrentRun, RunOf
  <2>4. AttemptsFit' /\ LastExists'
    BY <2>2, SameAttempts, OneMoreAttempt DEF GameInv
  <2>5. PressesFit'
    BY <1>5, AnswerPresses DEF GameInv, AnswerStep
  <2> QED
    BY <2>3, <2>4, <2>5 DEF GameInv
<1>6. ASSUME NEW a \in AnswerCalls, AnswerArrives(a) \/ AnswerStep(a) \/ AnswerDies(a),
             UNCHANGED Visible
      PROVE  GameInv'
  BY <1>1, <1>6, AnswerPresses DEF GameInv
<1> QED
  BY <1>2, <1>3, <1>4, <1>5, <1>6, StepKinds
-----------------------------------------------------------------------------
(* What a player sees before and after a step.                             *)

\* The columns of a run the game looks at.
LEMMA RunTypes ==
  ASSUME IndInv, NEW r \in DOMAIN runs
  PROVE  r \in Nat /\ runs[r].delivery_deadline_at \in Nat
<1>1. runs \in Seq(RunRow)
  BY DEF IndInv, RowsInv, StateTypes
<1>2. r \in Nat /\ runs[r] \in RunRow
  BY <1>1
<1> QED
  BY <1>2 DEF RunRow, Time

\* A final answer that has a choice refers to an attempt that exists.
LEMMA FinalsRefer ==
  ASSUME IndInv, GameInv, NEW f \in finals, f.outcome # "unanswered"
  PROVE  \E a \in attempts : a.id = f.selected_attempt
<1>1. f.run \in DOMAIN runs
  BY DEF IndInv, RowsInv, FinalsOfRuns
<1>2. PICK r : r = f.run
  OBVIOUS
<1>3. PICK p \in joined : f = FinalAnswer(r, p)
  BY <1>1, <1>2 DEF IndInv, RowsInv, FinalsReflectTimelyAttempts
<1>4. PICK S : S = TimelyAttempts(r, p)
  OBVIOUS
<1>5. S # {} /\ f.selected_attempt = SelectedAttempt(S).id
  BY <1>3, <1>4 DEF FinalAnswer
<1>6. S = Until(r, p, runs[r].delivery_deadline_at)
  BY <1>4 DEF TimelyAttempts, Until
<1>7. r \in Nat /\ p \in Participants /\ runs[r].delivery_deadline_at \in Nat
  BY <1>1, <1>2, <1>3, RunTypes DEF IndInv, RowsInv, StateTypes
<1>8. PICK m \in S : IsLast(m, S)
  BY <1>5, <1>6, <1>7 DEF GameInv, LastExists
<1>9. SelectedAttempt(S) \in S
  BY <1>8 DEF SelectedAttempt, IsLast
<1>10. S \subseteq attempts
  BY <1>4 DEF TimelyAttempts
<1> QED
  BY <1>5, <1>9, <1>10

\* What was shown does not change while the final answers and attempts stay.
LEMMA SameResults ==
  ASSUME FinalsOfRuns, attempts' = attempts, finals' = finals,
         \A r \in DOMAIN runs : runs'[r].question = runs[r].question
  PROVE  Results' = Results
<1>1. \A f \in finals : runs'[f.run].question = runs[f.run].question
  BY DEF FinalsOfRuns
<1>2. \A f : ChosenIn(f)' = ChosenIn(f)
  BY DEF ChosenIn
<1> QED
  BY <1>1, <1>2 DEF Results

\* The presses that count do not change while attempts and deadlines stay.
LEMMA SameCounted ==
  ASSUME AttemptsFit, attempts' = attempts,
         \A r \in DOMAIN runs :
           runs'[r].delivery_deadline_at = runs[r].delivery_deadline_at
  PROVE  Counted' = Counted
BY DEF Counted, AttemptsFit

\* A step that writes no row of the game is a stutter of the game.
LEMMA VisibleStutters ==
  ASSUME UNCHANGED Visible
  PROVE  UNCHANGED Game!vars
<1>1. UNCHANGED <<session, runs, joined, attempts, finals>>
  BY DEF Visible
<1>2. \A f : ChosenIn(f)' = ChosenIn(f)
  BY <1>1 DEF ChosenIn
<1>3. Results' = Results /\ Counted' = Counted
  BY <1>1, <1>2 DEF Results, Counted
<1> QED
  BY <1>1, <1>3 DEF Game!vars

\* The result the game gives a player is the one FinalAnswer refers to.
LEMMA ResultIsFinalAnswer ==
  ASSUME IndInv, GameInv, NEW i, i = Len(runs), i \in DOMAIN runs,
         runs[i].question = i, NEW p \in joined
  PROVE  Game!Result(p) =
           [question |-> i, player |-> p, choice |-> ChosenIn(FinalAnswer(i, p))]
<1>1. PICK S : S = TimelyAttempts(i, p)
  OBVIOUS
<1>2. Game!Presses(p) = S
  BY <1>1 DEF Game!Presses, Counted, TimelyAttempts
<1>3. PICK f : f = FinalAnswer(i, p)
  OBVIOUS
<1>4. CASE S = {}
  <2>1. ChosenIn(f) = Null
    BY <1>1, <1>3, <1>4 DEF FinalAnswer, ChosenIn
  <2> QED
    BY <1>2, <1>3, <1>4, <2>1 DEF Game!Result
<1>5. CASE S # {}
  <2>1. S = Until(i, p, runs[i].delivery_deadline_at)
    BY <1>1 DEF TimelyAttempts, Until
  <2>2. i \in Nat /\ p \in Participants /\ runs[i].delivery_deadline_at \in Nat
    BY RunTypes DEF IndInv, RowsInv, StateTypes
  <2>3. PICK m \in S : IsLast(m, S)
    BY <1>5, <2>1, <2>2 DEF GameInv, LastExists
  <2>4. S \subseteq attempts /\ attempts \subseteq AttemptRows
    BY <1>1 DEF TimelyAttempts, IndInv, RowsInv, StateTypes
  <2>5. \A a \in S : IsLast(a, S) => a = m
    <3>1. SUFFICES ASSUME NEW a \in S, IsLast(a, S), a # m PROVE FALSE
      OBVIOUS
    <3>2. Precedes(a, m) /\ Precedes(m, a)
      BY <2>3, <3>1 DEF IsLast
    <3>3. a \in AttemptRows /\ m \in AttemptRows
      BY <2>3, <2>4, <3>1
    <3> QED
      BY <3>2, <3>3 DEF Precedes, AttemptRows, Time
  <2>6. SelectedAttempt(S) = m
    BY <2>3, <2>5 DEF SelectedAttempt, IsLast
  <2>7. \A a, b \in S : Game!Later(a, b) <=> Precedes(b, a)
    <3>1. \A a, b \in AttemptRows : Game!Later(a, b) <=> Precedes(b, a)
      BY DEF Game!Later, Precedes, AttemptRows, Time
    <3> QED
      BY <2>4, <3>1
  <2>8. (CHOOSE a \in S : \A b \in S \ {a} : Game!Later(a, b)) = m
    <3>1. \A a \in S : (\A b \in S \ {a} : Game!Later(a, b)) <=> IsLast(a, S)
      BY <2>7 DEF IsLast
    <3> QED
      BY <2>3, <2>5, <3>1
  <2>9. f.outcome = "answered" /\ f.selected_attempt = m.id
    BY <1>1, <1>3, <1>5, <2>6 DEF FinalAnswer
  <2>10. (CHOOSE a \in attempts : a.id = m.id) = m
    BY <2>3, <2>4 DEF GameInv, AttemptsFit
  <2>11. ChosenIn(f) = m.choice
    BY <2>9, <2>10 DEF ChosenIn
  <2> QED
    BY <1>2, <1>3, <1>5, <2>8, <2>11 DEF Game!Result
<1> QED
  BY <1>4, <1>5
-----------------------------------------------------------------------------
(* Each kind of step, as a step of the game.                               *)

\* A question that opens is OpenQuestion.
LEMMA OpenIsAStep ==
  ASSUME IndInv, GameInv, NEW now \in Time, MayOpen, StartQuestion(now),
         UNCHANGED <<joined, attempts>>
  PROVE  Game!Next
<1>1. /\ session'.phase = "reading" /\ Len(runs') = Len(runs) + 1
      /\ Len(runs) + 1 <= NumQuestions /\ finals' = finals
      /\ \A r \in DOMAIN runs : runs'[r] = runs[r]
  BY OpenEffect DEF IndInv
<1>2. Len(runs) \in Nat /\ NumQuestions \in Nat
  BY NumbersAssumption DEF IndInv, RowsInv, StateTypes
<1>3. Len(runs) < NumQuestions
  BY <1>1, <1>2
<1>4. Results' = Results /\ Counted' = Counted
  BY <1>1, SameResults, SameCounted DEF IndInv, RowsInv, GameInv
<1> QED
  BY <1>1, <1>3, <1>4 DEF MayOpen, Game!OpenQuestion, Game!Next

\* Results are Reveal, and show the choices of the presses that count.
LEMMA RevealIsAStep ==
  ASSUME IndInv, Held, GameInv, NEW now \in 0..clock, session.current_run # 0,
         FinalizeDue(CurrentRun, now), Finalize(now), UNCHANGED <<joined, attempts>>
  PROVE  Game!Next
<1>1. PICK i : i = session.current_run
  OBVIOUS
<1>2. /\ Rewritten(i) /\ session'.phase = "results" /\ ~Finalized(runs[i])
      /\ runs'[i].delivery_deadline_at = runs[i].delivery_deadline_at
      /\ finals' = finals \cup {FinalAnswer(i, p) : p \in joined}
  BY <1>1, RevealEffect DEF IndInv
<1>3. i \in DOMAIN runs /\ i = Len(runs) /\ session.status = "live"
  BY <1>1, CurrentRunExists DEF IndInv, RowsInv
<1>4. runs[i].question = i
  BY <1>3 DEF GameInv, PhasesFit, OneOpenRun
<1>5. /\ \A r \in DOMAIN runs : runs'[r].question = runs[r].question
      /\ \A r \in DOMAIN runs :
           runs'[r].delivery_deadline_at = runs[r].delivery_deadline_at
  BY <1>2 DEF Rewritten
<1>6. Counted' = Counted
  BY <1>5, SameCounted DEF GameInv
<1>7. session.phase \in {"reading", "answering", "delivery"}
  <2>1. session.phase \in Phases
    BY DEF IndInv, RowsInv, StateTypes, SessionRow
  <2>2. session.phase # "results" /\ session.phase # "final" /\ session.phase # "lobby"
    BY <1>1, <1>2, <1>3 DEF GameInv, PhasesFit, OneOpenRun, Rewritten, Held, LobbyHasNoRun
  <2> QED
    BY <2>1, <2>2 DEF Phases
<1> DEFINE Shown(f) == [question |-> runs[f.run].question,
                        player |-> f.session_participant, choice |-> ChosenIn(f)]
<1>8. Results = {Shown(f) : f \in finals}
  BY DEF Results
<1>9. \A p \in joined : FinalAnswer(i, p).run = i /\ FinalAnswer(i, p).session_participant = p
  BY DEF FinalAnswer
<1>10. \A p \in joined : Shown(FinalAnswer(i, p)) = Game!Result(p)
  <2>1. SUFFICES ASSUME NEW p \in joined PROVE Shown(FinalAnswer(i, p)) = Game!Result(p)
    OBVIOUS
  <2>2. Game!Result(p) =
          [question |-> i, player |-> p, choice |-> ChosenIn(FinalAnswer(i, p))]
    BY <1>3, <1>4, ResultIsFinalAnswer
  <2> QED
    BY <1>4, <1>9, <2>2
<1>11. Results' = {Shown(f) : f \in finals'}
  <2>1. \A f \in finals' : f.run \in DOMAIN runs
    BY <1>2, <1>3, <1>9 DEF IndInv, RowsInv, FinalsOfRuns
  <2>2. \A f : ChosenIn(f)' = ChosenIn(f)
    BY DEF ChosenIn
  <2>3. \A f \in finals' : runs'[f.run].question = runs[f.run].question
    BY <1>5, <2>1
  <2> QED
    BY <2>2, <2>3 DEF Results
<1> HIDE DEF Shown
<1>12. Results' = Results \cup {Game!Result(p) : p \in joined}
  <2>1. Results' = {Shown(f) : f \in finals} \cup {Shown(FinalAnswer(i, p)) : p \in joined}
    BY <1>2, <1>11
  <2>2. {Shown(FinalAnswer(i, p)) : p \in joined} = {Game!Result(p) : p \in joined}
    BY <1>10
  <2> QED
    BY <1>8, <2>1, <2>2
<1>13. Len(runs') = Len(runs)
  BY <1>2 DEF Rewritten
<1> QED
  BY <1>2, <1>6, <1>7, <1>12, <1>13 DEF Game!Reveal, Game!Next

\* An early end is Close: it takes back the latest presses only.
LEMMA EndQuestionIsAStep ==
  ASSUME IndInv, GameInv, NEW now \in Time, CanEndQuestion(now), EndQuestion(now),
         UNCHANGED <<joined, attempts>>
  PROVE  Game!Next
<1>1. PICK i : i = session.current_run
  OBVIOUS
<1>2. PICK d : d = now + DeliveryWindow
  OBVIOUS
<1>3. /\ Rewritten(i) /\ session'.phase = "delivery" /\ finals' = finals
      /\ runs'[i].delivery_deadline_at = d
  BY <1>1, <1>2, CloseEffect DEF IndInv
<1>4. i \in DOMAIN runs /\ i = Len(runs) /\ CurrentRun = runs[i] /\ runs[i] \in RunRow
  BY <1>1, CurrentRunExists DEF IndInv, RowsInv, CanEndQuestion
<1>5. d \in Nat /\ runs[i].delivery_deadline_at \in Nat
      /\ d <= runs[i].delivery_deadline_at
  <2>1. now \in Nat /\ DeliveryWindow \in Nat
        /\ runs[i].planned_answer_deadline_at \in Nat
    BY <1>4, NumbersAssumption DEF Time, RunRow
  <2>2. now < runs[i].planned_answer_deadline_at
    BY <1>4 DEF CanEndQuestion
  <2>3. runs[i].delivery_deadline_at = runs[i].planned_answer_deadline_at + DeliveryWindow
    BY <1>4 DEF GameInv, PhasesFit, CanEndQuestion
  <2> QED
    BY <1>2, <2>1, <2>2, <2>3
<1>6. \A a \in attempts : a.admitted_at \in Nat /\ a.id \in Nat /\ a.run \in DOMAIN runs
  BY DEF GameInv, AttemptsFit, IndInv, RowsInv, StateTypes, AttemptRows, Time
<1>7. \A r \in DOMAIN runs \ {i} : runs'[r] = runs[r]
  BY <1>3 DEF Rewritten
<1>8. Counted' = {a \in attempts : a.admitted_at <= runs'[a.run].delivery_deadline_at}
  BY DEF Counted
<1>9. Counted' \subseteq Counted
  <2>1. SUFFICES ASSUME NEW a \in attempts,
                        a.admitted_at <= runs'[a.run].delivery_deadline_at
                 PROVE  a.admitted_at <= runs[a.run].delivery_deadline_at
    BY <1>8 DEF Counted
  <2>2. CASE a.run = i
    BY <1>3, <1>5, <1>6, <2>1, <2>2
  <2>3. CASE a.run # i
    BY <1>6, <1>7, <2>1, <2>3
  <2> QED
    BY <2>2, <2>3
<1>10. ASSUME NEW a \in Counted \ Counted'
       PROVE  /\ a.run = Len(runs)
              /\ \A b \in Counted' : b.run = Len(runs) => Game!Later(a, b)
  <2>1. /\ a \in attempts /\ a.admitted_at <= runs[a.run].delivery_deadline_at
        /\ ~(a.admitted_at <= runs'[a.run].delivery_deadline_at)
    BY <1>8, <1>10 DEF Counted
  <2>2. a.run = i
    BY <1>6, <1>7, <2>1
  <2>3. ~(a.admitted_at <= d)
    BY <1>3, <2>1, <2>2
  <2>4. ASSUME NEW b \in Counted', b.run = i PROVE Game!Later(a, b)
    <3>1. b \in attempts /\ b.admitted_at <= d
      BY <1>3, <1>8, <2>4
    <3>2. a.admitted_at \in Nat /\ b.admitted_at \in Nat
      BY <1>6, <2>1, <3>1
    <3>3. a.admitted_at > b.admitted_at
      BY <1>5, <2>3, <3>1, <3>2
    <3> QED
      BY <3>3 DEF Game!Later
  <2> QED
    BY <1>4, <2>2, <2>4
<1>11. Results' = Results
  <2>1. \A r \in DOMAIN runs : runs'[r].question = runs[r].question
    BY <1>3 DEF Rewritten
  <2> QED
    BY <1>3, <2>1, SameResults DEF IndInv, RowsInv
<1>12. session.phase = "answering" /\ Len(runs') = Len(runs)
  BY <1>3 DEF CanEndQuestion, Rewritten
<1> QED
  BY <1>3, <1>9, <1>10, <1>11, <1>12 DEF Game!Close, Game!Next

\* Every transition is a step of the game; the start of the session is none.
LEMMA TransitionIsAStep ==
  ASSUME IndInv, Held, GameInv, NEW now \in 0..clock, Transition(now),
         UNCHANGED <<joined, attempts>>
  PROVE  Game!Next \/ UNCHANGED Game!vars
<1>1. now \in Time /\ session.status \in Statuses /\ session.phase \in Phases
  BY DEF IndInv, RowsInv, StateTypes, SessionRow, Time
<1>2. UNCHANGED <<runs, finals>> => Results' = Results /\ Counted' = Counted
  BY SameResults, SameCounted DEF IndInv, RowsInv, GameInv
<1>3. CASE CanStartSession /\ StartSession
  <2>1. session'.phase = session.phase /\ UNCHANGED <<runs, finals>>
    BY <1>1, <1>3, SessionEffect DEF Statuses, IndInv
  <2> QED
    BY <1>2, <2>1 DEF Game!vars
<1>4. CASE MayOpen /\ StartQuestion(now)
  BY <1>1, <1>4, OpenIsAStep
<1>5. CASE \E status \in {"finished", "aborted"} : MayEnd(status) /\ FinishSession(now, status)
  <2>1. session'.phase = "final" /\ UNCHANGED <<runs, finals>>
    BY <1>1, <1>5, EndEffect DEF IndInv
  <2>2. session.phase # "final"
    BY <1>5 DEF MayEnd, GameInv, PhasesFit
  <2> QED
    BY <1>2, <2>1, <2>2 DEF Game!EndGame, Game!Next
<1>6. CASE session.current_run # 0 /\ FinalizeDue(CurrentRun, now) /\ Finalize(now)
  BY <1>6, RevealIsAStep
<1>7. CASE session.current_run # 0 /\ session.phase = "reading" /\ StartAnswering
  <2>1. session'.phase = "answering" /\ UNCHANGED <<runs, finals>>
    BY <1>1, <1>7, SessionEffect DEF IndInv, Phases
  <2> QED
    BY <1>2, <1>7, <2>1 DEF Game!Answer, Game!Next
<1>8. CASE session.current_run # 0 /\ session.phase = "answering" /\ StartDelivery
  <2>1. session'.phase = "delivery" /\ UNCHANGED <<runs, finals>>
    BY <1>1, <1>8, SessionEffect DEF IndInv, Phases
  <2> QED
    BY <1>2, <1>8, <2>1 DEF Game!Close, Game!Next
<1>9. CASE CanEndQuestion(now) /\ EndQuestion(now)
  BY <1>1, <1>9, EndQuestionIsAStep
<1> QED
  BY <1>3, <1>4, <1>5, <1>6, <1>7, <1>8, <1>9 DEF Transition

\* A stored press is Press if it is timely, and no step if it is late.
LEMMA StoredIsAStep ==
  ASSUME IndInv, Held, GameInv, GameInv', NEW a \in AnswerCalls, AnswerStored(a)
  PROVE  Game!Next \/ UNCHANGED Game!vars
<1>1. PICK x : x = NewAttempt(a)
  OBVIOUS
<1>2. /\ x \in AttemptRows
      /\ x.run = session.current_run /\ x.run \in DOMAIN runs /\ x.run = Len(runs)
      /\ x.session_participant \in joined
      /\ Finalized(runs[x.run]) => runs[x.run].delivery_deadline_at < x.admitted_at
      /\ session.phase \in {"answering", "delivery", "results"}
      /\ attempts' \in {attempts, attempts \cup {x}}
      /\ UNCHANGED <<clock, session, runs, joined, finals>>
  BY <1>1, StoredFacts
<1>3. Results' = Results
  <2>1. attempts \subseteq attempts'
    BY <1>2
  <2>2. ASSUME NEW f \in finals PROVE ChosenIn(f)' = ChosenIn(f)
    <3>1. CASE f.outcome = "unanswered"
      BY <3>1 DEF ChosenIn
    <3>2. CASE f.outcome # "unanswered"
      <4>1. PICK b \in attempts : b.id = f.selected_attempt
        BY <3>2, FinalsRefer
      <4>2. (CHOOSE c \in attempts : c.id = f.selected_attempt) = b
        BY <4>1 DEF GameInv, AttemptsFit
      <4>3. (CHOOSE c \in attempts' : c.id = f.selected_attempt) = b
        BY <2>1, <4>1 DEF GameInv, AttemptsFit
      <4>4. ChosenIn(f) = b.choice
        BY <3>2, <4>2 DEF ChosenIn
      <4>5. ChosenIn(f)' = b.choice
        BY <3>2, <4>3 DEF ChosenIn
      <4> QED
        BY <4>4, <4>5
    <3> QED
      BY <3>1, <3>2
  <2> QED
    BY <1>2, <2>2 DEF Results
<1>4. CASE Counted' = Counted
  BY <1>2, <1>3, <1>4 DEF Game!vars
<1>5. CASE Counted' # Counted
  <2>1. attempts' = attempts \cup {x}
        /\ x.admitted_at <= runs[x.run].delivery_deadline_at
    BY <1>2, <1>5 DEF Counted
  <2>2. Counted' = Counted \cup {x}
    BY <1>2, <2>1 DEF Counted
  <2>3. ~Finalized(runs[x.run])
    <3>1. x.admitted_at \in Nat /\ runs[x.run].delivery_deadline_at \in Nat
      BY <1>2, RunTypes DEF AttemptRows, Time
    <3> QED
      BY <1>2, <2>1, <3>1
  <2>4. session.phase \in {"answering", "delivery"}
    <3>1. CurrentRun = runs[x.run]
      BY <1>2 DEF CurrentRun, RunOf
    <3> QED
      BY <1>2, <2>3, <3>1 DEF GameInv, PhasesFit, OneOpenRun
  <2> QED
    BY <1>2, <1>3, <2>2, <2>4 DEF Game!Press, Game!Next
<1> QED
  BY <1>4, <1>5

\* Every step of the session is one of the game or a stutter.
LEMMA NextIsAStep ==
  ASSUME IndInv, Held, GameInv, GameInv', [Next]_vars
  PROVE  [Game!Next]_(Game!vars)
<1>1. CASE UNCHANGED Visible
  BY <1>1, VisibleStutters
<1>2. CASE /\ UNCHANGED <<joined, attempts, answer>>
           /\ \E now \in 0..clock : Transition(now)
  BY <1>2, TransitionIsAStep
<1>3. ASSUME NEW p \in Participants, Join(p) PROVE Game!Next
  <2>1. /\ session.status = "waiting" /\ joined \subseteq joined'
        /\ UNCHANGED <<session, runs, attempts, finals>>
    BY <1>3 DEF Join
  <2>2. session.phase = "lobby"
    BY <2>1 DEF GameInv, PhasesFit
  <2>3. Results' = Results /\ Counted' = Counted
    BY <2>1, SameResults, SameCounted DEF IndInv, RowsInv, GameInv
  <2> QED
    BY <2>1, <2>2, <2>3 DEF Game!Join, Game!Next
<1>4. CASE \E a \in AnswerCalls : AnswerStored(a)
  BY <1>4, StoredIsAStep
<1> QED
  BY <1>1, <1>2, <1>3, <1>4, StepKinds
-----------------------------------------------------------------------------
\* GameInv holds in every reachable state.
LEMMA GameInvAlways == Spec => []GameInv
<1>1. Init => GameInv
  <2>1. SUFFICES ASSUME Init PROVE GameInv
    OBVIOUS
  <2>2. Len(runs) = 0 /\ DOMAIN runs = {} /\ NumQuestions \in Nat
    BY <2>1, NumbersAssumption DEF Init
  <2>3. PhasesFit
    BY <2>1, <2>2 DEF Init, NewSession, PhasesFit, OneOpenRun
  <2>4. AttemptsFit /\ LastExists /\ PressesFit
    BY <2>1 DEF Init, AttemptsFit, LastExists, Until, PressesFit, NoAnswer, Sharing
  <2> QED
    BY <2>3, <2>4 DEF GameInv
<1>2. IndInv /\ Held /\ GameInv /\ [Next]_vars => GameInv'
  BY NextGameInv
<1> QED
  BY <1>1, <1>2, Invariance, HeldAlways, PTL DEF Spec

\* Questions are run in order, one at a time, whoever opens and finalizes them.
THEOREM OneRunIsOpen == Spec => []OneOpenRun
<1>1. GameInv => OneOpenRun
  BY DEF GameInv, PhasesFit
<1> QED
  BY <1>1, GameInvAlways, PTL

\* Every behaviour of a session, with its workers, requests and crashes, is one of
\* the game of QuizGame.
THEOREM GameIsImplemented == Spec => ImplementsGame
<1>1. Init => Game!Init
  BY DEF Init, NewSession, Game!Init, Counted, Results
<1>2. /\ IndInv /\ Held /\ GameInv /\ GameInv' /\ [Next]_vars
      => [Game!Next]_(Game!vars)
  BY NextIsAStep
<1> QED
  BY <1>1, <1>2, Invariance, HeldAlways, GameInvAlways, PTL
     DEF Spec, ImplementsGame, Game!Spec
-----------------------------------------------------------------------------
(* The records of a session.                                                *)

\* The columns of a run at time t.
RunFits(run, t) ==
  /\ run.reading_ends_at = run.answering_started_at
  /\ run.answering_started_at <= run.answer_deadline_at
  /\ run.answer_deadline_at <= run.planned_answer_deadline_at
  /\ run.delivery_deadline_at = run.answer_deadline_at + DeliveryWindow
  /\ Finalized(run) => /\ run.delivery_deadline_at < run.finalized_at
                       /\ run.finalized_at <= t

RunTimes == \A r \in DOMAIN runs : RunFits(runs[r], clock)

\* The time a phase has on the session row is the one its run gives it, and the
\* deadlines are the planned ones until the answers are closed.
SessionFits(s, run, t) ==
  /\ s.phase_started_at <= t
  /\ s.phase = "reading" => s.phase_started_at <= run.reading_ends_at
  /\ s.phase = "answering" => s.phase_started_at = run.answering_started_at
  /\ s.phase = "delivery" => s.phase_started_at = run.answer_deadline_at
  /\ s.phase = "results" => s.phase_started_at <= run.results_ends_at
  /\ s.phase \in {"reading", "answering"} =>
       run.answer_deadline_at = run.planned_answer_deadline_at

SessionTimes == SessionFits(session, CurrentRun, clock)

\* Who works with the session row holds its lock.
LocksHeld ==
  /\ \A w \in Workers : work[w].pc = "locked" => session_lock = w
  /\ \A c \in CommandCalls :
       call[c].pc \in {"locked", "refused"} => session_lock = c

\* What a command found when its lock was granted still holds when it commits.
CommandsReady ==
  \A c \in CommandCalls :
    call[c].pc = "locked" =>
      /\ session.phase_started_at <= call[c].now
      /\ call[c].facts.state_revision = session.state_revision
      /\ Earlier(CommandIdOf(c)) = {}

\* A press under way came after the answers of its run were opened.
PressFits(x) ==
  /\ x.pc \in Sharing \cup {"waiting"} =>
       runs[x.run].answering_started_at <= clock
  /\ x.pc \in {"admitted", "checked"} =>
       runs[x.run].answering_started_at <= x.admitted_at

PressTimes == \A a \in AnswerCalls : PressFits(answer[a])

-----------------------------------------------------------------------------
(* The lock of the session row.                                            *)

\* A step of a worker that has the lock, or takes it, or has nothing to do with it.
LEMMA WorkerLocks ==
  ASSUME IndInv, LocksHeld, NEW w \in Workers, WorkerStep(w) \/ WorkerDies(w)
  PROVE  LocksHeld'
<1>1. call' = call /\ work \in [Workers -> WorkerStates] /\ w \notin CommandCalls /\ w # Null
  BY ProcessesAssumption, NullAssumption DEF IndInv, WorkInv, WorkerStep, AdvanceRead,
     AdvancePreflight, AdvanceLock, AdvanceCommit, WorkerDies
<1>2. PICK x : work' = [work EXCEPT ![w] = x]
               /\ \/ x.pc # "locked" /\ session_lock' = session_lock /\ work[w].pc # "locked"
                  \/ x.pc # "locked" /\ session_lock' = ReleasedBy(w)
                  \/ x.pc = "locked" /\ session_lock = Null /\ session_lock' = w
                  \/ x.pc # "locked" /\ session_lock = w /\ session_lock' = Null
  <2>1. IdleWorker.pc # "locked"
    BY DEF IdleWorker
  <2>2. CASE AdvanceRead(w)
    <3> DEFINE y == [pc |-> "read", now |-> None, seen |-> Snapshot]
    <3>1. y.pc # "locked"
      OBVIOUS
    <3>2. /\ work' = [work EXCEPT ![w] = y] /\ work[w].pc = "idle"
          /\ session_lock' = session_lock
      BY <2>2 DEF AdvanceRead
    <3> HIDE DEF y
    <3> QED
      BY <3>1, <3>2
  <2>3. CASE AdvancePreflight(w)
    <3> DEFINE y == IF MayBeDue(work[w].seen.session, work[w].seen.run, clock)
                    THEN [pc |-> "due", now |-> clock, seen |-> Unread]
                    ELSE IdleWorker
    <3>1. y.pc # "locked"
      BY <2>1
    <3>2. /\ work' = [work EXCEPT ![w] = y] /\ work[w].pc = "read"
          /\ session_lock' = session_lock
      BY <2>3 DEF AdvancePreflight
    <3> HIDE DEF y
    <3> QED
      BY <3>1, <3>2
  <2>4. CASE AdvanceLock(w)
    <3>1. [work[w] EXCEPT !.pc = "locked"].pc = "locked"
      BY <1>1 DEF WorkerStates
    <3>2. \/ work' = [work EXCEPT ![w] = [work[w] EXCEPT !.pc = "locked"]] /\ LockSession(w)
          \/ work' = [work EXCEPT ![w] = IdleWorker] /\ session_lock' = session_lock
      BY <1>1, <2>4 DEF AdvanceLock
    <3>3. work[w].pc = "due"
      BY <2>4 DEF AdvanceLock
    <3> QED
      BY <2>1, <3>1, <3>2, <3>3 DEF LockSession
  <2>5. CASE AdvanceCommit(w)
    BY <2>1, <2>5 DEF AdvanceCommit, UnlockSession
  <2>6. CASE WorkerDies(w)
    BY <2>1, <2>6 DEF WorkerDies
  <2> QED
    BY <2>2, <2>3, <2>4, <2>5, <2>6 DEF WorkerStep
<1>3. \A v \in Workers : work'[v] = IF v = w THEN x ELSE work[v]
  BY <1>1, <1>2
<1>4. \A v \in Workers : work'[v].pc = "locked" => session_lock' = v
  BY <1>1, <1>2, <1>3, NullAssumption DEF LocksHeld, ReleasedBy
<1>5. \A c \in CommandCalls : call'[c].pc \in {"locked", "refused"} => session_lock' = c
  BY <1>1, <1>2, NullAssumption DEF LocksHeld, ReleasedBy
<1> QED
  BY <1>4, <1>5 DEF LocksHeld

\* The same for a command.
LEMMA CommandLocksHeld ==
  ASSUME IndInv, LocksHeld, NEW c \in CommandCalls,
         CommandArrives(c) \/ CallStep(c) \/ CommandDies(c)
  PROVE  LocksHeld'
<1> DEFINE Busy == {"locked", "refused"}
<1>1. work' = work /\ call \in [CommandCalls -> CallStates] /\ c \notin Workers /\ c # Null
  BY ProcessesAssumption, NullAssumption DEF IndInv, CallInv, CallStep, CommandArrives,
     CommandLocks, CommandCommits, CommandRejected, CommandRefused, CommandDies
<1>2. PICK x : call' = [call EXCEPT ![c] = x]
               /\ \/ x.pc \notin Busy /\ session_lock' = session_lock /\ call[c].pc \notin Busy
                  \/ x.pc \notin Busy /\ session_lock' = ReleasedBy(c)
                  \/ x.pc \in Busy /\ session_lock = Null /\ session_lock' = c
                  \/ x.pc \in Busy /\ call[c].pc \in Busy /\ session_lock' = session_lock
                  \/ x.pc \notin Busy /\ session_lock = c /\ session_lock' = Null
  <2>1. DoneCall.pc \notin Busy
    BY DEF DoneCall, IdleCall
  <2>2. CASE CommandArrives(c)
    BY <2>2 DEF CommandArrives
  <2>3. CASE CommandLocks(c)
    <3>1. /\ [call[c] EXCEPT !.pc = "refused"].pc = "refused"
          /\ [call[c] EXCEPT !.pc = "locked", !.now = clock].pc = "locked"
      BY <1>1 DEF CallStates
    <3>2. \/ call' = [call EXCEPT ![c] = DoneCall] /\ session_lock' = session_lock
          \/ /\ call' = [call EXCEPT ![c] = [call[c] EXCEPT !.pc = "refused"]]
             /\ LockSession(c)
          \/ /\ call' = [call EXCEPT ![c] = [call[c] EXCEPT !.pc = "locked", !.now = clock]]
             /\ LockSession(c)
      BY <1>1, <2>3 DEF CommandLocks
    <3>3. call[c].pc = "waiting"
      BY <2>3 DEF CommandLocks
    <3> QED
      BY <2>1, <3>1, <3>2, <3>3 DEF LockSession
  <2>4. CASE CommandCommits(c)
    BY <2>1, <2>4 DEF CommandCommits, UnlockSession
  <2>5. CASE CommandRejected(c)
    <3>1. PICK s : s = IF LocksRun(call[c].facts.kind)
                       THEN [current_run |-> session.current_run, run |-> CurrentRun]
                       ELSE call[c].seen
      OBVIOUS
    <3>2. [call[c] EXCEPT !.pc = "refused", !.now = None, !.seen = s].pc = "refused"
      BY <1>1 DEF CallStates
    <3>3. /\ call' = [call EXCEPT ![c] = [call[c] EXCEPT !.pc = "refused", !.now = None,
                                                         !.seen = s]]
          /\ call[c].pc = "locked" /\ session_lock' = session_lock
      BY <1>1, <2>5, <3>1 DEF CommandRejected
    <3> QED
      BY <3>2, <3>3
  <2>6. CASE CommandRefused(c)
    BY <2>1, <2>6 DEF CommandRefused, UnlockSession
  <2>7. CASE CommandDies(c)
    BY <2>1, <2>7 DEF CommandDies
  <2> QED
    BY <2>2, <2>3, <2>4, <2>5, <2>6, <2>7 DEF CallStep
<1>3. \A d \in CommandCalls : call'[d] = IF d = c THEN x ELSE call[d]
  BY <1>1, <1>2
<1>4. \A d \in CommandCalls : call'[d].pc \in Busy => session_lock' = d
  BY <1>1, <1>2, <1>3, NullAssumption DEF LocksHeld, ReleasedBy
<1>5. \A w \in Workers : work'[w].pc = "locked" => session_lock' = w
  BY <1>1, <1>2, NullAssumption DEF LocksHeld, ReleasedBy
<1> QED
  BY <1>4, <1>5 DEF LocksHeld

\* Every step keeps the locks with those who work under them.
LEMMA NextLocks ==
  ASSUME IndInv, LocksHeld, [Next]_vars
  PROVE  LocksHeld'
<1>1. CASE UNCHANGED <<session_lock, work, call>>
  BY <1>1 DEF LocksHeld
<1>2. CASE Tick \/ (\E p \in Participants : Join(p)) \/ Quiet \/ UNCHANGED vars
  BY <1>1, <1>2 DEF Tick, Join, Quiet, vars, procs
<1>3. CASE \E a \in AnswerCalls : AnswerArrives(a) \/ AnswerStep(a) \/ AnswerDies(a)
  BY <1>1, <1>3 DEF AnswerStep, AnswerArrives, AnswerLocksRun, AnswerAdmitted,
     AnswerRechecked, AnswerStored, AnswerDies
<1> QED
  BY <1>2, <1>3, WorkerLocks, CommandLocksHeld DEF Next
-----------------------------------------------------------------------------
(* What each transition does to the deadlines and to the time of the phase. *)

\* DeadlinesOnlyShorten and PhasesStartInOrder, for a step that is a transition.
Shortened ==
  \A r \in DOMAIN runs :
    /\ r \in DOMAIN runs'
    /\ runs'[r].answering_started_at = runs[r].answering_started_at
    /\ runs'[r].answer_deadline_at <= runs[r].answer_deadline_at
    /\ runs'[r].delivery_deadline_at <= runs[r].delivery_deadline_at
    /\ Finalized(runs[r]) => runs'[r] = runs[r]

Later ==
  /\ session.phase_started_at <= session'.phase_started_at
  /\ session'.phase_started_at <= clock

TimesKept == RunTimes' /\ SessionTimes' /\ Shortened /\ Later

\* The transitions, with what the times they use are known to be.
TimelyTransition(now) ==
  \/ CanStartSession /\ StartSession
  \/ MayOpen /\ session.phase_started_at <= now /\ StartQuestion(now)
  \/ \E status \in {"finished", "aborted"} :
       MayEnd(status) /\ session.phase_started_at <= now /\ FinishSession(now, status)
  \/ session.current_run # 0 /\ FinalizeDue(CurrentRun, now) /\ Finalize(now)
  \/ session.current_run # 0 /\ ReadingOver(session, CurrentRun, now) /\ StartAnswering
  \/ session.current_run # 0 /\ AnsweringOver(session, CurrentRun, now) /\ StartDelivery
  \/ CanEndQuestion(now) /\ session.phase_started_at <= now /\ EndQuestion(now)

\* A saved session row has a new revision and else what was written.
LEMMA SavedTimes ==
  ASSUME NEW new \in SessionRow, SaveSession(new)
  PROVE  /\ session' \in SessionRow
         /\ session'.phase = new.phase
         /\ session'.phase_started_at = new.phase_started_at
         /\ session'.state_revision = new.state_revision + 1
BY DEF SaveSession, SessionRow

\* The columns of a run row.
LEMMA RowTypes ==
  ASSUME StateTypes, NEW r \in DOMAIN runs
  PROVE  /\ runs[r] \in RunRow
         /\ runs[r].reading_ends_at \in Nat /\ runs[r].answering_started_at \in Nat
         /\ runs[r].planned_answer_deadline_at \in Nat
         /\ runs[r].answer_deadline_at \in Nat /\ runs[r].delivery_deadline_at \in Nat
         /\ runs[r].finalized_at \in OptTime
<1>1. runs \in Seq(RunRow)
  BY DEF StateTypes
<1>2. runs[r] \in RunRow
  BY <1>1
<1> QED
  BY <1>2 DEF RunRow, Time

\* Runs that are left alone keep their times.
LEMMA SameRuns ==
  ASSUME StateTypes, RunTimes, UNCHANGED <<clock, runs>>
  PROVE  RunTimes' /\ Shortened
<1>1. RunTimes'
  BY DEF RunTimes
<1>2. \A r \in DOMAIN runs : runs[r].answer_deadline_at \in Nat
                             /\ runs[r].delivery_deadline_at \in Nat
  BY RowTypes
<1> QED
  BY <1>1, <1>2 DEF Shortened

\* A question that opens gets ordered deadlines and is read from now on.
LEMMA OpenTimes ==
  ASSUME RowsInv, RunTimes, SessionTimes, NEW now \in 0..clock, clock' = clock,
         MayOpen, session.phase_started_at <= now, StartQuestion(now)
  PROVE  TimesKept
<1>0. PICK n : n = Len(runs) + 1
  OBVIOUS
<1>1. PICK opens, ends, q : /\ opens = now + ReadingTime /\ ends = opens + AnswerTime
                            /\ q = session.current_question + 1
  OBVIOUS
<1> DEFINE run == [question |-> q,
                   reading_ends_at |-> opens,
                   answering_started_at |-> opens,
                   planned_answer_deadline_at |-> ends,
                   answer_deadline_at |-> ends,
                   delivery_deadline_at |-> ends + DeliveryWindow,
                   finalized_at |-> None,
                   results_ends_at |-> None]
           new == [session EXCEPT !.current_question = q,
                                  !.current_run = n,
                                  !.revealed_question_id = 0,
                                  !.phase = "reading",
                                  !.phase_started_at = now]
<1>2. /\ session \in SessionRow /\ runs \in Seq(RunRow) /\ Len(runs) \in Nat
      /\ clock \in Nat /\ now \in Nat /\ session.phase_started_at \in Nat
  BY DEF RowsInv, StateTypes, Time, SessionRow
<1>3. opens \in Nat /\ ends \in Nat /\ now <= opens /\ opens <= ends
  BY <1>1, <1>2, NumbersAssumption
<1>4. RunFits(run, clock) /\ run.answer_deadline_at = run.planned_answer_deadline_at
      /\ run.reading_ends_at = opens
  BY <1>3 DEF RunFits, Finalized
<1>5. runs' = Append(runs, run) /\ SaveSession(new)
  BY <1>0, <1>1 DEF StartQuestion
<1>6. session'.current_run = n
  BY <1>0, <1>2, OpenEffect DEF Time
<1>7. new.phase = "reading" /\ new.phase_started_at = now /\ new \in SessionRow
  <2>1. session.current_question = Len(runs) /\ n <= NumQuestions
    BY <1>0, <1>2, NumbersAssumption DEF RowsInv, Linked, MayOpen, HasNextQuestion
  <2>2. n \in Refs /\ q \in Refs /\ 0 \in Refs /\ "reading" \in Phases
        /\ session.status \in Statuses /\ now \in Time
    BY <1>0, <1>1, <1>2, <2>1, NumbersAssumption DEF Refs, Phases, SessionRow, Time
  <2> QED
    BY <1>2, <2>2 DEF SessionRow
<1> HIDE DEF run, new
<1>8. /\ DOMAIN runs' = DOMAIN runs \cup {n} /\ runs'[n] = run
      /\ \A r \in DOMAIN runs : runs'[r] = runs[r]
  BY <1>0, <1>2, <1>5
<1>9. session'.phase = "reading" /\ session'.phase_started_at = now
  BY <1>5, <1>7, SavedTimes
<1>10. CurrentRun' = run
  BY <1>6, <1>8 DEF CurrentRun, RunOf
<1>11. RunTimes'
  BY <1>4, <1>8 DEF RunTimes
<1>12. SessionTimes'
  BY <1>2, <1>3, <1>4, <1>9, <1>10 DEF SessionTimes, SessionFits
<1>13. Shortened
  <2>1. \A r \in DOMAIN runs : runs[r].answer_deadline_at \in Nat
                               /\ runs[r].delivery_deadline_at \in Nat
    BY RowTypes DEF RowsInv
  <2> QED
    BY <1>8, <2>1 DEF Shortened
<1> QED
  BY <1>2, <1>9, <1>11, <1>12, <1>13 DEF TimesKept, Later

\* The current run is rewritten in place.
LEMMA RewriteTimes ==
  ASSUME RowsInv, RunTimes, clock' = clock, NEW i, Rewritten(i), RunFits(runs'[i], clock),
         runs'[i].answering_started_at = runs[i].answering_started_at,
         runs'[i].answer_deadline_at <= runs[i].answer_deadline_at,
         runs'[i].delivery_deadline_at <= runs[i].delivery_deadline_at,
         ~Finalized(runs[i])
  PROVE  RunTimes' /\ Shortened
<1>1. RunTimes'
  BY DEF RunTimes, Rewritten
<1>2. \A r \in DOMAIN runs : runs[r].answer_deadline_at \in Nat
                             /\ runs[r].delivery_deadline_at \in Nat
  BY RowTypes DEF RowsInv
<1>3. Shortened
  BY <1>2 DEF Shortened, Rewritten
<1> QED
  BY <1>1, <1>3

\* An early end moves the deadline to a time between the opening and the plan.
LEMMA CloseTimes ==
  ASSUME RowsInv, RunTimes, SessionTimes, NEW now \in 0..clock, clock' = clock,
         CanEndQuestion(now), session.phase_started_at <= now, EndQuestion(now)
  PROVE  TimesKept
<1>0. PICK i : i = session.current_run
  OBVIOUS
<1> DEFINE row == [runs[i] EXCEPT !.answer_deadline_at = now,
                                  !.delivery_deadline_at = now + DeliveryWindow]
           new == [session EXCEPT !.phase = "delivery", !.phase_started_at = now]
<1>1. /\ session \in SessionRow /\ runs \in Seq(RunRow) /\ clock \in Nat /\ now \in Nat
      /\ session.phase_started_at \in Nat /\ DeliveryWindow \in Nat
  BY NumbersAssumption DEF RowsInv, StateTypes, Time, SessionRow
<1>2. /\ i \in DOMAIN runs /\ CurrentRun = runs[i] /\ ~Finalized(runs[i])
  BY <1>0, CurrentRunExists DEF RowsInv, CanEndQuestion
<1>3. /\ runs[i] \in RunRow /\ runs[i].answering_started_at \in Nat
      /\ runs[i].planned_answer_deadline_at \in Nat /\ runs[i].answer_deadline_at \in Nat
      /\ runs[i].delivery_deadline_at \in Nat
  BY <1>2, RowTypes DEF RowsInv
<1>4. /\ runs[i].answering_started_at <= now
      /\ now < runs[i].planned_answer_deadline_at
      /\ runs[i].answer_deadline_at = runs[i].planned_answer_deadline_at
      /\ RunFits(runs[i], clock)
  BY <1>2 DEF CanEndQuestion, SessionTimes, SessionFits, RunTimes
<1>5. /\ row.answering_started_at = runs[i].answering_started_at
      /\ row.reading_ends_at = runs[i].reading_ends_at
      /\ row.planned_answer_deadline_at = runs[i].planned_answer_deadline_at
      /\ row.answer_deadline_at = now /\ row.delivery_deadline_at = now + DeliveryWindow
      /\ row.finalized_at = runs[i].finalized_at
  BY <1>3 DEF RunRow
<1>6. runs' = [runs EXCEPT ![i] = row] /\ SaveSession(new)
  BY <1>0, <1>1, <1>2 DEF EndQuestion
<1>7. new \in SessionRow /\ new.phase = "delivery" /\ new.phase_started_at = now
  BY <1>1 DEF SessionRow, Phases, Time
<1>8. Rewritten(i)
  BY <1>0, <1>1, CloseEffect DEF Time
<1> HIDE DEF row, new
<1>9. runs'[i] = row
  BY <1>1, <1>2, <1>6
<1>10. RunFits(runs'[i], clock)
  BY <1>1, <1>2, <1>3, <1>4, <1>5, <1>9 DEF RunFits, Finalized
<1>11. /\ runs'[i].answer_deadline_at <= runs[i].answer_deadline_at
       /\ runs'[i].delivery_deadline_at <= runs[i].delivery_deadline_at
       /\ runs'[i].answering_started_at = runs[i].answering_started_at
  BY <1>1, <1>3, <1>4, <1>5, <1>9 DEF RunFits
<1>12. RunTimes' /\ Shortened
  BY <1>2, <1>8, <1>10, <1>11, RewriteTimes
<1>13. session'.phase = "delivery" /\ session'.phase_started_at = now
  BY <1>6, <1>7, SavedTimes
<1>14. CurrentRun' = row
  BY <1>8, <1>9 DEF CurrentRun, RunOf, Rewritten
<1>15. SessionTimes'
  BY <1>1, <1>5, <1>13, <1>14 DEF SessionTimes, SessionFits
<1> QED
  BY <1>1, <1>12, <1>13, <1>15 DEF TimesKept, Later

\* Results are opened after the delivery window, which is after the phase began.
LEMMA RevealTimes ==
  ASSUME RowsInv, Held, PhasesFit, RunTimes, SessionTimes, NEW now \in 0..clock,
         clock' = clock, session.current_run # 0, FinalizeDue(CurrentRun, now), Finalize(now)
  PROVE  TimesKept
<1>0. PICK i : i = session.current_run
  OBVIOUS
<1> DEFINE row == [runs[i] EXCEPT !.finalized_at = now,
                                  !.results_ends_at = now + ResultsTime]
           new == [session EXCEPT !.phase = "results",
                                  !.revealed_question_id = runs[i].question,
                                  !.phase_started_at = now]
<1>1. /\ session \in SessionRow /\ runs \in Seq(RunRow) /\ clock \in Nat /\ now \in Nat
      /\ session.phase_started_at \in Nat /\ DeliveryWindow \in Nat /\ ResultsTime \in Nat
  BY NumbersAssumption DEF RowsInv, StateTypes, Time, SessionRow
<1>2. /\ i \in DOMAIN runs /\ CurrentRun = runs[i] /\ ~Finalized(runs[i])
      /\ session.status = "live"
  BY <1>0, CurrentRunExists DEF RowsInv, FinalizeDue
<1>3. /\ runs[i] \in RunRow /\ runs[i].answering_started_at \in Nat
      /\ runs[i].reading_ends_at \in Nat /\ runs[i].question \in Refs
      /\ runs[i].planned_answer_deadline_at \in Nat /\ runs[i].answer_deadline_at \in Nat
      /\ runs[i].delivery_deadline_at \in Nat
  BY <1>2, RowTypes DEF RowsInv, RunRow
<1>4. /\ RunFits(runs[i], clock) /\ runs[i].delivery_deadline_at < now
      /\ SessionFits(session, runs[i], clock)
  BY <1>2 DEF FinalizeDue, SessionTimes, RunTimes
<1>5. /\ row.answering_started_at = runs[i].answering_started_at
      /\ row.reading_ends_at = runs[i].reading_ends_at
      /\ row.planned_answer_deadline_at = runs[i].planned_answer_deadline_at
      /\ row.answer_deadline_at = runs[i].answer_deadline_at
      /\ row.delivery_deadline_at = runs[i].delivery_deadline_at
      /\ row.finalized_at = now /\ row.results_ends_at = now + ResultsTime
  BY <1>3 DEF RunRow
<1>6. runs' = [runs EXCEPT ![i] = row] /\ SaveSession(new)
  BY <1>0, <1>1, <1>2 DEF Finalize
<1>7. new \in SessionRow /\ new.phase = "results" /\ new.phase_started_at = now
  <2>1. "results" \in Phases
    BY DEF Phases
  <2> QED
    BY <1>1, <1>3, <2>1 DEF SessionRow, Time
<1>8. Rewritten(i)
  BY <1>0, <1>1, <1>2, RevealEffect
<1>9. session.phase_started_at <= now
  <2>1. session.phase \in {"reading", "answering", "delivery"}
    BY <1>0, <1>1, <1>2 DEF PhasesFit, OneOpenRun, SessionRow, Phases, Held, LobbyHasNoRun
  <2>2. session.phase_started_at <= runs[i].answer_deadline_at
    BY <1>1, <1>3, <1>4, <2>1 DEF SessionFits, RunFits
  <2>3. runs[i].delivery_deadline_at = runs[i].answer_deadline_at + DeliveryWindow
    BY <1>4 DEF RunFits
  <2> QED
    BY <1>1, <1>3, <1>4, <2>2, <2>3
<1> HIDE DEF row, new
<1>10. runs'[i] = row
  BY <1>1, <1>2, <1>6
<1>11. RunFits(runs'[i], clock)
  BY <1>1, <1>3, <1>4, <1>5, <1>10 DEF RunFits
<1>12. RunTimes' /\ Shortened
  <2>1. /\ runs'[i].answering_started_at = runs[i].answering_started_at
        /\ runs'[i].answer_deadline_at <= runs[i].answer_deadline_at
        /\ runs'[i].delivery_deadline_at <= runs[i].delivery_deadline_at
    BY <1>3, <1>5, <1>10
  <2> QED
    BY <1>2, <1>8, <1>11, <2>1, RewriteTimes
<1>13. session'.phase = "results" /\ session'.phase_started_at = now
  BY <1>6, <1>7, SavedTimes
<1>14. CurrentRun' = row
  BY <1>8, <1>10 DEF CurrentRun, RunOf, Rewritten
<1>15. SessionTimes'
  BY <1>1, <1>5, <1>13, <1>14 DEF SessionTimes, SessionFits
<1> QED
  BY <1>1, <1>9, <1>12, <1>13, <1>15 DEF TimesKept, Later

\* The transitions that only move the session along.
LEMMA SessionOnlyTimes ==
  ASSUME RowsInv, RunTimes, SessionTimes, NEW now \in 0..clock, clock' = clock,
         \/ CanStartSession /\ StartSession
         \/ /\ session.current_run # 0
            /\ \/ ReadingOver(session, CurrentRun, now) /\ StartAnswering
               \/ AnsweringOver(session, CurrentRun, now) /\ StartDelivery
  PROVE  TimesKept
<1>1. /\ session \in SessionRow /\ clock \in Nat /\ now \in Nat
      /\ session.phase_started_at \in Nat /\ runs' = runs
  BY DEF RowsInv, StateTypes, Time, SessionRow, StartSession, StartAnswering, StartDelivery
<1>2. RunTimes' /\ Shortened
  BY <1>1, SameRuns DEF RowsInv
<1>3. CASE CanStartSession /\ StartSession
  <2> DEFINE new == [session EXCEPT !.status = "live"]
  <2>1. /\ new \in SessionRow /\ new.phase = "lobby"
        /\ new.phase_started_at = session.phase_started_at
    BY <1>1, <1>3 DEF SessionRow, Statuses, CanStartSession
  <2>2. SaveSession(new)
    BY <1>3 DEF StartSession
  <2>3. session'.phase = "lobby" /\ session'.phase_started_at = session.phase_started_at
    BY <2>1, <2>2, SavedTimes
  <2>4. session.phase_started_at <= clock
    BY DEF SessionTimes, SessionFits
  <2> QED
    BY <1>1, <1>2, <2>3, <2>4 DEF TimesKept, Later, SessionTimes, SessionFits
<1>4. CASE session.current_run # 0
  <2>0. PICK i : i = session.current_run
    OBVIOUS
  <2>1. i \in DOMAIN runs /\ CurrentRun = runs[i]
    BY <1>4, <2>0, CurrentRunExists DEF RowsInv
  <2>2. /\ RunFits(runs[i], clock) /\ SessionFits(session, runs[i], clock)
        /\ runs[i].reading_ends_at \in Nat /\ runs[i].answering_started_at \in Nat
        /\ runs[i].answer_deadline_at \in Nat
    BY <2>1, RowTypes DEF SessionTimes, RunTimes, RowsInv
  <2>3. ASSUME NEW ph \in Phases, NEW t \in Nat,
               SaveSession([session EXCEPT !.phase = ph, !.phase_started_at = t])
        PROVE  /\ session'.phase = ph /\ session'.phase_started_at = t
               /\ CurrentRun' = runs[i]
    <3> DEFINE new == [session EXCEPT !.phase = ph, !.phase_started_at = t]
    <3>1. /\ new \in SessionRow /\ new.phase = ph /\ new.phase_started_at = t
          /\ new.current_run = session.current_run
      BY <1>1, <2>3 DEF SessionRow, Time
    <3> HIDE DEF new
    <3>2. /\ session'.phase = ph /\ session'.phase_started_at = t
          /\ session'.current_run = session.current_run
      BY <2>3, <3>1, SavedTimes, SaveSessionType DEF new
    <3> QED
      BY <1>1, <2>0, <2>1, <3>2 DEF CurrentRun, RunOf
  <2>4. CASE ReadingOver(session, CurrentRun, now) /\ StartAnswering
    <3>1. /\ session'.phase = "answering"
          /\ session'.phase_started_at = runs[i].answering_started_at
          /\ CurrentRun' = runs[i]
      BY <2>1, <2>2, <2>3, <2>4 DEF StartAnswering, Phases
    <3>2. /\ session.phase = "reading" /\ now >= runs[i].reading_ends_at
      BY <2>1, <2>4 DEF ReadingOver
    <3>3. Later
      BY <1>1, <2>2, <3>1, <3>2 DEF Later, RunFits, SessionFits
    <3>4. SessionTimes'
      BY <1>1, <2>2, <3>1, <3>2, <3>3 DEF SessionTimes, SessionFits, Later
    <3> QED
      BY <1>2, <3>3, <3>4 DEF TimesKept
  <2>5. CASE AnsweringOver(session, CurrentRun, now) /\ StartDelivery
    <3>1. /\ session'.phase = "delivery"
          /\ session'.phase_started_at = runs[i].answer_deadline_at
          /\ CurrentRun' = runs[i]
      BY <2>1, <2>2, <2>3, <2>5 DEF StartDelivery, Phases
    <3>2. /\ session.phase = "answering" /\ now >= runs[i].answer_deadline_at
      BY <2>1, <2>5 DEF AnsweringOver
    <3>3. Later
      BY <1>1, <2>2, <3>1, <3>2 DEF Later, RunFits, SessionFits
    <3>4. SessionTimes'
      BY <1>1, <2>2, <3>1, <3>2, <3>3 DEF SessionTimes, SessionFits, Later
    <3> QED
      BY <1>2, <3>3, <3>4 DEF TimesKept
  <2>6. CASE CanStartSession
    BY <1>4, <2>6, CurrentRunExists DEF CanStartSession, RowsInv
  <2> QED
    BY <2>4, <2>5, <2>6
<1> QED
  BY <1>3, <1>4

\* The end of a session.
LEMMA FinishTimes ==
  ASSUME RowsInv, RunTimes, SessionTimes, NEW now \in 0..clock, clock' = clock,
         NEW st \in {"finished", "aborted"}, session.phase_started_at <= now,
         FinishSession(now, st)
  PROVE  TimesKept
<1> DEFINE new == [session EXCEPT !.status = st, !.phase = "final",
                                  !.current_question = 0, !.current_run = 0,
                                  !.revealed_question_id = 0,
                                  !.phase_started_at = now]
<1>1. /\ session \in SessionRow /\ clock \in Nat /\ now \in Nat
      /\ session.phase_started_at \in Nat /\ runs' = runs
  BY DEF RowsInv, StateTypes, Time, SessionRow, FinishSession
<1>2. 0 \in Refs /\ "final" \in Phases /\ st \in Statuses /\ now \in Time
  BY <1>1, NumbersAssumption DEF Refs, Phases, Statuses, Time
<1>3. new \in SessionRow
  BY <1>1, <1>2, SessionFields
<1>4. new.phase = "final" /\ new.phase_started_at = now
  BY <1>1 DEF SessionRow
<1>5. SaveSession(new)
  BY DEF FinishSession
<1> HIDE DEF new
<1>6. session'.phase = "final" /\ session'.phase_started_at = now
  BY <1>3, <1>4, <1>5, SavedTimes
<1>7. RunTimes' /\ Shortened
  BY <1>1, SameRuns DEF RowsInv
<1>8. SessionTimes'
  BY <1>1, <1>6 DEF SessionTimes, SessionFits
<1> QED
  BY <1>1, <1>6, <1>7, <1>8 DEF TimesKept, Later

\* Every transition keeps the times in order.
LEMMA TransitionTimes ==
  ASSUME IndInv, Held, PhasesFit, RunTimes, SessionTimes, NEW now \in 0..clock,
         clock' = clock, TimelyTransition(now)
  PROVE  TimesKept
<1>1. RowsInv
  BY DEF IndInv
<1> QED
  BY <1>1, OpenTimes, CloseTimes, RevealTimes, SessionOnlyTimes, FinishTimes
     DEF TimelyTransition

\* What a worker commits: its time may be stale, and yet no deadline it goes by
\* could be after it.
LEMMA WorkersTimely ==
  ASSUME IndInv, PhasesFit, RunTimes, SessionTimes, NEW w \in Workers, AdvanceCommit(w)
  PROVE  \/ UNCHANGED <<session, runs, finals, commands>>
         \/ /\ session.current_run # 0 /\ work[w].now \in 0..clock
            /\ AutomaticTransition(work[w].now)
            /\ TimelyTransition(work[w].now)
<1>1. PICK now : now = work[w].now
  OBVIOUS
<1>2. now \in 0..clock
  BY <1>1 DEF AdvanceCommit, IndInv, WorkInv
<1>3. CASE ~MayBeDue(session, CurrentRun, now)
  BY <1>1, <1>3 DEF AdvanceCommit
<1>4. CASE MayBeDue(session, CurrentRun, now)
  <2>1. session.current_run # 0 /\ AutomaticTransition(now)
    BY <1>1, <1>4 DEF AdvanceCommit, MayBeDue
  <2>2. session.status = "live"
    BY <2>1, CurrentRunExists DEF IndInv, RowsInv
  <2>3. ResultsOver(session, CurrentRun, now) => session.phase_started_at <= now
    <3>1. SUFFICES ASSUME ResultsOver(session, CurrentRun, now)
                   PROVE  session.phase_started_at <= now
      OBVIOUS
    <3>2. /\ session.phase_started_at <= CurrentRun.results_ends_at
          /\ CurrentRun.results_ends_at <= now /\ CurrentRun.results_ends_at # None
      BY <3>1 DEF ResultsOver, SessionTimes, SessionFits
    <3>3. CurrentRun \in RunRow /\ session \in SessionRow /\ clock \in Nat
      BY <2>1, CurrentRunExists DEF IndInv, RowsInv, StateTypes, Time
    <3>4. CurrentRun.results_ends_at \in Nat /\ session.phase_started_at \in Nat /\ now \in Nat
      BY <1>2, <3>2, <3>3 DEF RunRow, SessionRow, OptTime, Time
    <3> QED
      BY <3>2, <3>4
  <2>4. TimelyTransition(now)
    BY <2>1, <2>2, <2>3 DEF AutomaticTransition, TimelyTransition, MayOpen, MayEnd, ResultsOver
  <2> QED
    BY <1>1, <1>2, <2>1, <2>4
<1> QED
  BY <1>3, <1>4

\* What a command commits: it took its time under the lock.
LEMMA CommandsTimely ==
  ASSUME IndInv, CommandsReady, NEW c \in CommandCalls, CommandCommits(c)
  PROVE  call[c].now \in 0..clock /\ TimelyTransition(call[c].now)
<1>1. call[c].now \in 0..clock /\ session.phase_started_at <= call[c].now
  BY DEF CommandCommits, IndInv, CallInv, CommandsReady
<1> QED
  BY <1>1 DEF CommandCommits, Applicable, ManualTransition, TimelyTransition, MayOpen, MayEnd,
     CanStartQuiz, CanOpenNext, CanAbort
-----------------------------------------------------------------------------
(* The steps that write the session and its runs, and those that do not.   *)

Commit ==
  \/ \E w \in Workers : AdvanceCommit(w)
  \/ \E c \in CommandCalls : CommandCommits(c)

\* Only commits write the session row, a run or the log, and the clock goes on
\* in Tick alone.
LEMMA WhoWrites ==
  ASSUME IndInv, [Next]_vars
  PROVE  /\ clock' \in Nat /\ clock <= clock'
         /\ \/ UNCHANGED <<session, runs, commands>>
            \/ Commit /\ clock' = clock /\ UNCHANGED <<joined, attempts, answer>>
<1>1. clock \in Nat
  BY DEF IndInv, RowsInv, StateTypes, Time
<1>2. CASE Tick
  BY <1>1, <1>2 DEF Tick, rows
<1>3. CASE Quiet \/ UNCHANGED vars \/ (\E p \in Participants : Join(p))
  BY <1>1, <1>3 DEF Quiet, vars, rows, Join
<1>4. ASSUME NEW w \in Workers, WorkerStep(w) \/ WorkerDies(w)
      PROVE  /\ clock' = clock
             /\ \/ UNCHANGED <<session, runs, commands>>
                \/ AdvanceCommit(w) /\ UNCHANGED <<joined, attempts, answer>>
  BY <1>4 DEF WorkerStep, AdvanceRead, AdvancePreflight, AdvanceLock, AdvanceCommit,
     WorkerDies, rows
<1>5. ASSUME NEW c \in CommandCalls, CommandArrives(c) \/ CallStep(c) \/ CommandDies(c)
      PROVE  /\ clock' = clock
             /\ \/ UNCHANGED <<session, runs, commands>>
                \/ CommandCommits(c) /\ UNCHANGED <<joined, attempts, answer>>
  BY <1>5 DEF CallStep, CommandArrives, CommandLocks, CommandRejected, CommandRefused,
     CommandCommits, CommandDies, rows
<1>6. CASE \E a \in AnswerCalls : AnswerArrives(a) \/ AnswerStep(a) \/ AnswerDies(a)
  <2>1. UNCHANGED <<clock, session, runs, commands>>
    BY <1>6 DEF AnswerStep, AnswerArrives, AnswerLocksRun, AnswerAdmitted,
       AnswerRechecked, AnswerStored, AnswerDies, rows
  <2> QED
    BY <1>1, <2>1
<1> QED
  BY <1>1, <1>2, <1>3, <1>4, <1>5, <1>6 DEF Next, Commit

\* A commit is a transition in time, or one of a worker that comes too late.
LEMMA CommitTimes ==
  ASSUME IndInv, Held, PhasesFit, RunTimes, SessionTimes, CommandsReady, Commit,
         clock' = clock
  PROVE  TimesKept \/ UNCHANGED <<session, runs, finals, commands>>
<1>1. ASSUME NEW w \in Workers, AdvanceCommit(w)
      PROVE  TimesKept \/ UNCHANGED <<session, runs, finals, commands>>
  BY <1>1, WorkersTimely, TransitionTimes
<1>2. ASSUME NEW c \in CommandCalls, CommandCommits(c)
      PROVE  TimesKept
  BY <1>2, CommandsTimely, TransitionTimes
<1> QED
  BY <1>1, <1>2 DEF Commit

\* Time going on disturbs nothing.
LEMMA ClockTimes ==
  ASSUME IndInv, RunTimes, SessionTimes, clock' \in Nat, clock <= clock',
         UNCHANGED <<session, runs>>
  PROVE  RunTimes' /\ SessionTimes'
<1>1. /\ session \in SessionRow /\ clock \in Nat /\ session.phase_started_at \in Nat
  BY DEF IndInv, RowsInv, StateTypes, SessionRow, Time
<1>2. \A r \in DOMAIN runs : Finalized(runs[r]) => runs[r].finalized_at \in Nat
  BY RowTypes DEF IndInv, RowsInv, Finalized, OptTime, Time
<1>3. RunTimes'
  BY <1>1, <1>2 DEF RunTimes, RunFits
<1>4. CurrentRun' = CurrentRun
  BY DEF CurrentRun, RunOf
<1>5. SessionTimes'
  BY <1>1, <1>4 DEF SessionTimes, SessionFits
<1> QED
  BY <1>3, <1>5

\* The times stay in order.
LEMMA NextTimes ==
  ASSUME IndInv, Held, PhasesFit, RunTimes, SessionTimes, CommandsReady, [Next]_vars
  PROVE  /\ RunTimes' /\ SessionTimes' /\ Shortened
         /\ session' # session => Later
<1>1. CASE UNCHANGED <<session, runs, commands>>
  <2>1. RunTimes' /\ SessionTimes'
    BY <1>1, WhoWrites, ClockTimes
  <2>2. \A r \in DOMAIN runs : runs[r].answer_deadline_at \in Nat
                               /\ runs[r].delivery_deadline_at \in Nat
    BY RowTypes DEF IndInv, RowsInv
  <2> QED
    BY <1>1, <2>1, <2>2 DEF Shortened
<1>2. CASE TimesKept
  BY <1>2 DEF TimesKept
<1>3. CASE Commit /\ clock' = clock
  BY <1>1, <1>2, <1>3, CommitTimes
<1> QED
  BY <1>1, <1>3, WhoWrites

\* A command that has the lock finds at its commit what it found before.
LEMMA NextCommandsReady ==
  ASSUME IndInv, LocksHeld, LocksHeld', SessionTimes, CommandsReady, [Next]_vars
  PROVE  CommandsReady'
<1>1. CASE Commit
  <2>1. session_lock' = Null
    BY <1>1 DEF Commit, AdvanceCommit, CommandCommits, UnlockSession
  <2>2. \A c \in CommandCalls : call'[c].pc # "locked"
    BY <2>1, NullAssumption DEF LocksHeld
  <2> QED
    BY <2>2 DEF CommandsReady
<1>2. CASE UNCHANGED <<session, commands>>
  <2>1. \A id : Earlier(id)' = Earlier(id)
    BY <1>2 DEF Earlier
  <2>2. CASE call' = call
    BY <1>2, <2>1, <2>2 DEF CommandsReady
  <2>3. ASSUME NEW c \in CommandCalls, CommandArrives(c) \/ CallStep(c) \/ CommandDies(c)
        PROVE  CommandsReady'
    <3>1. PICK x : /\ call' = [call EXCEPT ![c] = x]
                   /\ x.pc = "locked" =>
                        /\ session.phase_started_at <= x.now
                        /\ x.facts.state_revision = session.state_revision
                        /\ Earlier(CommandIdOf(c)) = {}
      <4>0. call \in [CommandCalls -> CallStates] /\ DoneCall.pc # "locked"
        BY DEF IndInv, CallInv, DoneCall, IdleCall
      <4>1. CASE CommandArrives(c)
        <5>1. PICK known \in KnownStates :
               call' = [call EXCEPT ![c] =
                  [pc |-> "waiting",
                   facts |-> [kind |-> KindOf(c),
                              state_revision |-> known.state_revision,
                              phase |-> known.phase,
                              question_run_id |-> known.question_run_id,
                              boundary |-> None],
                   now |-> None,
                   seen |-> [current_run |-> session.current_run,
                             run |-> CurrentRun]]]
          BY <4>1 DEF CommandArrives
        <5> DEFINE y == [pc |-> "waiting",
                         facts |-> [kind |-> KindOf(c),
                                    state_revision |-> known.state_revision,
                                    phase |-> known.phase,
                                    question_run_id |-> known.question_run_id,
                                    boundary |-> None],
                         now |-> None,
                         seen |-> [current_run |-> session.current_run,
                                   run |-> CurrentRun]]
        <5>2. call' = [call EXCEPT ![c] = y] /\ y.pc # "locked"
          BY <5>1
        <5> HIDE DEF y
        <5> QED
          BY <5>2
      <4>2. CASE CommandLocks(c)
        <5> DEFINE y == [call[c] EXCEPT !.pc = "refused"]
                   z == [call[c] EXCEPT !.pc = "locked", !.now = clock]
        <5>1. y.pc = "refused" /\ z.now = clock /\ z.facts = call[c].facts
          BY <4>0 DEF CallStates
        <5>2. \/ call' = [call EXCEPT ![c] = DoneCall]
              \/ call' = [call EXCEPT ![c] = y]
              \/ /\ Earlier(CommandIdOf(c)) = {} /\ ContextIsCurrent(c)
                 /\ call' = [call EXCEPT ![c] = z]
          BY <4>0, <4>2 DEF CommandLocks
        <5> HIDE DEF y, z
        <5>3. session.phase_started_at <= clock
          BY DEF SessionTimes, SessionFits
        <5>4. ContextIsCurrent(c) => call[c].facts.state_revision = session.state_revision
          BY DEF ContextIsCurrent
        <5> QED
          BY <4>0, <5>1, <5>2, <5>3, <5>4
      <4>3. CASE CommandCommits(c) \/ CommandRefused(c) \/ CommandDies(c)
        BY <4>0, <4>3 DEF CommandCommits, CommandRefused, CommandDies
      <4>4. CASE CommandRejected(c)
        <5>1. PICK s : s = IF LocksRun(call[c].facts.kind)
                           THEN [current_run |-> session.current_run, run |-> CurrentRun]
                           ELSE call[c].seen
          OBVIOUS
        <5>2. [call[c] EXCEPT !.pc = "refused", !.now = None, !.seen = s].pc = "refused"
          BY <4>0 DEF CallStates
        <5>3. call' = [call EXCEPT ![c] = [call[c] EXCEPT !.pc = "refused", !.now = None,
                                                          !.seen = s]]
          BY <4>0, <4>4, <5>1 DEF CommandRejected
        <5> QED
          BY <5>2, <5>3
      <4> QED
        BY <2>3, <4>1, <4>2, <4>3, <4>4 DEF CallStep
    <3>2. \A d \in CommandCalls : call'[d] = IF d = c THEN x ELSE call[d]
      BY <3>1 DEF IndInv, CallInv
    <3> QED
      BY <1>2, <2>1, <3>1, <3>2 DEF CommandsReady
  <2>4. CASE \E w \in Workers : WorkerStep(w) \/ WorkerDies(w)
    BY <2>2, <2>4 DEF WorkerStep, AdvanceRead, AdvancePreflight, AdvanceLock, AdvanceCommit,
       WorkerDies
  <2>5. CASE \E a \in AnswerCalls : AnswerArrives(a) \/ AnswerStep(a) \/ AnswerDies(a)
    BY <2>2, <2>5 DEF AnswerStep, AnswerArrives, AnswerLocksRun, AnswerAdmitted,
       AnswerRechecked, AnswerStored, AnswerDies
  <2>6. CASE Tick \/ (\E p \in Participants : Join(p)) \/ Quiet \/ UNCHANGED vars
    BY <2>2, <2>6 DEF Tick, Join, Quiet, vars, procs
  <2> QED
    BY <2>3, <2>4, <2>5, <2>6 DEF Next
<1> QED
  BY <1>1, <1>2, WhoWrites
-----------------------------------------------------------------------------
(* The presses and the attempts.                                           *)

\* When presses are taken the answers of the current run have been opened.
LEMMA OpenedBefore ==
  ASSUME IndInv, PhasesFit, RunTimes, SessionTimes, session.current_run # 0,
         session.phase \in AnswerPhases
  PROVE  runs[session.current_run].answering_started_at <= clock
<1>0. PICK i : i = session.current_run
  OBVIOUS
<1>1. i \in DOMAIN runs /\ CurrentRun = runs[i]
  BY <1>0, CurrentRunExists DEF IndInv, RowsInv
<1>2. /\ RunFits(runs[i], clock) /\ SessionFits(session, runs[i], clock)
      /\ runs[i].answering_started_at \in Nat /\ runs[i].answer_deadline_at \in Nat
      /\ runs[i].delivery_deadline_at \in Nat /\ runs[i].finalized_at \in OptTime
      /\ clock \in Nat /\ DeliveryWindow \in Nat
  BY <1>1, RowTypes, NumbersAssumption DEF SessionTimes, RunTimes, IndInv, RowsInv,
     StateTypes, Time
<1>3. CASE session.phase = "answering"
  BY <1>0, <1>2, <1>3 DEF SessionFits
<1>4. CASE session.phase = "delivery"
  BY <1>0, <1>2, <1>4 DEF SessionFits, RunFits
<1>5. CASE session.phase = "results"
  <2>1. Finalized(runs[i])
    BY <1>1, <1>5 DEF PhasesFit, OneOpenRun
  <2>2. runs[i].finalized_at \in Nat
    BY <1>2, <2>1 DEF Finalized, OptTime, Time
  <2> QED
    BY <1>0, <1>2, <2>1, <2>2 DEF RunFits
<1> QED
  BY <1>3, <1>4, <1>5 DEF AnswerPhases

\* A request of a participant goes on.
LEMMA AnswerPressTimes ==
  ASSUME IndInv, PhasesFit, RunTimes, SessionTimes, PressTimes, NEW a \in AnswerCalls,
         AnswerArrives(a) \/ AnswerStep(a) \/ AnswerDies(a)
  PROVE  PressTimes'
<1>1. UNCHANGED <<clock, session, runs>>
  BY DEF AnswerArrives, AnswerStep, AnswerLocksRun, AnswerAdmitted, AnswerRechecked,
         AnswerStored, AnswerDies, rows
<1>2. answer[a] \in AnswerStates /\ PressFits(answer[a]) /\ AnswerFacts(answer[a])
      /\ answer \in [AnswerCalls -> AnswerStates]
  BY DEF IndInv, AnswerInv, PressTimes
<1>3. PICK x : answer' = [answer EXCEPT ![a] = x] /\ PressFits(x)
  <2>1. PressFits(DoneAnswer)
    BY DEF DoneAnswer, NoAnswer, Sharing, PressFits
  <2>2. CASE AnswerArrives(a)
    <3>1. PICK p \in joined, s \in Submissions, ch \in Choices :
            answer' = [answer EXCEPT ![a] =
                         [pc |-> "waiting", participant |-> p, submission_id |-> s,
                          choice |-> ch, run |-> session.current_run,
                          admitted_at |-> None]]
      BY <2>2 DEF AnswerArrives
    <3> DEFINE y == [pc |-> "waiting", participant |-> p, submission_id |-> s,
                     choice |-> ch, run |-> session.current_run, admitted_at |-> None]
    <3>2. y.pc = "waiting" /\ y.run = session.current_run
      OBVIOUS
    <3>3. answer' = [answer EXCEPT ![a] = y]
      BY <3>1
    <3> HIDE DEF y
    <3>4. runs[session.current_run].answering_started_at <= clock
      BY <2>2, OpenedBefore DEF AnswerArrives
    <3>5. PressFits(y)
      BY <3>2, <3>4 DEF PressFits
    <3> QED
      BY <3>3, <3>5
  <2>3. CASE AnswerLocksRun(a)
    <3> DEFINE y == [answer[a] EXCEPT !.pc = "shared"]
    <3>1. y.pc = "shared" /\ y.run = answer[a].run
      BY <1>2 DEF AnswerStates
    <3>2. answer' = [answer EXCEPT ![a] = y] /\ answer[a].pc = "waiting"
      BY <1>2, <2>3 DEF AnswerLocksRun
    <3> HIDE DEF y
    <3>3. PressFits(y)
      BY <1>2, <3>1, <3>2 DEF PressFits
    <3> QED
      BY <3>2, <3>3
  <2>4. CASE AnswerAdmitted(a)
    <3> DEFINE y == [answer[a] EXCEPT !.pc = "admitted", !.admitted_at = clock]
    <3>1. y.pc = "admitted" /\ y.run = answer[a].run /\ y.admitted_at = clock
      BY <1>2 DEF AnswerStates
    <3>2. answer' = [answer EXCEPT ![a] = y] /\ answer[a].pc \in Sharing
      BY <1>2, <2>4 DEF AnswerAdmitted, Sharing
    <3> HIDE DEF y
    <3>3. PressFits(y)
      BY <1>2, <3>1, <3>2 DEF PressFits
    <3> QED
      BY <3>2, <3>3
  <2>5. CASE AnswerRechecked(a)
    <3> DEFINE y == [answer[a] EXCEPT !.pc = "checked"]
    <3>1. y.pc = "checked" /\ y.run = answer[a].run /\ y.admitted_at = answer[a].admitted_at
      BY <1>2 DEF AnswerStates
    <3>2. answer' = [answer EXCEPT ![a] = IF StillCurrent(a) THEN y ELSE DoneAnswer]
          /\ answer[a].pc = "admitted" /\ answer[a].pc \in Sharing
      BY <2>5 DEF AnswerRechecked, Sharing
    <3> HIDE DEF y
    <3>3. PressFits(y)
      BY <1>2, <3>1, <3>2 DEF PressFits
    <3> QED
      BY <2>1, <3>2, <3>3
  <2>6. CASE AnswerStored(a) \/ AnswerDies(a)
    BY <2>1, <2>6 DEF AnswerStored, AnswerDies
  <2> QED
    BY <2>2, <2>3, <2>4, <2>5, <2>6 DEF AnswerStep
<1>4. \A b \in AnswerCalls : answer'[b] = IF b = a THEN x ELSE answer[b]
  BY <1>2, <1>3
<1> QED
  BY <1>1, <1>3, <1>4 DEF PressTimes, PressFits

\* Every step keeps PressTimes.
LEMMA NextPressTimes ==
  ASSUME IndInv, PhasesFit, RunTimes, SessionTimes, Shortened, PressTimes, [Next]_vars
  PROVE  PressTimes'
<1>1. CASE answer' = answer
  <2>1. \A a \in AnswerCalls : answer[a].pc \in Sharing \cup {"waiting"} =>
          /\ answer[a].run \in DOMAIN runs
          /\ runs[answer[a].run].answering_started_at \in Nat
    BY RowTypes DEF IndInv, RowsInv, AnswerInv, AnswerFacts
  <2>2. clock \in Nat /\ clock' \in Nat /\ clock <= clock'
    BY WhoWrites DEF IndInv, RowsInv, StateTypes, Time
  <2>3. \A a \in AnswerCalls : answer[a].pc \in Sharing \cup {"waiting"} =>
          runs'[answer[a].run].answering_started_at = runs[answer[a].run].answering_started_at
    BY <2>1 DEF Shortened
  <2>4. ASSUME NEW a \in AnswerCalls PROVE PressFits(answer[a])'
    <3>1. PressFits(answer[a])
      BY DEF PressTimes
    <3>2. CASE answer[a].pc \in Sharing \cup {"waiting"}
      BY <1>1, <2>1, <2>2, <2>3, <3>1, <3>2 DEF PressFits
    <3>3. CASE answer[a].pc \notin Sharing \cup {"waiting"}
      BY <1>1, <3>3 DEF PressFits, Sharing
    <3> QED
      BY <3>2, <3>3
  <2> QED
    BY <2>4 DEF PressTimes
<1>2. CASE \E a \in AnswerCalls : AnswerArrives(a) \/ AnswerStep(a) \/ AnswerDies(a)
  BY <1>2, AnswerPressTimes
<1>3. CASE Tick \/ (\E p \in Participants : Join(p)) \/ Quiet \/ UNCHANGED vars
  BY <1>1, <1>3 DEF Tick, Join, Quiet, vars, procs
<1>4. CASE \E w \in Workers : WorkerStep(w) \/ WorkerDies(w)
  BY <1>1, <1>4 DEF WorkerStep, AdvanceRead, AdvancePreflight, AdvanceLock, AdvanceCommit,
     WorkerDies
<1>5. CASE \E c \in CommandCalls : CommandArrives(c) \/ CallStep(c) \/ CommandDies(c)
  BY <1>1, <1>5 DEF CallStep, CommandArrives, CommandLocks, CommandRejected, CommandRefused,
     CommandCommits, CommandDies
<1> QED
  BY <1>2, <1>3, <1>4, <1>5 DEF Next

\* The submission identifiers of finitely many attempts are finitely many.
LEMMA SubmissionsFinite ==
  ASSUME NEW S, IsFiniteSet(S)
  PROVE  IsFiniteSet({a.submission_id : a \in S})
<1> DEFINE T == {a.submission_id : a \in S}
           f == [a \in S |-> a.submission_id]
<1>1. f \in Surjection(S, T)
  BY DEF Surjection
<1> QED
  BY <1>1, FS_Surjection

\* An attempt that is stored takes the next number among those of its participant.
LEMMA StoredAttempts ==
  ASSUME IndInv, Held, GameInv, PressTimes, AttemptsAreSound, NEW a \in AnswerCalls, AnswerStored(a)
  PROVE  AttemptsAreSound'
<1>0. PICK x : x = NewAttempt(a)
  OBVIOUS
<1>1. /\ x \in AttemptRows /\ x.run \in DOMAIN runs
      /\ \A b \in attempts : b.id < x.id
      /\ UNCHANGED <<clock, session, runs, joined, finals>>
  BY <1>0, StoredFacts
<1>2. CASE ~Storable(a)
  <2>1. attempts' = attempts
    BY <1>2 DEF AnswerStored
  <2> QED
    BY <1>1, <2>1 DEF AttemptsAreSound, AttemptsAreNumbered, NoEarlyAttempt, AttemptsOf
<1>3. CASE Storable(a)
  <2>1. attempts' = attempts \cup {x}
    BY <1>0, <1>3 DEF AnswerStored
  <2>2. PICK q, s : q = x.run /\ s = x.session_participant
    OBVIOUS
  <2>3. /\ x.run = answer[a].run /\ x.session_participant = answer[a].participant
        /\ x.submission_id = answer[a].submission_id
        /\ x.admitted_at = answer[a].admitted_at
        /\ x.ordinal = Cardinality(AttemptsOf(q, s)) + 1
    BY <1>0, <2>2 DEF NewAttempt
  <2>4. NoEarlyAttempt'
    <3>1. answer[a].pc = "checked"
      BY DEF AnswerStored
    <3>2. runs[x.run].answering_started_at <= x.admitted_at
      BY <2>3, <3>1 DEF PressTimes, PressFits
    <3> QED
      BY <1>1, <2>1, <3>2 DEF AttemptsAreSound, NoEarlyAttempt
  <2>5. ASSUME NEW r \in DOMAIN runs, NEW p \in Participants
        PROVE  LET mine == AttemptsOf(r, p)'
               IN  /\ {b.ordinal : b \in mine} = 1..Cardinality(mine)
                   /\ Cardinality(mine) <= MaxAttempts
                   /\ Cardinality({b.submission_id : b \in mine}) = Cardinality(mine)
    <3> DEFINE old == AttemptsOf(r, p)
               new == AttemptsOf(r, p)'
    <3>1. /\ {b.ordinal : b \in old} = 1..Cardinality(old)
          /\ Cardinality(old) <= MaxAttempts
          /\ Cardinality({b.submission_id : b \in old}) = Cardinality(old)
      BY DEF AttemptsAreSound, AttemptsAreNumbered
    <3>2. CASE r # q \/ p # s
      <4>1. new = old
        BY <2>1, <2>2, <3>2 DEF AttemptsOf
      <4> QED
        BY <3>1, <4>1
    <3>3. CASE r = q /\ p = s
      <4>1. new = old \cup {x}
        BY <2>1, <2>2, <3>3 DEF AttemptsOf
      <4>2. x \notin old
        BY <1>1 DEF AttemptsOf, AttemptRows
      <4>3. IsFiniteSet(old)
        BY FS_Subset DEF AttemptsOf, IndInv
      <4>4. Cardinality(old) \in Nat /\ Cardinality(new) = Cardinality(old) + 1
        BY <4>1, <4>2, <4>3, FS_CardinalityType, FS_AddElement
      <4>5. /\ \A b \in old : b.submission_id # x.submission_id
            /\ Cardinality(old) < MaxAttempts
        BY <1>3, <2>2, <2>3, <3>3 DEF Storable
      <4>6. x.ordinal = Cardinality(old) + 1
        BY <2>3, <3>3
      <4> DEFINE ids == {b.submission_id : b \in old}
                 n == Cardinality(old)
      <4>7. {b.submission_id : b \in new} = ids \cup {x.submission_id}
        BY <4>1
      <4>8. IsFiniteSet(ids) /\ x.submission_id \notin ids
        BY <4>3, <4>5, SubmissionsFinite
      <4>9. Cardinality(ids \cup {x.submission_id}) = Cardinality(ids) + 1
        BY <4>8, FS_AddElement
      <4>10. {b.ordinal : b \in new} = {b.ordinal : b \in old} \cup {n + 1}
        BY <4>1, <4>6
      <4>11. (1..n) \cup {n + 1} = 1..(n + 1)
        BY <4>4
      <4>12. {b.ordinal : b \in new} = 1..Cardinality(new)
        BY <3>1, <4>4, <4>10, <4>11
      <4>13. Cardinality(new) <= MaxAttempts
        BY <4>4, <4>5, NumbersAssumption
      <4>14. Cardinality({b.submission_id : b \in new}) = Cardinality(new)
        BY <3>1, <4>4, <4>7, <4>9
      <4> QED
        BY <4>12, <4>13, <4>14
    <3> QED
      BY <3>2, <3>3
  <2>6. AttemptsAreNumbered'
    BY <1>1, <2>5 DEF AttemptsAreNumbered
  <2> QED
    BY <2>4, <2>6 DEF AttemptsAreSound
<1> QED
  BY <1>2, <1>3

\* Every step keeps the attempts numbered and timely.
LEMMA NextAttempts ==
  ASSUME IndInv, Held, GameInv, PressTimes, AttemptsAreSound, Shortened, [Next]_vars
  PROVE  AttemptsAreSound'
<1>1. CASE attempts' = attempts
  <2>1. NoEarlyAttempt'
    BY <1>1 DEF AttemptsAreSound, NoEarlyAttempt, Shortened
  <2>2. ASSUME NEW r \in DOMAIN runs', NEW p \in Participants
        PROVE  LET mine == AttemptsOf(r, p)'
               IN  /\ {b.ordinal : b \in mine} = 1..Cardinality(mine)
                   /\ Cardinality(mine) <= MaxAttempts
                   /\ Cardinality({b.submission_id : b \in mine}) = Cardinality(mine)
    <3>1. AttemptsOf(r, p)' = AttemptsOf(r, p)
      BY <1>1 DEF AttemptsOf
    <3>2. CASE r \in DOMAIN runs
      BY <3>1, <3>2 DEF AttemptsAreSound, AttemptsAreNumbered
    <3>3. CASE r \notin DOMAIN runs
      <4>1. AttemptsOf(r, p)' = {}
        BY <3>1, <3>3 DEF AttemptsAreSound, NoEarlyAttempt, AttemptsOf
      <4>2. Cardinality({}) = 0 /\ 1..0 = {} /\ 0 <= MaxAttempts
        BY FS_EmptySet, NumbersAssumption
      <4> QED
        BY <4>1, <4>2
    <3> QED
      BY <3>2, <3>3
  <2> QED
    BY <2>1, <2>2 DEF AttemptsAreSound, AttemptsAreNumbered
<1>2. CASE \E a \in AnswerCalls : AnswerStored(a)
  BY <1>2, StoredAttempts
<1> QED
  BY <1>1, <1>2, OnlyStoredAdds
-----------------------------------------------------------------------------
(* The log of commands.                                                    *)

\* What an automatic transition with this identifier left behind for good.
Past(id) ==
  LET r == id.run
  IN  /\ id.kind \in {"auto_start_answering", "auto_start_delivery",
                      "auto_finalize_question", "auto_next_question"} => r \in DOMAIN runs
      /\ id.kind = "auto_start_answering" /\ r = session.current_run =>
           session.phase # "reading"
      /\ id.kind = "auto_start_delivery" /\ r = session.current_run =>
           session.phase \notin {"reading", "answering"}
      /\ id.kind = "auto_finalize_question" => Finalized(runs[r])
      /\ id.kind = "auto_finish_session" => session.status = "finished"

PastIds ==
  \A k \in commands :
    \/ k.command_id \in CommandIds
    \/ k.command_id \in AutomaticIds /\ Past(k.command_id)

LogInv == PastIds /\ RevisionsAreLogged

\* A transition never comes back to what a run or a session has left.
LEMMA Onward ==
  ASSUME IndInv, Held, PhasesFit, NEW now \in 0..clock, TimelyTransition(now)
  PROVE  /\ session.status # "finished"
         /\ session'.current_run \in DOMAIN runs =>
              /\ session'.current_run = session.current_run
              /\ session'.phase = "reading" => session.phase = "reading"
              /\ session'.phase = "answering" => session.phase \in {"reading", "answering"}
<1>1. /\ now \in Time /\ session.status \in Statuses /\ session.phase \in Phases
      /\ RowsInv /\ runs \in Seq(RunRow)
  BY DEF IndInv, RowsInv, StateTypes, SessionRow, Time
<1>2. CASE CanStartSession /\ StartSession
  <2>1. session'.current_run = session.current_run /\ session'.phase = session.phase
    BY <1>1, <1>2, SessionEffect DEF Statuses
  <2> QED
    BY <1>2, <2>1 DEF CanStartSession
<1>3. CASE MayOpen /\ StartQuestion(now)
  <2>1. session'.current_run = Len(runs) + 1
    BY <1>1, <1>3, OpenEffect
  <2> QED
    BY <1>1, <1>3, <2>1 DEF MayOpen
<1>4. CASE \E status \in {"finished", "aborted"} : MayEnd(status) /\ FinishSession(now, status)
  <2>1. session'.current_run = 0
    BY <1>1, <1>4, EndEffect
  <2> QED
    BY <1>1, <1>4, <2>1 DEF MayEnd
<1>5. CASE session.current_run # 0
  <2>1. session.status = "live"
    BY <1>1, <1>5, CurrentRunExists DEF RowsInv
  <2>2. CASE FinalizeDue(CurrentRun, now) /\ Finalize(now)
    <3>1. session'.current_run = session.current_run /\ session'.phase = "results"
      BY <1>1, <1>5, <2>2, RevealEffect DEF Rewritten
    <3> QED
      BY <2>1, <3>1
  <2>3. CASE ReadingOver(session, CurrentRun, now) /\ StartAnswering
    <3>1. session'.current_run = session.current_run /\ session'.phase = "answering"
      BY <1>1, <1>5, <2>3, SessionEffect DEF Phases
    <3> QED
      BY <2>1, <2>3, <3>1 DEF ReadingOver
  <2>4. CASE AnsweringOver(session, CurrentRun, now) /\ StartDelivery
    <3>1. session'.current_run = session.current_run /\ session'.phase = "delivery"
      BY <1>1, <1>5, <2>4, SessionEffect DEF Phases
    <3> QED
      BY <2>1, <3>1
  <2>5. CASE CanEndQuestion(now) /\ EndQuestion(now)
    <3>1. session'.current_run = session.current_run /\ session'.phase = "delivery"
      BY <1>1, <2>5, CloseEffect DEF Rewritten
    <3> QED
      BY <2>1, <3>1
  <2> QED
    BY <1>2, <1>3, <1>4, <2>2, <2>3, <2>4, <2>5 DEF TimelyTransition
<1>6. CASE CanEndQuestion(now)
  BY <1>5, <1>6 DEF CanEndQuestion
<1> QED
  BY <1>2, <1>3, <1>4, <1>5, <1>6 DEF TimelyTransition

\* Every transition raises the revision by one.
LEMMA TransitionsCount ==
  ASSUME StateTypes, NEW now, TimelyTransition(now)
  PROVE  session'.state_revision = session.state_revision + 1
<1>1. session \in SessionRow
  BY DEF StateTypes
<1>2. CASE StartSession
  BY <1>1, <1>2 DEF StartSession, SaveSession, SessionRow
<1>3. CASE StartQuestion(now)
  BY <1>1, <1>3 DEF StartQuestion, SaveSession, SessionRow
<1>4. CASE EndQuestion(now)
  BY <1>1, <1>4 DEF EndQuestion, SaveSession, SessionRow
<1>5. CASE Finalize(now)
  BY <1>1, <1>5 DEF Finalize, SaveSession, SessionRow
<1>6. CASE StartAnswering \/ StartDelivery
  BY <1>1, <1>6 DEF StartAnswering, StartDelivery, SaveSession, SessionRow
<1>7. CASE \E status : FinishSession(now, status)
  BY <1>1, <1>7 DEF FinishSession, SaveSession, SessionRow
<1> QED
  BY <1>2, <1>3, <1>4, <1>5, <1>6, <1>7 DEF TimelyTransition

\* What is past stays past.
LEMMA PastStays ==
  ASSUME IndInv, Held, PhasesFit, Shortened, NEW now \in 0..clock, TimelyTransition(now),
         NEW id, Past(id)
  PROVE  Past(id)'
<1>1. \A r \in DOMAIN runs : r \in DOMAIN runs' /\ (Finalized(runs[r]) => Finalized(runs'[r]))
  BY DEF Shortened
<1>2. /\ session.status # "finished"
      /\ session'.current_run \in DOMAIN runs =>
           /\ session'.current_run = session.current_run
           /\ session'.phase = "reading" => session.phase = "reading"
           /\ session'.phase = "answering" => session.phase \in {"reading", "answering"}
  BY Onward
<1> QED
  BY <1>1, <1>2 DEF Past

\* The identifier of an automatic transition is new, and past once it is done.
LEMMA AutomaticIdIsNew ==
  ASSUME IndInv, Held, PhasesFit, Shortened, NEW now \in 0..clock,
         session.current_run # 0, AutomaticTransition(now)
  PROVE  \E kind \in AutoKinds, boundary \in Time, id \in AutomaticIds :
           /\ id = [run |-> session'.current_run, kind |-> kind, boundary |-> boundary]
           /\ LogAutomatic(kind, boundary)
           /\ ~Past(id) /\ Past(id)'
<1>0. PICK i : i = session.current_run
  OBVIOUS
<1>1. /\ now \in Time /\ RowsInv /\ runs \in Seq(RunRow) /\ session.status = "live"
      /\ i \in DOMAIN runs /\ CurrentRun = runs[i] /\ i \in Refs /\ 0 \in Refs
      /\ session.status \in Statuses /\ session \in SessionRow
  BY <1>0, CurrentRunExists, NumbersAssumption
     DEF IndInv, RowsInv, StateTypes, Time, SessionRow, Refs
<1>2. /\ runs[i] \in RunRow /\ runs[i].delivery_deadline_at \in Time
      /\ runs[i].reading_ends_at \in Time /\ runs[i].answer_deadline_at \in Time
  BY <1>1, RowTypes DEF RowsInv, Time
<1>3. i \in DOMAIN runs'
  BY <1>1 DEF Shortened
<1>4. ASSUME NEW kind \in AutoKinds, NEW boundary \in Time, NEW r \in Refs,
             r = session'.current_run, LogAutomatic(kind, boundary),
             \A id : id.run = r /\ id.kind = kind => ~Past(id) /\ Past(id)'
      PROVE  \E knd \in AutoKinds, bnd \in Time, id \in AutomaticIds :
               /\ id = [run |-> session'.current_run, kind |-> knd, boundary |-> bnd]
               /\ LogAutomatic(knd, bnd)
               /\ ~Past(id) /\ Past(id)'
  <2> DEFINE x == [run |-> r, kind |-> kind, boundary |-> boundary]
  <2>1. x \in AutomaticIds /\ x.run = r /\ x.kind = kind
    BY <1>4 DEF AutomaticIds
  <2>2. x = [run |-> session'.current_run, kind |-> kind, boundary |-> boundary]
    BY <1>4
  <2> HIDE DEF x
  <2> QED
    BY <1>4, <2>1, <2>2
<1>5. CASE FinalizeDue(CurrentRun, now) /\ Finalize(now)
           /\ LogAutomatic("auto_finalize_question", runs[i].delivery_deadline_at)
  <2>1. session'.current_run = i /\ Finalized(runs'[i]) /\ ~Finalized(runs[i])
    BY <1>0, <1>1, <1>5, RevealEffect DEF Rewritten
  <2>2. "auto_finalize_question" \in AutoKinds
    BY DEF AutoKinds
  <2>3. \A id : id.run = i /\ id.kind = "auto_finalize_question" => ~Past(id) /\ Past(id)'
    BY <1>3, <2>1 DEF Past
  <2> QED
    BY <1>1, <1>2, <1>4, <1>5, <2>1, <2>2, <2>3
<1>6. CASE ReadingOver(session, CurrentRun, now) /\ StartAnswering
           /\ LogAutomatic("auto_start_answering", runs[i].reading_ends_at)
  <2>1. session'.current_run = i /\ session'.phase = "answering" /\ session.phase = "reading"
    BY <1>0, <1>1, <1>6, SessionEffect DEF Phases, ReadingOver
  <2>2. "auto_start_answering" \in AutoKinds
    BY DEF AutoKinds
  <2>3. \A id : id.run = i /\ id.kind = "auto_start_answering" => ~Past(id) /\ Past(id)'
    BY <1>0, <1>3, <2>1 DEF Past
  <2> QED
    BY <1>1, <1>2, <1>4, <1>6, <2>1, <2>2, <2>3
<1>7. CASE AnsweringOver(session, CurrentRun, now) /\ StartDelivery
           /\ LogAutomatic("auto_start_delivery", runs[i].answer_deadline_at)
  <2>1. session'.current_run = i /\ session'.phase = "delivery" /\ session.phase = "answering"
    BY <1>0, <1>1, <1>7, SessionEffect DEF Phases, AnsweringOver
  <2>2. "auto_start_delivery" \in AutoKinds
    BY DEF AutoKinds
  <2>3. \A id : id.run = i /\ id.kind = "auto_start_delivery" => ~Past(id) /\ Past(id)'
    BY <1>0, <1>3, <2>1 DEF Past
  <2> QED
    BY <1>1, <1>2, <1>4, <1>7, <2>1, <2>2, <2>3
<1>8. ResultsOver(session, CurrentRun, now) => runs[i].results_ends_at \in Time
  BY <1>1, <1>2 DEF ResultsOver, RunRow, OptTime
<1>9. CASE ResultsOver(session, CurrentRun, now) /\ HasNextQuestion(session)
           /\ StartQuestion(now) /\ LogAutomatic("auto_next_question", runs[i].results_ends_at)
  <2>0. PICK n : n = Len(runs) + 1
    OBVIOUS
  <2>1. /\ session'.current_run = n /\ n \in DOMAIN runs' /\ n \notin DOMAIN runs
        /\ n \in Refs
    <3>1. MayOpen
      BY <1>1, <1>9 DEF MayOpen, ResultsOver
    <3>2. /\ session'.current_run = n /\ DOMAIN runs' = DOMAIN runs \cup {n}
          /\ n <= NumQuestions
      BY <1>1, <2>0, <3>1, <1>9, OpenEffect
    <3> QED
      BY <1>1, <2>0, <3>2, NumbersAssumption DEF Refs
  <2>2. "auto_next_question" \in AutoKinds
    BY DEF AutoKinds
  <2>3. \A id : id.run = n /\ id.kind = "auto_next_question" => ~Past(id) /\ Past(id)'
    BY <2>1 DEF Past
  <2> QED
    BY <1>4, <1>8, <1>9, <2>1, <2>2, <2>3
<1>10. CASE ResultsOver(session, CurrentRun, now) /\ FinishSession(now, "finished")
            /\ LogAutomatic("auto_finish_session", runs[i].results_ends_at)
  <2>1. session'.current_run = 0 /\ session'.status = "finished"
    BY <1>1, <1>10, EndEffect
  <2>2. "auto_finish_session" \in AutoKinds
    BY DEF AutoKinds
  <2>3. \A id : id.run = 0 /\ id.kind = "auto_finish_session" => ~Past(id) /\ Past(id)'
    BY <1>1, <2>1 DEF Past
  <2> QED
    BY <1>1, <1>4, <1>8, <1>10, <2>1, <2>2, <2>3
<1> QED
  BY <1>1, <1>5, <1>6, <1>7, <1>9, <1>10 DEF AutomaticTransition

\* A command with a new identifier is logged under the revision it made.
LEMMA LogStep ==
  ASSUME StateTypes, RevisionsAreLogged, NEW id, NEW facts, LogCommand(id, facts),
         facts.state_revision = session.state_revision,
         session'.state_revision = session.state_revision + 1,
         \A k \in commands : k.command_id # id
  PROVE  RevisionsAreLogged'
<1>0. PICK row :
        /\ commands' = commands \cup {row} /\ row.command_id = id
        /\ row.expected_revision = session.state_revision
        /\ row.applied_revision = session.state_revision + 1
  <2> DEFINE new == [command_id |-> id, kind |-> facts.kind,
                     expected_revision |-> facts.state_revision, payload_digest |-> facts,
                     applied_revision |-> session'.state_revision,
                     response |-> BasicState(session', RunOf(session', runs'))]
  <2>1. /\ new.command_id = id /\ new.expected_revision = session.state_revision
        /\ new.applied_revision = session.state_revision + 1
    OBVIOUS
  <2>2. commands' = commands \cup {new}
    BY DEF LogCommand
  <2> HIDE DEF new
  <2> QED
    BY <2>1, <2>2
<1>1. PICK n : n = session.state_revision
  OBVIOUS
<1>2. n \in Nat
  BY <1>1 DEF StateTypes, SessionRow
<1>3. {k.applied_revision : k \in commands} = 1..n
  BY <1>1 DEF RevisionsAreLogged
<1>4. {k.applied_revision : k \in commands'} = (1..n) \cup {n + 1}
  BY <1>0, <1>1, <1>3
<1>5. (1..n) \cup {n + 1} = 1..(n + 1)
  BY <1>2
<1>6. \A k \in commands : k.applied_revision # row.applied_revision
  <2>1. \A k \in commands : k.applied_revision \in 1..n
    BY <1>3
  <2> QED
    BY <1>0, <1>1, <1>2, <2>1
<1>7. \A k, l \in commands' :
        \/ k = l
        \/ /\ k.command_id # l.command_id
           /\ k.applied_revision # l.applied_revision
  BY <1>0, <1>6 DEF RevisionsAreLogged
<1>8. \A k \in commands' : k.applied_revision = k.expected_revision + 1
  BY <1>0 DEF RevisionsAreLogged
<1> QED
  BY <1>1, <1>4, <1>5, <1>7, <1>8 DEF RevisionsAreLogged

\* Every step keeps the log: its identifiers are new, one per revision.
LEMMA NextLog ==
  ASSUME IndInv, Held, PhasesFit, RunTimes, SessionTimes, CommandsReady, LogInv, Shortened,
         [Next]_vars
  PROVE  LogInv'
<1>1. CASE UNCHANGED <<session, runs, commands>>
  BY <1>1 DEF LogInv, PastIds, Past, RevisionsAreLogged
<1>2. StateTypes
  BY DEF IndInv, RowsInv
<1>3. ASSUME NEW w \in Workers, AdvanceCommit(w)
      PROVE  LogInv'
  <2>0. PICK now : now = work[w].now
    OBVIOUS
  <2>1. CASE UNCHANGED <<session, runs, finals, commands>>
    BY <1>1, <2>1
  <2>2. CASE /\ session.current_run # 0 /\ now \in 0..clock
             /\ AutomaticTransition(now) /\ TimelyTransition(now)
    <3>1. PICK kind \in AutoKinds, boundary \in Time, id \in AutomaticIds :
            /\ id = [run |-> session'.current_run, kind |-> kind, boundary |-> boundary]
            /\ LogAutomatic(kind, boundary)
            /\ ~Past(id) /\ Past(id)'
      BY <2>2, AutomaticIdIsNew
    <3>2. LogCommand(id, AutoFacts(kind, boundary))
      BY <3>1 DEF LogAutomatic
    <3>3. AutoFacts(kind, boundary).state_revision = session.state_revision
      BY DEF AutoFacts
    <3>4. \A k \in commands : k.command_id # id
      BY <3>1, IdentifiersAssumption DEF LogInv, PastIds
    <3>5. session'.state_revision = session.state_revision + 1
      BY <1>2, <2>2, TransitionsCount
    <3>6. RevisionsAreLogged'
      BY <1>2, <3>2, <3>3, <3>4, <3>5, LogStep DEF LogInv
    <3>7. \A k \in commands' : k \in commands \/ k.command_id = id
      BY <3>2 DEF LogCommand
    <3>8. \A k \in commands : Past(k.command_id) => Past(k.command_id)'
      BY <2>2, PastStays
    <3>9. PastIds'
      BY <3>1, <3>7, <3>8 DEF LogInv, PastIds
    <3> QED
      BY <3>6, <3>9 DEF LogInv
  <2> QED
    BY <1>3, <2>0, <2>1, <2>2, WorkersTimely
<1>4. ASSUME NEW c \in CommandCalls, CommandCommits(c)
      PROVE  LogInv'
  <2>0. PICK now : now = call[c].now
    OBVIOUS
  <2>1. now \in 0..clock /\ TimelyTransition(now)
    BY <1>4, <2>0, CommandsTimely
  <2>2. /\ LogCommand(CommandIdOf(c), call[c].facts)
        /\ call[c].facts.state_revision = session.state_revision
        /\ \A k \in commands : k.command_id # CommandIdOf(c)
    BY <1>4 DEF CommandCommits, CommandsReady, Earlier
  <2>3. session'.state_revision = session.state_revision + 1
    BY <1>2, <2>1, TransitionsCount
  <2>4. RevisionsAreLogged'
    BY <1>2, <2>2, <2>3, LogStep DEF LogInv
  <2>5. \A k \in commands' : k \in commands \/ k.command_id = CommandIdOf(c)
    BY <2>2 DEF LogCommand
  <2>6. \A k \in commands : Past(k.command_id) => Past(k.command_id)'
    BY <2>1, PastStays
  <2>7. CommandIdOf(c) \in CommandIds
    BY RequestsAssumption
  <2>8. PastIds'
    BY <2>5, <2>6, <2>7 DEF LogInv, PastIds
  <2> QED
    BY <2>4, <2>8 DEF LogInv
<1> QED
  BY <1>1, <1>3, <1>4, WhoWrites DEF Commit
-----------------------------------------------------------------------------
\* The inductive invariant of this module, relative to the earlier ones.
RecordInv ==
  /\ RunTimes /\ SessionTimes
  /\ LocksHeld /\ CommandsReady
  /\ PressTimes /\ AttemptsAreSound
  /\ LogInv

\* In the first state nothing is recorded.
LEMMA InitRecord ==
  ASSUME Init
  PROVE  RecordInv
<1>1. Len(runs) = 0 /\ DOMAIN runs = {}
  BY DEF Init
<1>2. RunTimes /\ AttemptsAreSound
  BY <1>1 DEF Init, RunTimes, AttemptsAreSound, AttemptsAreNumbered, NoEarlyAttempt
<1>3. SessionTimes
  BY DEF Init, NewSession, SessionTimes, SessionFits
<1>4. LocksHeld /\ CommandsReady /\ PressTimes
  BY DEF Init, LocksHeld, CommandsReady, PressTimes, PressFits, IdleWorker, IdleCall,
         NoAnswer, Sharing
<1>5. LogInv
  <2>1. commands = {} /\ session.state_revision = 0 /\ 1..0 = {}
    BY DEF Init, NewSession
  <2>2. {k.applied_revision : k \in commands} = {}
    BY <2>1
  <2> QED
    BY <2>1, <2>2 DEF LogInv, PastIds, RevisionsAreLogged
<1> QED
  BY <1>2, <1>3, <1>4, <1>5 DEF RecordInv

\* Every step keeps it, shortens deadlines only and starts phases in order.
LEMMA NextRecord ==
  ASSUME IndInv, Held, GameInv, RecordInv, [Next]_vars
  PROVE  RecordInv' /\ Shortened /\ (session' # session => Later)
<1>1. PhasesFit
  BY DEF GameInv
<1>2. RunTimes' /\ SessionTimes' /\ Shortened /\ (session' # session => Later)
  BY <1>1, NextTimes DEF RecordInv
<1>3. LocksHeld'
  BY NextLocks DEF RecordInv
<1>4. CommandsReady'
  BY <1>3, NextCommandsReady DEF RecordInv
<1>5. PressTimes'
  BY <1>1, <1>2, NextPressTimes DEF RecordInv
<1>6. AttemptsAreSound'
  BY <1>2, NextAttempts DEF RecordInv
<1>7. LogInv'
  BY <1>1, <1>2, NextLog DEF RecordInv
<1> QED
  BY <1>2, <1>3, <1>4, <1>5, <1>6, <1>7 DEF RecordInv

\* RecordInv holds in every reachable state.
LEMMA RecordInvAlways == Spec => []RecordInv
<1>1. Init => RecordInv
  BY InitRecord
<1>2. IndInv /\ Held /\ GameInv /\ RecordInv /\ [Next]_vars => RecordInv'
  BY NextRecord
<1> QED
  BY <1>1, <1>2, Invariance, HeldAlways, GameInvAlways, PTL DEF Spec

\* The deadlines of every run obey the check constraints of SessionQuestionRun,
\* also the ones an early end writes with a time taken under the session's lock.
THEOREM DeadlinesStayOrdered == Spec => []DeadlinesAreOrdered
<1>1. IndInv /\ RunTimes => DeadlinesAreOrdered
  <2> SUFFICES ASSUME IndInv, RunTimes PROVE DeadlinesAreOrdered
    OBVIOUS
  <2>1. \A r \in DOMAIN runs :
          /\ RunFits(runs[r], clock)
          /\ runs[r].reading_ends_at \in Nat /\ runs[r].answering_started_at \in Nat
    BY RowTypes DEF RunTimes, IndInv, RowsInv
  <2> QED
    BY <2>1 DEF DeadlinesAreOrdered, RunFits
<1> QED
  BY <1>1, RecordInvAlways, Invariance, PTL DEF RecordInv

\* No step extends a deadline, or touches a run that is finalized: a worker with
\* a stale time, an early end, a repeat or a recovery.
THEOREM DeadlinesNeverGrow == Spec => DeadlinesOnlyShorten
<1>1. IndInv /\ Held /\ GameInv /\ RecordInv /\ [Next]_vars => [Shortened]_vars
  BY NextRecord
<1> QED
  BY <1>1, RecordInvAlways, Invariance, HeldAlways, GameInvAlways, PTL
     DEF Spec, DeadlinesOnlyShorten, Shortened

\* Phases start one after another and not in the future, though a worker takes
\* the time it writes before it waits for the locks.
THEOREM PhasesAreInOrder == Spec => PhasesStartInOrder
<1>1. IndInv /\ Held /\ GameInv /\ RecordInv /\ [Next]_vars
      => [session' # session => Later]_vars
  BY NextRecord
<1> QED
  BY <1>1, RecordInvAlways, Invariance, HeldAlways, GameInvAlways, PTL
     DEF Spec, PhasesStartInOrder, Later

\* Overlapping and repeated requests leave attempts without gaps in their
\* numbers, within the limit, and none from before the answers were opened.
THEOREM AttemptsStaySound == Spec => []AttemptsAreSound
BY RecordInvAlways, PTL DEF RecordInv

\* Every revision has one row in the log, with an identifier of its own: neither
\* a repeat nor a second worker can make a transition twice.
THEOREM RevisionsStayLogged == Spec => []RevisionsAreLogged
BY RecordInvAlways, PTL DEF RecordInv, LogInv
=============================================================================
