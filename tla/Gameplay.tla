------------------------------- MODULE Gameplay -------------------------------
(***************************************************************************)
(* One live session of a quiz: its state machine, the transactions that    *)
(* drive it and the row locks that serialise them (backend/apps/session/   *)
(* gameplay.py over PostgreSQL READ COMMITTED).                            *)
(*                                                                         *)
(* Three kinds of processes share the rows of the session.                 *)
(*   - Workers run advance_one_transition: Celery beat and every read of   *)
(*     the state.  They read, take the time, and only then wait for locks. *)
(*   - CommandCalls are HTTP requests of the teacher                       *)
(*     (execute_manual_command).                                           *)
(*   - AnswerCalls are HTTP requests of participants                       *)
(*     (record_answer_attempt).                                            *)
(*                                                                         *)
(* Row locks.  The session row's FOR UPDATE lock is the variable           *)
(* session_lock.  The FOR SHARE locks on a run row are the answer calls    *)
(* whose pc is in Sharing.  The FOR UPDATE lock on a run row and on a      *)
(* participant row is held from the action that needs it to the commit;    *)
(* nothing else happens in the transaction after that which another        *)
(* process could see, so acquisition, the rest of the body and the commit  *)
(* are one action, enabled when nobody holds the row in a mode that        *)
(* conflicts.                                                              *)
(*                                                                         *)
(* One session runs each question once, so question and run k coincide in  *)
(* number; both columns are kept.  started_at, finished_at,                *)
(* question_started_at and reading_started_at are copies of other columns  *)
(* that no transition reads and are left out.                              *)
(***************************************************************************)
EXTENDS FinalSelection, Sequences, FiniteSets

CONSTANTS
  Participants,    \* people who may join
  Choices,         \* variants of a question
  CorrectChoices,  \* the variants marked is_correct
  Submissions,     \* submission_id values
  CommandIds,      \* command_id values
  Workers,
  CommandCalls,    \* bound: the command requests of a behaviour, each sent once
  AnswerCalls,     \* bound: the answer requests of a behaviour, each sent once
  CommandIdOf(_),  \* the command_id of a command request
  KindOf(_),       \* the kind of a command request
  NumQuestions,    \* questions of the fixed quiz version
  ReadingTime,     \* quiz_version.reading_time_sec
  AnswerTime,      \* question.time_limit_sec
  DeliveryWindow,  \* DELIVERY_WINDOW_SECONDS, 3 in the code
  ResultsTime,     \* quiz_version.results_time_sec
  MaxAttempts,     \* attempts kept per participant and run, 20 in the code
  Slack,           \* bound: how far the clock may run past the last deadline
  Null             \* no row: a lock nobody holds, an unset column

ManualKinds ==
  {"start_session", "start_quiz", "end_question", "next_question", "abort_session"}

ASSUME NumbersAssumption ==
  /\ NumQuestions \in Nat
  /\ ReadingTime \in Nat
  /\ AnswerTime \in Nat
  /\ DeliveryWindow \in Nat
  /\ ResultsTime \in Nat
  /\ MaxAttempts \in Nat
  /\ Slack \in Nat

ASSUME RequestsAssumption ==
  \A c \in CommandCalls : CommandIdOf(c) \in CommandIds /\ KindOf(c) \in ManualKinds

ASSUME NullAssumption == Null \notin Workers \cup CommandCalls

\* A transaction is the one of a worker or the one of a request.
ASSUME ProcessesAssumption == Workers \cap CommandCalls = {}

VARIABLES
  clock,         \* clock_timestamp() of the database
  session,       \* the LiveSession row
  runs,          \* SessionQuestionRun rows, run k at position k
  joined,        \* SessionParticipant rows
  attempts,      \* AnswerAttempt rows
  finals,        \* FinalAnswer rows
  commands,      \* SessionCommand rows
  session_lock,  \* holder of FOR UPDATE on the session row
  work,          \* Workers -> local state
  call,          \* CommandCalls -> local state
  answer         \* AnswerCalls -> local state

rows == <<session, runs, joined, attempts, finals, commands>>
procs == <<work, call, answer>>
vars == <<clock, session, runs, joined, attempts, finals, commands,
          session_lock, work, call, answer>>
-----------------------------------------------------------------------------
Statuses == {"waiting", "live", "finished", "aborted"}
Phases == {"lobby", "reading", "answering", "delivery", "results", "final"}
AnswerPhases_Bug == {"reading", "answering", "delivery", "results"}
AnswerPhases == {"answering", "delivery", "results"}
AutoKinds ==
  {"auto_start_answering", "auto_start_delivery", "auto_finalize_question",
   "auto_next_question", "auto_finish_session"}

Time == Nat
None == -1          \* NULL in a column of time
OptTime == Time \cup {None}
Refs == 0..NumQuestions   \* a reference to a run or a question, 0 is NULL

\* What the uuid5 of an automatic transition is made of.  It never is the
\* identifier of a request: those are UUIDs of version 4 (newRequestId).
AutomaticIds == [run : Refs, kind : AutoKinds, boundary : Time]

ASSUME IdentifiersAssumption == CommandIds \cap AutomaticIds = {}

SessionRow ==
  [status : Statuses, phase : Phases, state_revision : Nat,
   current_question : Refs, current_run : Refs,
   revealed_question_id : Refs, phase_started_at : Time]

RunRow ==
  [question : Refs, reading_ends_at : Time, answering_started_at : Time,
   planned_answer_deadline_at : Time, answer_deadline_at : Time,
   delivery_deadline_at : Time, finalized_at : OptTime,
   results_ends_at : OptTime]

\* The columns of an outer join that found no run.
NoRun ==
  [question |-> 0, reading_ends_at |-> None, answering_started_at |-> None,
   planned_answer_deadline_at |-> None, answer_deadline_at |-> None,
   delivery_deadline_at |-> None, finalized_at |-> None,
   results_ends_at |-> None]

NewSession ==
  [status |-> "waiting", phase |-> "lobby", state_revision |-> 0,
   current_question |-> 0, current_run |-> 0,
   revealed_question_id |-> 0, phase_started_at |-> 0]

RunOf(s, rs) == IF s.current_run \in DOMAIN rs THEN rs[s.current_run] ELSE NoRun

Finalized(run) == run.finalized_at # None

HasNextQuestion_Bug(s) == s.current_question <= NumQuestions
HasNextQuestion(s) == s.current_question < NumQuestions

\* The technical facts every command answers with.
BasicState(s, run) ==
  [status |-> s.status, phase |-> s.phase, state_revision |-> s.state_revision,
   question_id |-> s.current_question, question_run_id |-> s.current_run,
   reading_ends_at |-> run.reading_ends_at,
   answer_deadline_at |-> run.answer_deadline_at,
   delivery_deadline_at |-> run.delivery_deadline_at,
   results_ends_at |-> run.results_ends_at]

BasicStates ==
  [status : Statuses, phase : Phases, state_revision : Nat,
   question_id : Refs, question_run_id : Refs, reading_ends_at : OptTime,
   answer_deadline_at : OptTime, delivery_deadline_at : OptTime,
   results_ends_at : OptTime]
-----------------------------------------------------------------------------
(* The rules of the clock. *)

FinalizeDue_Bug(run, now) ==
  ~Finalized(run) /\ now >= run.delivery_deadline_at
FinalizeDue(run, now) ==
  ~Finalized(run) /\ now > run.delivery_deadline_at

ReadingOver_Bug(s, run, now) == s.phase = "reading"
ReadingOver(s, run, now) == s.phase = "reading" /\ now >= run.reading_ends_at

AnsweringOver(s, run, now) ==
  s.phase = "answering" /\ now >= run.answer_deadline_at

ResultsOver_Bug(s, run, now) ==
  /\ s.phase = "results"
  /\ run.results_ends_at # None
  /\ now >= run.results_ends_at
  /\ HasNextQuestion(s)
ResultsOver(s, run, now) ==
  /\ s.phase = "results"
  /\ run.results_ends_at # None
  /\ now >= run.results_ends_at

MayBeDue(s, run, now) ==
  /\ s.current_run # 0
  /\ \/ FinalizeDue(run, now)
     \/ ReadingOver(s, run, now)
     \/ AnsweringOver(s, run, now)
     \/ ResultsOver(s, run, now)

CurrentRun == RunOf(session, runs)

\* What one SELECT of the session joined with its run sees.
Snapshot == [session |-> session, run |-> CurrentRun]
Unread == [session |-> NewSession, run |-> NoRun]

\* Ticks stop a bounded distance past the last deadline that anyone waits for.
Horizon ==
  IF session.phase = "lobby" THEN Slack
  ELSE IF session.phase = "final" THEN session.phase_started_at
  ELSE IF Finalized(CurrentRun) THEN CurrentRun.results_ends_at + Slack
  ELSE CurrentRun.delivery_deadline_at + Slack

Tick ==
  /\ clock < Horizon
  /\ clock' = clock + 1
  /\ UNCHANGED <<rows, session_lock, procs>>
-----------------------------------------------------------------------------
(* The parts of a transition.  Each raises state_revision by one.          *)

SaveSession(new) == session' = [new EXCEPT !.state_revision = @ + 1]

StartQuestion(now) ==
  LET opens == now + ReadingTime
      ends == opens + AnswerTime
      question == session.current_question + 1
  IN  /\ runs' = Append(runs,
                   [question |-> question,
                    reading_ends_at |-> opens,
                    answering_started_at |-> opens,
                    planned_answer_deadline_at |-> ends,
                    answer_deadline_at |-> ends,
                    delivery_deadline_at |-> ends + DeliveryWindow,
                    finalized_at |-> None,
                    results_ends_at |-> None])
      /\ SaveSession([session EXCEPT !.current_question = question,
                                     !.current_run = Len(runs) + 1,
                                     !.revealed_question_id = 0,
                                     !.phase = "reading",
                                     !.phase_started_at = now])
      /\ UNCHANGED finals

FinishSession(now, status) ==
  /\ SaveSession([session EXCEPT !.status = status,
                                 !.phase = "final",
                                 !.current_question = 0,
                                 !.current_run = 0,
                                 !.revealed_question_id = 0,
                                 !.phase_started_at = now])
  /\ UNCHANGED <<runs, finals>>

TimelyAttempts(r, p) ==
  {a \in attempts : /\ a.run = r
                    /\ a.session_participant = p
                    /\ a.admitted_at <= runs[r].delivery_deadline_at}

FinalAnswer(r, p) ==
  LET S == TimelyAttempts(r, p)
      run == runs[r]
  IN  IF S = {}
      THEN [run |-> r, session_participant |-> p, outcome |-> "unanswered",
            selected_attempt |-> 0, timing_attempt |-> 0, is_correct |-> FALSE,
            actual_elapsed_ms |-> None, ranking_elapsed_ms |-> None]
      ELSE [run |-> r, session_participant |-> p, outcome |-> "answered",
            selected_attempt |-> SelectedAttempt(S).id,
            timing_attempt |-> TimingAttempt(S).id,
            is_correct |-> SelectedAttempt(S).choice \in CorrectChoices,
            actual_elapsed_ms |-> ActualElapsed(S, run.answering_started_at),
            ranking_elapsed_ms |->
              RankingElapsed(S, run.answering_started_at, run.answer_deadline_at)]

Finalize(now) ==
  LET r == session.current_run
  IN  /\ finals' = finals \cup {FinalAnswer(r, p) : p \in joined}
      /\ runs' = [runs EXCEPT ![r].finalized_at = now,
                              ![r].results_ends_at = now + ResultsTime]
      /\ SaveSession([session EXCEPT !.phase = "results",
                                     !.revealed_question_id = runs[r].question,
                                     !.phase_started_at = now])

StartAnswering ==
  /\ SaveSession([session EXCEPT !.phase = "answering",
                                 !.phase_started_at = CurrentRun.answering_started_at])
  /\ UNCHANGED <<runs, finals>>

StartDelivery ==
  /\ SaveSession([session EXCEPT !.phase = "delivery",
                                 !.phase_started_at = CurrentRun.answer_deadline_at])
  /\ UNCHANGED <<runs, finals>>

\* A transition's SessionCommand row.  facts is what payload_digest stands for.
LogCommand(id, facts) ==
  commands' = commands \cup
    {[command_id |-> id, kind |-> facts.kind,
      expected_revision |-> facts.state_revision, payload_digest |-> facts,
      applied_revision |-> session'.state_revision,
      response |-> BasicState(session', RunOf(session', runs'))]}
-----------------------------------------------------------------------------
(* Row locks. *)

Sharing == {"shared", "admitted", "checked"}

\* FOR UPDATE on the current run waits for every FOR SHARE holder.
CurrentRunUnshared_Bug == TRUE
CurrentRunUnshared ==
  \A a \in AnswerCalls : answer[a].pc \in Sharing
                           => answer[a].run # session.current_run

LockSession(who) == session_lock = Null /\ session_lock' = who
UnlockSession(who) == session_lock = who /\ session_lock' = Null
-----------------------------------------------------------------------------
(* advance_one_transition *)

IdleWorker == [pc |-> "idle", now |-> None, seen |-> Unread]

AdvanceRead(w) ==
  /\ work[w].pc = "idle"
  /\ session.status = "live"
  /\ work' = [work EXCEPT ![w] = [pc |-> "read", now |-> None, seen |-> Snapshot]]
  /\ UNCHANGED <<clock, rows, session_lock, call, answer>>

\* The time is taken here, before any lock, and used after every wait.
AdvancePreflight(w) ==
  /\ work[w].pc = "read"
  /\ work' = [work EXCEPT ![w] =
                IF MayBeDue(work[w].seen.session, work[w].seen.run, clock)
                THEN [pc |-> "due", now |-> clock, seen |-> Unread]
                ELSE IdleWorker]
  /\ UNCHANGED <<clock, rows, session_lock, call, answer>>

AdvanceLock(w) ==
  /\ work[w].pc = "due"
  /\ session_lock = Null
  /\ IF session.status = "live"
     THEN /\ LockSession(w)
          /\ work' = [work EXCEPT ![w].pc = "locked"]
     ELSE /\ work' = [work EXCEPT ![w] = IdleWorker]
          /\ UNCHANGED session_lock
  /\ UNCHANGED <<clock, rows, call, answer>>

AutoFacts(kind, boundary) ==
  [kind |-> kind, state_revision |-> session.state_revision, phase |-> "none",
   question_run_id |-> session.current_run, boundary |-> boundary]

LogAutomatic_Bug(kind, boundary) ==
  LogCommand([run |-> 0, kind |-> kind, boundary |-> 0], AutoFacts(kind, boundary))

\* uuid5 of the session, its run after the transition, the kind, the boundary.
LogAutomatic(kind, boundary) ==
  LogCommand([run |-> session'.current_run, kind |-> kind, boundary |-> boundary],
             AutoFacts(kind, boundary))

AutomaticTransition(now) ==
  LET run == CurrentRun
  IN  \/ /\ FinalizeDue(run, now)
         /\ Finalize(now)
         /\ LogAutomatic("auto_finalize_question", run.delivery_deadline_at)
      \/ /\ ~FinalizeDue(run, now)
         /\ ReadingOver(session, run, now)
         /\ StartAnswering
         /\ LogAutomatic("auto_start_answering", run.reading_ends_at)
      \/ /\ ~FinalizeDue(run, now)
         /\ AnsweringOver(session, run, now)
         /\ StartDelivery
         /\ LogAutomatic("auto_start_delivery", run.answer_deadline_at)
      \/ /\ ~FinalizeDue(run, now)
         /\ ResultsOver(session, run, now)
         /\ HasNextQuestion(session)
         /\ StartQuestion(now)
         /\ LogAutomatic("auto_next_question", run.results_ends_at)
      \/ /\ ~FinalizeDue(run, now)
         /\ ResultsOver(session, run, now)
         /\ ~HasNextQuestion(session)
         /\ FinishSession(now, "finished")
         /\ LogAutomatic("auto_finish_session", run.results_ends_at)

AdvanceCommit(w) ==
  /\ work[w].pc = "locked"
  /\ CurrentRunUnshared
  /\ IF MayBeDue(session, CurrentRun, work[w].now)
     THEN AutomaticTransition(work[w].now)
     ELSE UNCHANGED <<session, runs, finals, commands>>
  /\ UnlockSession(w)
  /\ work' = [work EXCEPT ![w] = IdleWorker]
  /\ UNCHANGED <<clock, joined, attempts, call, answer>>
-----------------------------------------------------------------------------
(* execute_manual_command *)

NoFacts == [kind |-> "none", state_revision |-> 0, phase |-> "lobby",
            question_run_id |-> 0, boundary |-> None]

UnreadRun == [current_run |-> 0, run |-> NoRun]

IdleCall == [pc |-> "idle", facts |-> NoFacts, now |-> None, seen |-> UnreadRun]

DoneCall == [IdleCall EXCEPT !.pc = "done"]

\* A client names a state it was shown: the first one or that of a command.
KnownStates ==
  {BasicState(NewSession, NoRun)} \cup {k.response : k \in commands}

\* The statement that will lock the session starts, with its snapshot.
CommandArrives(c) ==
  /\ call[c].pc = "idle"
  /\ \E known \in KnownStates :
       call' = [call EXCEPT ![c] =
                  [pc |-> "waiting",
                   facts |-> [kind |-> KindOf(c),
                              state_revision |-> known.state_revision,
                              phase |-> known.phase,
                              question_run_id |-> known.question_run_id,
                              boundary |-> None],
                   now |-> None,
                   seen |-> [current_run |-> session.current_run,
                             run |-> CurrentRun]]]
  /\ UNCHANGED <<clock, rows, session_lock, work, answer>>

Earlier_Bug(id) == {}
Earlier(id) == {k \in commands : k.command_id = id}

RepeatsExactly(c) ==
  \E k \in Earlier(CommandIdOf(c)) : k.payload_digest = call[c].facts

ContextIsCurrent(c) ==
  /\ session.state_revision = call[c].facts.state_revision
  /\ session.phase = call[c].facts.phase
  /\ session.current_run = call[c].facts.question_run_id

\* The lock is granted: a repeat is answered from the log, a request for
\* another state is refused, and only then is the time taken.
CommandLocks(c) ==
  /\ call[c].pc = "waiting"
  /\ session_lock = Null
  /\ \/ /\ RepeatsExactly(c)
        /\ call' = [call EXCEPT ![c] = DoneCall]
        /\ UNCHANGED session_lock
     \/ /\ ~RepeatsExactly(c)
        /\ Earlier(CommandIdOf(c)) # {} \/ ~ContextIsCurrent(c)
        /\ call' = [call EXCEPT ![c].pc = "refused"]
        /\ LockSession(c)
     \/ /\ Earlier(CommandIdOf(c)) = {}
        /\ ContextIsCurrent(c)
        /\ call' = [call EXCEPT ![c].pc = "locked", ![c].now = clock]
        /\ LockSession(c)
  /\ UNCHANGED <<clock, rows, work, answer>>

\* The 409 body.  PostgreSQL rechecks a locked row in its newest version but
\* joins it with the other tables' rows of the statement's snapshot, so the
\* run is the one read on arrival, or none when the session changed run.
ConflictState(c) ==
  BasicState(session, IF session.current_run = call[c].seen.current_run
                      THEN call[c].seen.run
                      ELSE NoRun)

CommandRefused(c) ==
  /\ call[c].pc = "refused"
  /\ UnlockSession(c)
  /\ call' = [call EXCEPT ![c] = DoneCall]
  /\ UNCHANGED <<clock, rows, work, answer>>

\* What _apply_transition requires of each kind of command.
CanStartSession == session.status = "waiting" /\ session.phase = "lobby"

CanStartQuiz ==
  session.status = "live" /\ session.phase = "lobby" /\ HasNextQuestion(session)

CanEndQuestion_Bug(now) ==
  /\ session.status = "live"
  /\ session.phase = "answering"
  /\ session.current_run # 0
  /\ ~Finalized(CurrentRun)
CanEndQuestion(now) ==
  /\ session.status = "live"
  /\ session.phase = "answering"
  /\ session.current_run # 0
  /\ ~Finalized(CurrentRun)
  /\ now < CurrentRun.planned_answer_deadline_at

CanOpenNext_Bug ==
  /\ session.status = "live"
  /\ session.phase \in {"delivery", "results"}
  /\ session.current_run # 0
  /\ HasNextQuestion(session)
CanOpenNext ==
  /\ session.status = "live"
  /\ session.phase = "results"
  /\ session.current_run # 0
  /\ Finalized(CurrentRun)
  /\ HasNextQuestion(session)

CanAbort_Bug == session.status # "aborted"
CanAbort == session.status \in {"waiting", "live"}

Applicable(kind, now) ==
  \/ kind = "start_session" /\ CanStartSession
  \/ kind = "start_quiz" /\ CanStartQuiz
  \/ kind = "end_question" /\ CanEndQuestion(now)
  \/ kind = "next_question" /\ CanOpenNext
  \/ kind = "abort_session" /\ CanAbort

StartSession ==
  /\ SaveSession([session EXCEPT !.status = "live"])
  /\ UNCHANGED <<runs, finals>>

EndQuestion_Bug(now) ==
  LET r == session.current_run
  IN  /\ runs' = [runs EXCEPT ![r].answer_deadline_at = now]
      /\ SaveSession([session EXCEPT !.phase = "delivery",
                                     !.phase_started_at = now])
      /\ UNCHANGED finals
EndQuestion(now) ==
  LET r == session.current_run
  IN  /\ runs' = [runs EXCEPT ![r].answer_deadline_at = now,
                              ![r].delivery_deadline_at = now + DeliveryWindow]
      /\ SaveSession([session EXCEPT !.phase = "delivery",
                                     !.phase_started_at = now])
      /\ UNCHANGED finals

ManualTransition(kind, now) ==
  \/ kind = "start_session" /\ StartSession
  \/ kind \in {"start_quiz", "next_question"} /\ StartQuestion(now)
  \/ kind = "end_question" /\ EndQuestion(now)
  \/ kind = "abort_session" /\ FinishSession(now, "aborted")

\* The commands whose first checks pass lock the current run next.
LocksRun(kind) ==
  /\ session.status = "live"
  /\ \/ kind = "end_question" /\ session.phase = "answering"
     \/ kind = "next_question" /\ session.phase = "results"
     \/ kind = "abort_session"

CommandCommits(c) ==
  LET kind == call[c].facts.kind
      now == call[c].now
  IN  /\ call[c].pc = "locked"
      /\ Applicable(kind, now)
      /\ LocksRun(kind) => CurrentRunUnshared
      /\ ManualTransition(kind, now)
      /\ LogCommand(CommandIdOf(c), call[c].facts)
      /\ UnlockSession(c)
      /\ call' = [call EXCEPT ![c] = DoneCall]
      /\ UNCHANGED <<clock, joined, attempts, work, answer>>

\* A command refused after it locked the run shows that run.
CommandRejected(c) ==
  LET kind == call[c].facts.kind
  IN  /\ call[c].pc = "locked"
      /\ ~Applicable(kind, call[c].now)
      /\ LocksRun(kind) => CurrentRunUnshared
      /\ call' = [call EXCEPT ![c].pc = "refused", ![c].now = None,
                              ![c].seen = IF LocksRun(kind)
                                          THEN [current_run |-> session.current_run,
                                                run |-> CurrentRun]
                                          ELSE @]
      /\ UNCHANGED <<clock, rows, session_lock, work, answer>>
-----------------------------------------------------------------------------
(* join_session *)

Join(p) ==
  /\ p \notin joined
  /\ session_lock = Null
  /\ session.status = "waiting"
  /\ joined' = joined \cup {p}
  /\ UNCHANGED <<clock, session, runs, attempts, finals, commands,
                 session_lock, procs>>
-----------------------------------------------------------------------------
(* record_answer_attempt *)

NoAnswer ==
  [pc |-> "idle", participant |-> Null, submission_id |-> Null, choice |-> Null,
   run |-> 0, admitted_at |-> None]

DoneAnswer == [NoAnswer EXCEPT !.pc = "done"]

\* The locking query starts: it sees an open question and waits for its run.
AnswerArrives(a) ==
  /\ answer[a].pc = "idle"
  /\ session.status = "live"
  /\ session.phase \in AnswerPhases
  /\ session.current_run # 0
  /\ \E p \in joined, s \in Submissions, ch \in Choices :
       answer' = [answer EXCEPT ![a] =
                    [pc |-> "waiting", participant |-> p, submission_id |-> s,
                     choice |-> ch, run |-> session.current_run,
                     admitted_at |-> None]]
  /\ UNCHANGED <<clock, rows, session_lock, work, call>>

\* FOR SHARE OF run: only the run row is read again after a wait, and the
\* columns the query compares in it never change.
AnswerLocksRun(a) ==
  /\ answer[a].pc = "waiting"
  /\ answer' = [answer EXCEPT ![a].pc = "shared"]
  /\ UNCHANGED <<clock, rows, session_lock, work, call>>

AnswerAdmitted(a) ==
  /\ answer[a].pc = "shared"
  /\ answer' = [answer EXCEPT ![a].pc = "admitted", ![a].admitted_at = clock]
  /\ UNCHANGED <<clock, rows, session_lock, work, call>>

StillCurrent_Bug(a) == answer[a].run \in DOMAIN runs
StillCurrent(a) ==
  /\ session.status = "live"
  /\ session.current_run = answer[a].run
  /\ session.current_question = runs[answer[a].run].question

AnswerRechecked(a) ==
  /\ answer[a].pc = "admitted"
  /\ answer' = [answer EXCEPT ![a] =
                  IF StillCurrent(a) THEN [answer[a] EXCEPT !.pc = "checked"]
                  ELSE DoneAnswer]
  /\ UNCHANGED <<clock, rows, session_lock, work, call>>

\* The rows of one participant in one run, read under the participant's lock.
AttemptsOf(r, p) ==
  {t \in attempts : t.run = r /\ t.session_participant = p}

Storable_Bug(a) ==
  LET mine == AttemptsOf(answer[a].run, answer[a].participant)
  IN  Cardinality(mine) < MaxAttempts
Storable(a) ==
  LET mine == AttemptsOf(answer[a].run, answer[a].participant)
  IN  /\ \A t \in mine : t.submission_id # answer[a].submission_id
      /\ Cardinality(mine) < MaxAttempts

NewAttempt(a) ==
  LET r == answer[a].run
      p == answer[a].participant
  IN  [id |-> Cardinality(attempts) + 1, run |-> r, session_participant |-> p,
       choice |-> answer[a].choice, submission_id |-> answer[a].submission_id,
       admitted_at |-> answer[a].admitted_at,
       ordinal |-> Cardinality(AttemptsOf(r, p)) + 1]

\* FOR UPDATE on the participant, then a replay, a conflicting replay and an
\* attempt over the limit leave no trace, and any other press is stored.
AnswerStored(a) ==
  /\ answer[a].pc = "checked"
  /\ attempts' = IF Storable(a) THEN attempts \cup {NewAttempt(a)} ELSE attempts
  /\ answer' = [answer EXCEPT ![a] = DoneAnswer]
  /\ UNCHANGED <<clock, session, runs, joined, finals, commands, session_lock,
                 work, call>>
-----------------------------------------------------------------------------
(* A process dies or loses its connection: PostgreSQL rolls the            *)
(* transaction back and releases its locks.                                *)

ReleasedBy(who) == IF session_lock = who THEN Null ELSE session_lock

WorkerDies(w) ==
  /\ work[w].pc # "idle"
  /\ work' = [work EXCEPT ![w] = IdleWorker]
  /\ session_lock' = ReleasedBy(w)
  /\ UNCHANGED <<clock, rows, call, answer>>

CommandDies(c) ==
  /\ call[c].pc \notin {"idle", "done"}
  /\ call' = [call EXCEPT ![c] = DoneCall]
  /\ session_lock' = ReleasedBy(c)
  /\ UNCHANGED <<clock, rows, work, answer>>

AnswerDies(a) ==
  /\ answer[a].pc \notin {"idle", "done"}
  /\ answer' = [answer EXCEPT ![a] = DoneAnswer]
  /\ UNCHANGED <<clock, rows, session_lock, work, call>>

\* Nothing is under way and nobody has anything left to ask.
Quiet ==
  /\ session.phase \in {"lobby", "final"}
  /\ \A w \in Workers : work[w].pc = "idle"
  /\ \A c \in CommandCalls : call[c].pc \in {"idle", "done"}
  /\ \A a \in AnswerCalls : answer[a].pc \in {"idle", "done"}
  /\ UNCHANGED vars
-----------------------------------------------------------------------------
Init ==
  /\ clock = 0
  /\ session = NewSession
  /\ runs = <<>>
  /\ joined = {}
  /\ attempts = {}
  /\ finals = {}
  /\ commands = {}
  /\ session_lock = Null
  /\ work = [w \in Workers |-> IdleWorker]
  /\ call = [c \in CommandCalls |-> IdleCall]
  /\ answer = [a \in AnswerCalls |-> NoAnswer]

WorkerStep(w) ==
  AdvanceRead(w) \/ AdvancePreflight(w) \/ AdvanceLock(w) \/ AdvanceCommit(w)

\* Everything a request does once it has arrived.
CallStep(c) ==
  CommandLocks(c) \/ CommandCommits(c) \/ CommandRejected(c) \/ CommandRefused(c)

AnswerStep(a) ==
  AnswerLocksRun(a) \/ AnswerAdmitted(a) \/ AnswerRechecked(a) \/ AnswerStored(a)

Next ==
  \/ Tick
  \/ \E p \in Participants : Join(p)
  \/ \E w \in Workers : WorkerStep(w) \/ WorkerDies(w)
  \/ \E c \in CommandCalls : CommandArrives(c) \/ CallStep(c) \/ CommandDies(c)
  \/ \E a \in AnswerCalls : AnswerArrives(a) \/ AnswerStep(a) \/ AnswerDies(a)
  \/ Quiet

Spec == Init /\ [][Next]_vars
-----------------------------------------------------------------------------
(* What a live session promises.                                           *)

CommandIdRows == CommandIds \cup AutomaticIds

FactRows ==
  [kind : ManualKinds \cup AutoKinds \cup {"none"}, state_revision : Nat,
   phase : Phases \cup {"none"}, question_run_id : Refs, boundary : OptTime]

AttemptRows ==
  [id : Nat, run : Refs, session_participant : Participants, choice : Choices,
   submission_id : Submissions, admitted_at : Time, ordinal : Nat]

SnapshotRows == [session : SessionRow, run : RunRow \cup {NoRun}]

WorkerStates ==
  [pc : {"idle", "read", "due", "locked"}, now : OptTime, seen : SnapshotRows]

SeenRuns == [current_run : Refs, run : RunRow \cup {NoRun}]

CallStates ==
  [pc : {"idle", "waiting", "locked", "refused", "done"},
   facts : FactRows, now : OptTime, seen : SeenRuns]

AnswerStates ==
  [pc : {"idle", "waiting", "shared", "admitted", "checked", "done"},
   participant : Participants \cup {Null},
   submission_id : Submissions \cup {Null},
   choice : Choices \cup {Null},
   run : Refs, admitted_at : OptTime]

StateTypes ==
  /\ clock \in Time
  /\ session \in SessionRow
  /\ runs \in Seq(RunRow)
  /\ joined \subseteq Participants
  /\ attempts \subseteq AttemptRows

CommandTypes ==
  \A k \in commands : /\ k.command_id \in CommandIdRows
                      /\ k.payload_digest \in FactRows
                      /\ k.response \in BasicStates

LockType == session_lock \in Workers \cup CommandCalls \cup {Null}

\* Every variable has its type.
TypeOK ==
  /\ StateTypes
  /\ CommandTypes
  /\ LockType
  /\ work \in [Workers -> WorkerStates]
  /\ call \in [CommandCalls -> CallStates]
  /\ answer \in [AnswerCalls -> AnswerStates]
-----------------------------------------------------------------------------
\* A finalized run has one final answer per participant, the one its timely
\* attempts give now, however many late presses were stored since; a run that
\* is not finalized has none (record_answer_attempt against _finalize_locked).
FinalsReflectTimelyAttempts ==
  \A r \in DOMAIN runs :
    {f \in finals : f.run = r} =
      IF Finalized(runs[r]) THEN {FinalAnswer(r, p) : p \in joined} ELSE {}

\* Each revision was made by exactly one logged command with an identifier of
\* its own, whatever workers and repeated requests raced for it.
RevisionsAreLogged ==
  /\ {k.applied_revision : k \in commands} = 1..session.state_revision
  /\ \A k, l \in commands :
       \/ k = l
       \/ /\ k.command_id # l.command_id
          /\ k.applied_revision # l.applied_revision
  /\ \A k \in commands : k.applied_revision = k.expected_revision + 1

\* Questions are run in order, one at a time: only the last run may be open,
\* and it is the current one unless the session was stopped in the middle.
OneOpenRun ==
  /\ Len(runs) <= NumQuestions
  /\ \A r \in DOMAIN runs : /\ runs[r].question = r
                            /\ r < Len(runs) => Finalized(runs[r])
  /\ session.current_run \in {0, Len(runs)}
  /\ session.current_question = session.current_run
  /\ session.phase = "results" <=>
       session.current_run # 0 /\ Finalized(CurrentRun)
  /\ session.status = "finished" =>
       Len(runs) = NumQuestions /\ \A r \in DOMAIN runs : Finalized(runs[r])

\* The stored deadlines obey the check constraints of SessionQuestionRun, so
\* no transition is rolled back by the database.
DeadlinesAreOrdered ==
  \A r \in DOMAIN runs :
    LET run == runs[r]
    IN  /\ run.reading_ends_at <= run.answering_started_at
        /\ run.answering_started_at <= run.answer_deadline_at
        /\ run.answer_deadline_at <= run.planned_answer_deadline_at
        /\ run.delivery_deadline_at = run.answer_deadline_at + DeliveryWindow
        /\ Finalized(run) => /\ run.delivery_deadline_at < run.finalized_at
                             /\ run.finalized_at <= clock

\* The attempts of a participant in a run are numbered without gaps up to the
\* limit and carry different submission identifiers.
AttemptsAreNumbered ==
  \A r \in DOMAIN runs, p \in Participants :
    LET mine == AttemptsOf(r, p)
    IN  /\ {a.ordinal : a \in mine} = 1..Cardinality(mine)
        /\ Cardinality(mine) <= MaxAttempts
        /\ Cardinality({a.submission_id : a \in mine}) = Cardinality(mine)

\* No press counts, or is even kept, from before the answers opened.
NoEarlyAttempt ==
  \A a \in attempts : /\ a.run \in DOMAIN runs
                      /\ a.admitted_at >= runs[a.run].answering_started_at

\* What is in the journal, however requests overlap and repeat each other
\* (record_answer_attempt).
AttemptsAreSound == AttemptsAreNumbered /\ NoEarlyAttempt
-----------------------------------------------------------------------------
\* The deadlines of a run are never extended, and never change once the run
\* is finalized; runs are never removed (end_question, a repeat, recovery).
DeadlinesOnlyShorten ==
  [][\A r \in DOMAIN runs :
       /\ r \in DOMAIN runs'
       /\ runs'[r].answering_started_at = runs[r].answering_started_at
       /\ runs'[r].answer_deadline_at <= runs[r].answer_deadline_at
       /\ runs'[r].delivery_deadline_at <= runs[r].delivery_deadline_at
       /\ Finalized(runs[r]) => runs'[r] = runs[r]]_vars

\* A phase never starts before the phase it follows nor in the future, though
\* the time written was taken before the locks were granted.
PhasesStartInOrder ==
  [][session' # session =>
       /\ session.phase_started_at <= session'.phase_started_at
       /\ session'.phase_started_at <= clock]_vars

\* An attempt is stored only while its run is the current one of a live
\* session, though the session was looked at two waits earlier.
AttemptsOnlyInCurrentRun ==
  [][\A a \in attempts' \ attempts :
       session.status = "live" /\ a.run = session.current_run]_vars

\* A finished or aborted session never changes again in any of its rows.
TerminalIsFinal ==
  [][session.status \in {"finished", "aborted"} => UNCHANGED rows]_vars
-----------------------------------------------------------------------------
\* The 409 answer of a refused command shows the state the server is in
\* ("the state field contains the current technical facts").
ConflictStateIsCurrent ==
  \A c \in CommandCalls :
    call[c].pc = "refused" => ConflictState(c) = BasicState(session, CurrentRun)

\* Results stay open for the whole results_time_sec from the moment they are
\* opened.
ResultsStayOpenInFull ==
  [][\A r \in DOMAIN runs :
       ~Finalized(runs[r]) /\ Finalized(runs'[r])
         => runs'[r].results_ends_at >= clock + ResultsTime]_vars
-----------------------------------------------------------------------------
(* The refinement.  Late presses are kept in the journal and do not count; *)
(* which presses are late may change once, when the answers are closed.    *)

Counted == {a \in attempts : a.admitted_at <= runs[a.run].delivery_deadline_at}

\* The choice that a row of FinalAnswer refers to.
ChosenIn(f) ==
  IF f.outcome = "unanswered" THEN Null
  ELSE (CHOOSE a \in attempts : a.id = f.selected_attempt).choice

Results ==
  {[question |-> runs[f.run].question, player |-> f.session_participant,
    choice |-> ChosenIn(f)] : f \in finals}

Game == INSTANCE QuizGame WITH
  phase <- session.phase, question <- Len(runs), players <- joined,
  counted <- Counted, results <- Results, NoChoice <- Null

\* Workers with stale times, presses in flight, repeats, early ends and crashes
\* together do nothing that the game of QuizGame could not do: each commit is one
\* of its steps or changes nothing that a player can see (gameplay.py).
ImplementsGame == Game!Spec
-----------------------------------------------------------------------------
(* Fairness.  Celery beat calls the workers every second for ever, so a     *)
(* crash does not hit every later call at the same step, and PostgreSQL     *)
(* queues those who wait for FOR UPDATE: a step of a worker that is enabled *)
(* again and again is taken.  A transaction that has begun goes on or dies. *)
(* Nobody is obliged to send a request.                                     *)
Fairness ==
  /\ WF_vars(Tick)
  /\ \A w \in Workers : /\ WF_vars(AdvanceRead(w))
                         /\ SF_vars(AdvancePreflight(w))
                         /\ SF_vars(AdvanceLock(w))
                         /\ SF_vars(AdvanceCommit(w))
  /\ \A c \in CommandCalls : WF_vars(CallStep(c))
  /\ \A a \in AnswerCalls : WF_vars(AnswerStep(a))

FairSpec == Spec /\ Fairness

\* Once its first question is shown a session reaches its end without any
\* further command, through answers, crashes and waiting for locks.
QuizEnds == session.phase = "reading" ~> session.phase = "final"
=============================================================================
