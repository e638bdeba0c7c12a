# umclick: a verification development

umclick runs live quizzes. A teacher starts a session of a fixed quiz version,
participants join with a PIN and press answers on their phones, a display shows
the questions, and the server closes each question by the clock. The backend is
Django with Channels over PostgreSQL (READ COMMITTED) and Redis; Celery beat
calls the recovery task every second; the client is a Flutter web application.

This directory holds TLA+ modules translated from the source, the TLC
configurations that check them on small instances, and proofs checked by TLAPS.
`PROJECT.json` lists the components, the runs, the mutants that show each
property (and each part of a property that is a conjunction) can fail, the lines
each definition stands for, the findings, the hazards and the theorems.

1. Inventory, 2. Modules, 3. Runs, 4. Fairness, 5. Findings, 6. Proofs,
7. Not modelled, 8. Plan.

## 1. Inventory

| Component (src/) | State | Operations | Correct when |
|---|---|---|---|
| Session state machine, `backend/apps/session/gameplay.py`, `advance.py`, `tasks.py` | rows of `LiveSession`, `SessionQuestionRun`, `AnswerAttempt`, `FinalAnswer`, `SessionCommand` | five commands of the teacher, five transitions of the clock, `record_answer_attempt` | each transition happens once; a press counts exactly when it was admitted in time; deadlines are never extended; a finished session never changes; a started quiz ends |
| Choice of the final answer, `gameplay.py:271-327` | none | `_select_final_attempts`, elapsed times | the last press decides the choice and the first of its unbroken series the time |
| Rows and their guards, `models.py` | thirteen tables | `save`, `delete`, bulk operations of any code | rows that refer to each other agree; history is not rewritten (display accesses may be deleted) |
| Participation, `participation.py`, `access.py` | `SessionParticipant`, token digests, PINs | create a session, join, return | joins only in the lobby, in the session of the PIN; one participation per account |
| Leaderboard, `results.py` | none | places over final answers, two schemas | equal results share a place |
| Quiz versions, `backend/apps/quiz/`, `session/services.py` | card, draft, fixed versions | save, archive, restore, delete, open a session | a version used by a session never changes; no lost update; no open session of an archived quiz |
| WebSocket leases, `core/websocket_limits.py` | sorted sets in Redis | open, access, heartbeat, release | limits hold; a lease of a dead connection expires |
| WebSocket consumer, `session/consumers.py` | one connection with four tasks | connect, authenticate, event, watch, expire, heartbeat, disconnect | state is sent only to an access that is valid; a connection that began to close is closed |
| Snapshots and events, `session/realtime.py` | a channel layer | broadcast after commit, read, shape for a role | a state is of one moment or harmlessly of two; nothing is shown early; a polling client reaches the current state |
| Rate limiter, `core/rate_limit.py` | buckets in Redis | check several limits at once | all or none is charged; `retry_after` is enough |
| Display grants, `views.py`, `access.py` | `SessionDisplayAccess` | issue, revoke, resolve | one active grant per session; a refused issue revokes nothing |
| Client controllers, `frontend/lib/core/` | pending command, queue of presses, last snapshot, socket, tokens | send, repeat, reduce, reconnect, renew | one command is applied once; what is reported is true; the state shown never goes back |
| Request identity, `core/request_identity.py` | none | the address a request is counted under | a client cannot choose it |
| Reset of game data, `stage_v_game_data.py` | all tables | count, lock, delete, commit or roll back | deletes what it counted or nothing |
| Migrations of the versioning | schema and data | apply, take back, by three containers | no data lost; all come up |
| HTTP layer, admin, legal texts, widgets, deployment, load scripts | none of their own | | section 7 |

How they interact. The teacher's HTTP request goes through
`views.LiveSessionViewSet._command` to `execute_manual_command`; a press goes
through `SessionSubmit` to `record_answer_attempt`; Celery beat and every read of
the state call `advance_one_transition`. The three share the rows of a session
and nothing else: all coordination is by row locks of PostgreSQL. A committed
transition announces its name through the channel layer (`on_commit`, may be
lost) and each consumer reads the state again. Clients apply snapshots by their
`state_revision`. Quiz editors and sessions meet on the card: opening a session
fixes the draft, archiving locks the card and then the sessions.

What is hard here:

- times are taken before or between waits for locks and used after them;
- an answer takes `FOR SHARE` on the run, the time, a look at the session, a
  second lock, and only then inserts, while a worker finalizes the same run;
- the session row is read without a lock, with a lock, and joined with rows of
  an older snapshot; a state that is sent is made of several statements;
- the same transition is attempted by beat, by reads of the state, and by the
  teacher; every process can die between any two of its steps;
- requests are repeated by clients that do not know whether the first arrived,
  and their tokens are renewed meanwhile;
- the coroutines of a connection interleave at every await, and may be cancelled
  at one;
- rows of one quiz are locked by sessions that know nothing of each other.

The hazards, each at its line and with the properties that watch it, are in
`PROJECT.json`.

## 2. Modules

| Module | What it is |
|---|---|
| `Gameplay`, `QuizGame` | rows, locks and processes of one session and what they promise; the abstract game that they implement |
| `FinalSelection`, `FinalSelectionCheck` | the choice among a participant's attempts; the loop of the code against it |
| `HistoryGuards` | what the guards of the models let any code write |
| `LockOrder` | the rows that transactions of several sessions of a quiz lock, and in which order |
| `Admission` | PINs, joining, returning |
| `Leaderboard` | the table of places of both schemas |
| `QuizContent`, `QuizContentCheck` | contents of a quiz: merged, compared, validated; the loop that writes them into rows |
| `QuizVersioning`, `QuizCard` | card, versions and sessions under concurrent requests; the abstract card that they implement |
| `WebSocketGuard`, `SessionConsumer` | leases in Redis; the coroutines of a connection over them |
| `RateLimit`, `RequestIdentity`, `DisplayAccess` | token buckets; the address they count under; the grants of a display |
| `Access` | what displays and buckets promise, for any constants, beside `Admission` |
| `SessionViews`, `StateReducer` | states and events of a session as the server reads them and a screen applies them |
| `CommandController`, `AnswerController`, `SocketSupervisor` | the client's commands, presses, socket and token over a network that loses and delays |
| `TeacherScreen`, `ParticipantScreen` | what the screen of a teacher and of a participant promise, for any constants: commands beside the socket, views beside the page of presses |
| `GameDataReset`, `VersioningMigrations` | the command that empties the tables; the migrations of the versioning |
| `Records` | what the saves, the reset and the migrations promise, for any constants |
| `MC*` | instances for TLC |
| `GameplayProofs`, `LockOrderProofs`, `QuizVersioningProofs`, `SessionConsumerProofs`, `TeacherScreenProofs`, `ParticipantScreenProofs`, `RecordsProofs`, `AccessProofs` | proofs |

Composition. `SessionConsumer` extends `WebSocketGuard`; `QuizVersioning` and
`QuizContentCheck` extend `QuizContent`; `SessionViews` extends `StateReducer`;
`Gameplay` extends `FinalSelection`; `Access` extends `Admission` and instantiates
`DisplayAccess` and `RateLimit`, none of which reads what another one writes; in the
same way `TeacherScreen` extends `CommandController` and instantiates
`SocketSupervisor`, `ParticipantScreen` extends `SessionViews` and instantiates
`AnswerController`, and `Records` extends `HistoryGuards` and instantiates
`GameDataReset` and `VersioningMigrations`. `QuizVersioning` instantiates
`QuizCard` with a refinement mapping, and `Gameplay` instantiates
`QuizGame` with another. `SocketSupervisor` composes the socket
with the requests that share its token. The client modules carry the part of the
server they talk to (its log of commands, its journal of attempts), which
`Gameplay` models in full.

### Gameplay

*Rows.* `session`, `runs`, `joined`, `attempts`, `finals` and `commands` are the
tables, restricted to one session. `runs[k]` is the k-th run. A session runs each
question of its version once and in order, so question k and run k have the same
number; both columns are kept. NULL is 0 in a reference and -1 in a time; the
`phase_started_at` of a session that has not shown a question is 0. Left out
because no transition reads them: `started_at`, `finished_at`,
`question_started_at`, `reading_started_at`, `planned_delivery_deadline_at` (a
constant distance from a column that is kept), names, tokens.

*Locks.* `session_lock` is the holder of `FOR UPDATE` on the session row. An
answer whose `pc` is in `Sharing` holds `FOR SHARE` on its run. `FOR UPDATE` on
the run or on a participant is held from its acquisition to the commit and
nothing in between is visible to others, so acquisition, the rest of the
transaction and the commit are one action, enabled when no holder conflicts
(`CurrentRunUnshared`).

*A worker* (`advance_one_transition`): `AdvanceRead` is the first read,
`AdvancePreflight` takes the time and decides on what was read, `AdvanceLock`
waits for the session and looks at its status, `AdvanceCommit` waits for the run,
decides again on fresh rows and the old time, applies one transition and logs it.

*A command* (`execute_manual_command`): `CommandArrives` begins the locking
statement and so fixes its snapshot; the request names a state the client was
shown, an old one included. `CommandLocks` is the grant of the lock: an exact
repeat is answered, a used identifier or another state is refused, otherwise the
time is taken. `CommandCommits` is `_apply_transition` and the log;
`CommandRejected` is its refusals; `CommandRefused` is the 409 answer, whose body
is `ConflictState`.

*An answer* (`record_answer_attempt`): `AnswerArrives` (the query sees an open
question), `AnswerLocksRun`, `AnswerAdmitted` (the time), `AnswerRechecked` (the
unlocked look at the session), `AnswerStored` (participant lock, replay, limit,
insertion).

*Death.* `WorkerDies`, `CommandDies` and `AnswerDies` lose the process at any of
its steps; PostgreSQL rolls back and releases the lock. A request that dies is not
sent again by itself; a repeat of it is another request, and a configuration gives
it the same `command_id` or `submission_id`.

*Time.* `clock` is `clock_timestamp()`. It stops `Slack` past the last deadline
anybody waits for (`Horizon`). The comparison by `payload_digest` is a comparison
of the facts it is computed from.

*The game.* `QuizGame` is the session without clocks, locks, processes and
repeats: seven steps, each with a meaning for those who play. The mapping takes
the phase, the number of runs and the players as they are. `Counted` is the set of
attempts that are not late by the deadline their run has now, so that a late press
that is stored is no step, and an early end may take presses back, but only the
latest ones and only before the results. `Results` are the choices that the rows
of `finals` refer to. Every commit is one step or none.

### Rows, locks and participation

`HistoryGuards` lets any code create or save any row that the checks of
`models.py` accept (`save()`, `clean`-like methods and check constraints), in any
order: what is asked is whether checks of one row at a time keep rows of different
tables consistent and what was played unchanged. A row that does not exist is
`NoRow`. The save of a stored run compares it with a row that it reads without a lock
and writes it later (`models.py:355-366`), so it is two steps, `ReadRun` and
`WriteRun`, and several may overlap; the saves of the other rows lock what they
compare with, or only insert. Display accesses may be deleted (`DeleteGrant`): the
guard of deletions is connected for them (`session/apps.py:36`), but does not name
their table (`protection.py:71-79`).

`LockOrder` gives each kind of transaction its list of row locks, foreign key
locks and the joined question row included (`select_related('question')` without
`of=`, `gameplay.py:200`), and asks for a set of transactions that wait for each
other only. It is the only module with two sessions of one quiz. Which of a run and
its question PostgreSQL locks first is left open.

`Admission` separates what the code does in separate statements: drawing a PIN,
the unique index, the query after its refusal; finding a session by PIN, and the
registration that starts with the lock of the session row.

`Leaderboard` computes the places from sets of answers and says what a place is
without the sort that the code uses. The legacy schema is read-only.

### Quiz

A content is a record with sequences; what the editor sends is a record whose
domain holds the keys that were sent, so that Python's `{**old, **new}` is `@@`.
`Validated` is what the serializer makes of it: after PATCH the same keys, after PUT
the defaults of `time_limit_sec` and `is_correct` too (`serializers.py:14,22`), which
are then written over stored values. `QuizContentCheck` writes such a request
statement by statement (`SaveVersion`, `SaveQuestion`, `SaveChoice`, `DeleteChoices`,
`DeleteOthers`); nothing comes between them, as the transaction holds the card.
`QuizVersioning` has one action per request that only waits for the card, and
several for `archive_quiz` and `delete_quiz`, which keep the card while they wait
for sessions. A form that is shown was read by several statements. `QuizCard` is
what the rest of the program relies on; `ImplementsCard` maps the newest version
to its content and each session to the content it plays.

`VersioningMigrations` has the checks, the changes and the way back of four
migrations; locks of tables are modelled as far as a check of one process makes
the change of another one wait.

### Connections, limits, displays

`WebSocketGuard` has one action per Lua script. In `SessionConsumer` one action is
what a coroutine does between two awaits that really suspend; Channels handles the
messages of one connection one after the other, while the deadline, the expiry,
the watch and the heartbeat are tasks. A unit of time is the 15 s between
heartbeats.

`RateLimit` keeps units of tokens, the expiry of the key and a clock of Redis that
may be set back. `RequestIdentity` walks the chain of addresses from the right.
`DisplayAccess` has the rows that an issue and a revocation lock and the
transaction that is rolled back when an issue is refused after it revoked.

### Views and clients

`SessionViews` is a server that moves through the phases, a channel per delivery
(a poll, the socket), the reading of a state in several statements of READ
COMMITTED, and one screen. `Role` is a participant, the teacher's account or a
display. `StateReducer` is `SessionStateReducer` as operators on states.

`CommandController` and `AnswerController`: an execution is a press with its
automatic repeats; `net` holds copies of requests that may be delivered at any
later time or never, `replies` the answers on their way. An execution that is
cancelled stops at its next step, but what it sent may still take effect. The server
of `CommandController` refuses what `_apply_transition` refuses: `next-question` in
the results of the last question (`gameplay.py:379-381`), and `end-question` once its
deadline has passed (`late`, lines 363-364) although the state is still the one that
was shown. `AnswerController` gets snapshots over HTTP (`Reads`) and from the
consumer, which selects the run anew and may so tell the final answer in an earlier
phase (`Snapshots`); any error that is not repeated reaches the screen.

`SocketSupervisor`: the awaits of the functions that follow the end of a socket
are members of `tasks`; the renewal of the token is shared with HTTP requests
(`SingleFlightTokenRefresh`). A renewal that fails logs the teacher out
(`NotRenewed`); one that has nothing to renew or no answer to use changes nothing but
that who waits is told no (`GivenUp`, `teacher_panel.dart:390-392,401-403`).

## 3. Runs

A composite run holds several small instances ("scenarios"): the first state
chooses one, and the variables of the others stay as they are. A property that
is a conjunction of named parts says so in its definition; each part has a mutant
that breaks it.

| Run | Scenarios and bounds | What it shows |
|---|---|---|
| `requests` | `answers`: 2 participants, 2 choices, 2 presses, 1 worker, limit 1; `retries`: 3 requests with 2 identifiers, limit 2; `early_end`: the teacher ends the answers, times 0..2; `stopped`: `abort_session` at any time | final answers are those of the timely presses, in whatever order a press and the finalizer wait; no press is stored for a run that is over; attempts are numbered without gaps, none is early and a replay is stored once; deadlines only shorten and satisfy the check constraints; nothing is written into a session that ended; the abstract game is implemented |
| `workers` | `race`: 2 workers, 2 questions, late by up to 2; `opening`: a worker and `next_question`; `repeats`: one identifier for two kinds of commands | each transition is made and logged once; phases follow each other in time in spite of stale times |
| `quiz` | two saves and two openings; opening, archiving, deleting; requests that wait for games; every PATCH or PUT of up to 2 questions of 2 choices | versions are sound, no update is lost, the card is implemented; the rows are the content |
| `sockets` | `limits`: 2 connections for one place, leases of 2 units; `life`: one connection, every interleaving of its tasks | limits bind those who work; places become free; the unconfirmed are closed |
| `teacher_client` | 2 presses with renewed tokens in a game of 2 questions, presses that the screen offers for what it shows, followed through 3 transitions into the second one; 1 press of any kind with 2 automatic repeats in a game of 1 question; a socket with budgets 1, 1, 2, 3 tokens, 3 sockets, 3 connections | a command reported as refused was not done; one state is moved once; one socket, one renewal; the socket does not fall silent |
| `participant_client` | the quiz of 2 questions with crashes; a screen that polls; a page with 2 presses | a quiz goes on by itself; a screen catches up; the page comes to show the answer that counts |
| `screens` | a participant's, a teacher's, a display's screen; 1 or 2 runs; a page with 3 presses and room for 2 attempts; 1 press with 2 repeats | nothing is shown before it is final; counts of a closed question are final; a role gets what is its own; no screen goes back; what was pressed stays shown until a snapshot must contain it |
| `access` | 2 sessions for 1 PIN and 3 requests; 3 issues and 1 revocation; 2 buckets and 4 ms; chains of up to 3 addresses | one registers where the PIN leads, once; one display; buckets within their rate; the address is not the client's to choose |
| `records` | rows in three parts of the tables; up to 4 presses; 4 participants, or 2 runs; 2 overlapping saves of a run; a reset with 2 requests; 2 processes that migrate up and down; 3 containers that come up | rows agree and history stays; the loop is the definition and places are fair; the reset is honest; no migration loses data; the command ends and the containers come up |
| `locks` | 2 sessions at any of 2 questions, 6 transactions: both move on, one is finalized and answered, one is joined, the quiz is archived | no set of transactions waits for itself, and there is no state without a step |
| `conflict_state`, `results_interval` | violated | section 5 |

Why the bounds are enough. The races are between two processes at a time over one
row, and a third one adds nothing but another order of the same steps: answers,
workers, editors, connections and issues are present in twos (issues in threes,
as one may replace a replaced one) where they race with their own kind. Two
questions are needed for everything about opening the next one. Limits are small
enough to be reached: two attempts for twenty, one connection for three, budgets
of one and two for three and six. One unit of each duration separates "before",
"at" and "after" a boundary; `early_end` has two units of answering time so that
the deadline can be moved to a different instant, and a bucket needs a rate that
does not divide its capacity for the rounding to matter.

Symmetry is used where no identifier is named by a property, and never for
liveness; in `screens` it is a condition of the instance (the first of three presses is
of a fixed choice, the first of two participants to press is `Me`). Deadlock is not checked where a behaviour may end: every request is sent
once, or a bound of the clock is reached. That nobody waits for ever is said by
properties (`NoDeadlock`, `LockHoldersAnswer`, `QuizEnds`,
`MaintenanceEnds`).

## 4. Fairness

- *Gameplay* (`QuizEnds`, `results_interval`): Celery beat calls the worker every
  second (`umclick/settings.py:185-191`), so a worker that is idle reads again
  (weak fairness) and, as a crash does not strike every later call at the same
  step and PostgreSQL queues those who wait for `FOR UPDATE`, a step that is
  enabled again and again is taken (strong fairness). A request that has begun
  goes on or dies. Nobody has to send a request, to join or to press. The clock
  goes on. What this hides: a holder of `FOR SHARE` can overtake a waiting
  `FOR UPDATE`, so an endless stream of presses could delay a finalizer; the bound
  on answer requests excludes that.
- *Screens* (`ShowsWhatCounts`, the part about the screen): the panel polls every five seconds, so polls are read
  (weak) and not all of them are lost (strong). Events owe nothing.
- *CommandController* (`EveryPressEnds`): only the client's own timers. The server
  and the network owe nothing; every await has a timeout.
- *AnswerController* (`ShowsWhatCounts`): the game moves on and a poll is answered.
- *SocketSupervisor* (`NeverSilent`): delays end, renewals are answered or fail.
- *SessionConsumer* (`ConnectionsEnd`): the timers of Redis and
  of the process fire; a call that runs in a thread ends (it has a timeout).
- *DisplayAccess* (`LocksAreReturned`): a request that holds a lock goes on, or dies.
- *QuizVersioning* (`LockHoldersAnswer`): commands of games end, and a request that
  may have its locks takes them.
- *GameDataReset* (`MaintenanceEnds`): the command goes on; `lock_timeout` bounds its waits.
- *VersioningMigrations* (`MaintenanceEnds`): each container is started again
  (`restart: unless-stopped`).

## 5. Findings

`conflict_state`: `execute_manual_command` (`gameplay.py:396`) locks the session
row and joins its run. If the statement had to wait, PostgreSQL uses the newest
session row and the run of the old snapshot, or none if the session refers to
another run by then. A refused command then answers with the new revision and the
old deadlines. `docs/block-1-stage-b-api.md:57` says that `state` contains the
current technical facts, and `docs/block-1-stage-v-api.md:31` tells the client to
apply it. A refusal after `_lock_current_run` shows the fresh run, and the model
makes that difference.

`results_interval`: the time of a finalization is taken before the waits
(`gameplay.py:468`), so `results_ends_at` (line 331) is earlier than the moment
the results are opened plus `results_time_sec`, which
`docs/block-1-stage-b-api.md:34` and `docs/block-1-requirements.md:300` promise.

Observed while modelling, and not stated as findings because no document decides
them:

- `gameplay.py:366`: `end_question` takes its time before it waits for the run; a
  press that was admitted in time and stored may be late by the deadline that is
  written.
- `consumers.py:150,212`: a task that is cancelled while it awaits the release of
  the lease in `_close_with_error` leaves `closing` set and the connection open;
  `ClosingEnds` leaves the cancelled tasks out.
- `models.py:162`: a session whose PIN collides with one that ends between the
  refused insertion and the query answers with an integrity error instead of
  drawing again (`integrity_error` in `Admission`).
- `session_command_controller.dart`: a command may be reported as failed for the
  moment although a copy of it is applied later; only `state_conflict` and
  `conflict` are promises (`RefusedWasNeverDone`).
- `stage_v_game_data.py:79`: counts are compared, not rows; a row replaced by
  another goes unnoticed, and a write after the commit reports a reset that was
  done as failed.
- `models.py:356`: a run is compared with a row that is read without a lock. Of two
  saves that overlap, the later one may rewrite results that the other has stored.
  The services hold the lock of the run, so `Gameplay` has no such step.
- `protection.py:71-79`: deleting a display access runs the guard of the history,
  which lets it pass.
- `serializers.py:14,22`: a PUT without `time_limit_sec` or `is_correct` resets them
  in the rows that it names; a PATCH keeps them.

## 6. Proofs

`GameplayProofs` proves, for all constants that satisfy the assumptions of
`Gameplay` (durations and numbers are naturals, each request has an identifier and
one of the five kinds; a lock nobody holds is no process):

- `TypeCorrectness`: `Spec => []TypeOK`;
- `FinalsAreRight`: `Spec => []FinalsReflectTimelyAttempts`;
- `StoredInTheCurrentRun`: `Spec => AttemptsOnlyInCurrentRun`;
- `TerminalStaysFinal`: `Spec => TerminalIsFinal`.

The first two follow from `Invariance`, `Spec => []IndInv`. Neither property is
inductive. A type error would come from a reference past the last question, from a
run that does not exist or from a time that was never taken, so `IndInv` adds how
session and runs are linked (`Linked`), that times taken before a wait are times
of the past (`WorkInv`, `CallInv`), and that a request under way carries values
(`AnswerFacts`). The final answers could change after finalization if a press
stored later counted, so `IndInv` adds that a press which is admitted but not
stored while its run is final is late. Three facts carry it: a finalizer waits for
all who share the run (`CurrentRunUnshared`), it acts only after the delivery
window (`FinalizeDue`), and the time it acts with is one of the past, so any time
taken after it is later still (`FinalRunsAreOver`).

The two action properties need one more inductive fact, `Held`: between its check
of the session and its insertion a press keeps the session live and on its run. A
worker commits only when nobody shares the current run. A command that locks the
run does too, and the others, `start_session` and `start_quiz`, apply only to
sessions without a run, which is why `Held` also says that the lobby has none. No
press that saw a session open is therefore left when the session ends.

The second part of `GameplayProofs` proves `GameIsImplemented`, `Spec => ImplementsGame`,
and on the way `OneRunIsOpen`, `Spec => []OneOpenRun`. A commit of a worker or a
command is one of the transitions of `Transition`; each has a lemma that says what
it does to the session and its runs, and one that says which step of the game it
is. `GameInv` is what the steps need besides `IndInv` and `Held`: status, phase and
current run belong together, and until the answers are closed the delivery
deadline is the planned one plus the window (`PhasesFit`, so an early end cannot
add presses); attempts have identifiers of their own (`AttemptsFit`, so that a final
answer refers to one of them); among the attempts until any time there is a last
one (`LastExists`: the fact about finite sets that the choice of the final answer
rests on, carried as an invariant because a press that is stored comes before or
after the last one); and a press under way is of a player and on a question that
was open to presses (`PressesFit`). Results show the presses that count because
the game's last press and `SelectedAttempt` are then the same attempt
(`ResultIsFinalAnswer`), and stay shown because attempts that are added later do
not change what an identifier refers to (`FinalsRefer`).

The third part proves what the rows of a session record,
from two more assumptions (the transaction of a worker is not that of a request; the identifiers
that the code computes for automatic transitions are none of those that clients
send):

- `DeadlinesStayOrdered` and `DeadlinesNeverGrow`: the check constraints of a run
  hold, and a deadline that was announced is never extended;
- `PhasesAreInOrder`: no phase starts before the one it follows;
- `AttemptsStaySound`: attempts are numbered without gaps, an identifier is stored
  once, no attempt is early;
- `RevisionsStayLogged`: each revision was made by one logged command or one
  automatic transition.

The inductive invariant is `RecordInv`, on top of `IndInv`, `Held` and `GameInv`.
What is hard is that every transition writes a time taken before a wait. It helps
that whoever holds the lock of the session is alone with its row (`LocksHeld`) and
that a command looks at the revision after its lock was granted
(`CommandsReady`); a worker decides again on fresh rows, so its old time is later
than the deadline it acts on. `RunTimes` and `SessionTimes` say which column of
the session repeats which column of its run, and until when the deadlines are the
planned ones. A press came after the answers of its run were opened although it
read the run before it had the lock (`PressTimes`). An identifier of the past is
never computed again, because the revision is part of it (`LogInv`).

`LockOrderProofs` proves `NeverDeadlocked`, `Spec => []NoDeadlock`, from
`LocksAssumption` (transactions are of the five kinds, of sessions of the quiz).
Not all locks are taken in one order: a run and its question come in either one,
and a press takes its run first where a move has its session first. The invariant
`LockInv` says that what a transaction holds precedes what it still wants
(`PlanInv`), that all but presses pass a gate, their session or the quiz, before
anything else (`GateInv`), and that locks exclude each other (`ExclusiveInv`).
Each transaction that waits has a `Level`, by the row it wants, and whom it waits
for has a higher one or waits for nothing (`BlockerIsAhead`): two that could meet at
a run and its question in opposite orders would have passed the same gate. A set of
transactions that wait for each other only would have no greatest level.

`QuizVersioningProofs` proves `VersionsStaySound`, `NoUpdateIsLost` and
`CardIsImplemented` (the refinement of `QuizCard`), from `CallsAssumption`. The
operators on contents (`MergeContent`, `Valid`, `Canonical`) stay unexpanded, so
the results hold whatever an editor may change and whatever counts as valid. The
invariant is `CardHistoryInv`: only the newest version is a draft (`CardInv`), fixed
ones are valid (`VersionsInv`), sessions play fixed versions (`SessionsInv`), who
waits for the rows of sessions holds the card (`LocksInv`), and what an editor was
shown is the content of the revision it was shown, as long as the card has that
revision (`SeenInv`). The last one is what makes a form that was read by three
statements safe: a save in between changes the revision. It holds because editors
name rows by identifiers they were shown (the guard of `Send`).

`TeacherScreenProofs` proves `CommandsStaySafe`, `Spec => []CommandsAreSafe`,
from `CommandAssumption` (presses are numbered, `None` is no result). The invariant
`ControllerInv` relates the client to the session and to the network: everything the
client holds was once true (`PastInv`), an identifier belongs to one command and
one state (`IdsInv`), what is on its way is what its execution asks (`NetInv`), and
a refusal that is on its way, read or reported means that no copy of the command
will be accepted any more (`RefusalInv`, `Dead`). The last is not obvious, as a
refusal may overtake other copies of the same request: it holds because a state
that was left never comes back (`RevisionInv` counts three transitions a question)
and because the log answers a repeat before the state is compared. The refusal of
`end-question` by the clock is of the state that is still shown, and nothing in that
state says so; it is final because the deadline is never moved back while the state
stays (`late` is cleared only by a transition) and its time is taken under the lock.

It proves `OneSocketStays`, `Sup!Spec => OneSocketOneRenewal`, from
`ScreenAssumption`. After each await a supervisor compares the generation it was
started in, its era, with the present one. The invariant `SocketInv` says that no
task is of a later era and an ended one does not come back (`EraInv`); that who is in
charge has its one socket, opened with its own token, or one task that awaits a
retry, never both (`OneInv`); that no renewal is behind the current token but the one
under way (`RenewalInv`), so no token is renewed twice although requests and socket
join the same renewal; and that refused tokens are not newer than the supervisor's,
while whoever waits for a renewal will find a newer token, none, or a no
(`RefusedInv`), which is why a refused token is not used for a socket again.

`SessionConsumerProofs` proves `LimitsAlwaysHold`, `Spec => LimitsHold`, from
`LimitsAssumption`, `TimesAssumption`, `KeysAssumption` (keys of the stage, of
addresses and of access records have different names) and `TimersAssumption` (the
deadline of 10 s and the heartbeat of 15 s come before a lease of 45 s ends). The
limits are about connections that work, the scripts count leases; `LeaseInv`
relates the two. No key has more leases than its limit (`CountInv`: a script looks
and adds in one step). Whoever works has not released its lease and has a timer
that goes off before the lease does (`InTime`): the deadline until it is
authorized, the heartbeat afterwards. Between the two there is no timer, and the
lease is as good as new because no time passes while a coroutine is at an await. A
connection has its lease of the stage exactly as long as that of its address, which
makes a lost lease stay lost: only `OPEN` writes one that was not there.

`ParticipantScreenProofs` proves `ScreensStayTrue`,
`Spec => [](ScreensAreTrue /\ TextsStayHidden)`, and `ScreensStayForward`,
`Spec => ScreensMoveForward`, for each of the three roles, from `RoleAssumption`. A
state is put together by up to four statements and is merged on the screen with what
other states left there, so what a screen shows may come from many moments of the
server. The invariant `ViewsInv` does not follow the moments. It says what any state
may tell, whoever holds it (`Told`): facts of a run only once it is finalized, and of
such a run only what does not change any more, its final answers and the press that
counts (`Finals`, `Last`; `FinalsStay` shows that nobody joins or presses in time once
a run is final). What is told so stays true while the game goes on (`ToldStays`),
wherever the state is. How a reading goes on depends on what it has seen
(`ReadingFits`): a run selected anew may be finalized between two statements but never
the other way round, so a state that says its answers are revealed has the results
with it, while one without may have them too. The reducer keeps `Told`, and what it
takes from the screen instead of the state, counters and the own answer, is newer
(`SameRevisionFits`, `NewRevisionFits`, `KeepAnswerFits`). That `reveal` is dropped
with a new revision is needed there: it would be of another run.

`RolesStayApart`, `Spec => []RolesSeeTheirOwn`, follows from `ViewsInv` with two
invariants about numbers: `RevisionInv` counts the transitions until each phase of
each run (`Latest`), and `PressesInv` says that no more presses are in time than
were made, nor more made than are allowed.

`PressesStay`, `Page!Spec => PressesStayShown`, is about the page on which a
participant answers, from `PageAssumption`. The page keeps what was pressed above
what snapshots say until one comes with the version that it waits for, its threshold.
A snapshot that reaches the threshold must contain the press, although requests
overtake each other and are repeated. The other way to lose the press in the answering
phase is the final answer (`participant_answer_controller.dart:126-131`), which is then
what counts. The proof counts: the threshold is at least the
number of submissions so far (`ThresholdInv`), the journal takes each submission once
(`JournalInv`), and a submission has one press and one choice (`NamesInv`), so a
journal of that length has all of them (`ReachedHasThePress`). A server
whose journal is full takes no more, so what was acknowledged is in the journal or
the journal is full (`RecordedInv`).

`RecordsProofs` proves `RowsAlwaysFit`, `Spec => []RowsFit`, and
`HistoryStays`, `Spec => HistoryIsKept`, from `ContentAssumption` and
`NoRowAssumption`. Each save checks its own row against rows it refers to; the
lemmas `SessionsKeep` and `RunsKeep` show that no other save takes away what was
checked. Two facts are added: an ended session has its time (`EndedIsStamped`;
otherwise a save that changes nothing would stamp it and so change history),
whoever takes part does so in a session that exists (`MembersHaveSessions`), and what
a save has read of the columns of a run that never change is still so when it writes
(`SavesKnowTheirRun`). The last is why overlapping saves cannot move a run: they may
have read old results, but not another place or plan (`WhatWasRead`). So `RunsStay`
promises the results only while no save is under way that has read another row
(`Outdated`). A display access keeps its session and its revocation as long as it is
not deleted. The action property has one lemma per table.

It proves `ResetStaysHonest`, `Reset!Spec => ResetIsHonest`, from `TablesAssumption`
(the bounds are naturals, and a table may have a row). The command deletes what it
counted although it counts before it has the locks. The invariant `ResetInv` says
which locks it has at which point, and that none of them is on a table that a
transaction of the application has touched (`LocksInv`); that such a transaction has
touched the table whose rows it changes when it commits, or still will
(`PathInv`); so, from the second count to the end of the transaction, the rows of the
game are those of the first count (`CountsInv`), while the preserved tables may change.
`QuietInv` follows the counts through the command for the case that nobody writes:
then each comparison succeeds, also the last one, which is made after the commit.

And it proves `MigrationsStaySafe`, `Migrations!Spec => MigrationsAreSafe`, from the
same assumption. A migration checks and changes in one transaction, but the check does
not lock writers out. What it has seen stays true for another reason at each of them:
once the first migration is applied, old code cannot create quizzes, so none appears
between the check of the switch and the switch (`SwitchInv`, for every process whose
check is still open). On the way back, a column without a default is an error for rows
that exist (`Fails`), and what the last two steps drop is empty by then
(`QuizzesFitTheSchema`, which is thereby part of the induction). A process acts on a
plan made long before, so `ChainInv` says only that it is at one of the four, and the
rest is decided when the change is made.

`AccessProofs` proves `JoinersAreSafe`, `Spec => JoiningIsSafe`, from
`AttemptsAssumption` and `NoneAssumption`. A request decides in a later
transaction than it found its session, so the inductive invariant says what stays
true meanwhile: the session is there and keeps its PIN (`FoundIsThere`), no other
open session has it (`OpenPinsDiffer`), and the tokens a person knows are tokens
of that person's participations (`TokensAreOwn`). At the registration the session
found still waits, so it is the one that the PIN names.

It proves `DisplaysStaySafe`, `Display!Spec => DisplaysAreSafe`, from
`DisplayAssumption` (`None` is no time and no request). A request that issues works
through several steps with a list of grants it locked earlier; `DisplayInv` says why
the list is still right when it is used: whoever issues is the holder of the session
row (`SessionRowIsHeld`), so no grant is added meanwhile, and a grant it has locked is
still active, as a revocation needs the row of its grant too (`LockedStaysActive`).
Dying and being refused give locks back and change no grant (`EndsWithNothing`).

And it proves `LimiterAlwaysHolds`, `Limiter!Spec => LimiterHolds`, from
`LimiterAssumption` (each bucket holds at least one token and is refilled by whole
units, `rate_limit.py:96-140`). That a bucket gives no more than its rate is not
inductive: a key may expire and its bucket counts as full, and the clock may be set
back before it does. The invariant `LimiterInv` keeps an account of each bucket. What
was taken, what is there and what the next look will add are covered by the capacity
and the time that really passed (`StoredIsCovered`); what was taken and a full bucket
are covered by the time at which the key ends (`KeysOutliveDebts`, which holds because
a key lives twice as long as its bucket takes to fill: once for what is missing, once
for the bucket that comes back full); and a bucket without a key owes nothing
(`AbsentOwesNothing`). A clock that is set back leaves all of them true, as it makes
keys live longer and looks bring less. The wait that a refusal names is rounded up
twice, to milliseconds per bucket and to seconds for the longest; `ShortWaits` and
`WaitIsEnough` show that the roundings go the right way for all buckets at once.

Proofs have one lemma per action or group of actions and a `NextInv` that combines
them; what several actions share (`RequestsKeep`, `JoinRowInv`, `RunsEvolve`) is a
lemma of its own.

Only model-checked:

- liveness (`QuizEnds`, `LocksAreReturned`, `EveryPressEnds`, `NeverSilent`,
  `ConnectionsEnd`, `LockHoldersAnswer`, `ShowsWhatCounts`, `MaintenanceEnds`), which
  needs ENABLED of fair actions;
- what definitions by recursion over data compute: the loop that selects the final
  answer and the table of places (`ResultsAreRight`), the walk over a forwarding
  header (`AddressIsTrusted`), the loop that writes questions (`RequestIsWritten`).
  The installed provers cannot do an induction over data.

## 7. Not modelled

- *HTTP layer, permissions, serializers*: validation of the form of a request and
  access rules without state; `RequestIdentity` is the part with an algorithm.
- *Admin pages, legal texts, widgets, settings, deployment, load scripts*: pure
  input and output, or configuration. The scripts under `scripts/` drive the
  program from outside and are not part of it.
- *session/migrations/0005*: rewrites the history of the first game in one
  transaction over rows that nobody else writes; what it must preserve is data,
  not an order of steps. The first migrations create empty tables.
- *Gameplay*: the reading of `start` and `start-quiz` in `CommandController`
  (those presses are handled like the three that are there); the broadcasting of
  events and their counters.
- *AnswerController*: a reload of the page and a second tab. Its overlay may stay
  above the server's answer until the phase changes.
- *SessionViews*: the states that answers to commands bring to the teacher's screen
  (source "command", `session_command_controller.dart:114,141`); `CommandController`
  has them.
- *SocketSupervisor*: openings of one session that overlap in the await of the old
  socket's end (`teacher_panel.dart:467`) are one step; a logout during a renewal
  is the loss of the token.
- *VersioningMigrations*: code of the time between the two pairs of migrations.
- *Joining against `start_session`*: the two meet on the lock of the session row;
  `Gameplay` has joining as one step of the lobby and `Admission` has the start as
  one step.
- *Cryptography, digests of tokens, JSON Web Tokens*: names that are never equal
  by accident.

## 8. Plan

Done: the session, its proofs and the game it implements, then versions,
connections, limits, clients, views, guards, locks and migrations; proofs of what the
session records, of the lock order, of the versions with the card they implement, of
the limits of connections, of the teacher's commands and socket, of the screens and
the page of presses, and about rows, joining, displays, token buckets, the reset and the migrations.

Left: if the authors decide what a press that was admitted in time is promised against
an early end, the same in `QuizGame` (section 5, `gameplay.py:366`).
