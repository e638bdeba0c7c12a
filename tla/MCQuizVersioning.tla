--------------------------- MODULE MCQuizVersioning ---------------------------
(***************************************************************************)
(* Small instances of QuizVersioning.  An editor sees one question with    *)
(* two choices and may retitle, add a question, rename the shown one,      *)
(* send the form as it was, or remove every question; a renaming comes as  *)
(* a PATCH or as a PUT.  A behaviour belongs to one scenario, which says   *)
(* the requests that are sent.  One scenario is of another module: one     *)
(* request written into the rows of a draft (QuizContentCheck).            *)
(***************************************************************************)
EXTENDS QuizVersioning

CONSTANTS SaveA, SaveB, LaunchA, LaunchB, ArchiveA, RestoreA, DeleteA, DirectA, Scenarios

MCKindOf(c) ==
  CASE c \in {SaveA, SaveB} -> "save"
    [] c \in {LaunchA, LaunchB} -> "launch"
    [] c = ArchiveA -> "archive"
    [] c = RestoreA -> "restore"
    [] c = DeleteA -> "delete"
    [] c = DirectA -> "direct_delete"

TwoChoices == << [text |-> "yes", is_correct |-> TRUE], [text |-> "no"] >>
NewQuestion == [text |-> "new", time_limit_sec |-> 20, choices |-> TwoChoices]

MCNewContent ==
  MergeContent(Defaults, Validated([title |-> "quiz", questions |-> << NewQuestion >>], FALSE))

Entry(question) == [id |-> question.id]

Titles == {[title |-> "quiz"], [title |-> "other"]}
Renames(content) ==
  LET renamed == [questions |-> << Entry(content.questions[1]) @@ [text |-> "renamed"] >>]
  IN {Validated(renamed, partial_verb) : partial_verb \in BOOLEAN}
Adds(content) ==
  {Validated([questions |-> << NewQuestion, Entry(content.questions[1]) >>], TRUE)}

MCEdits(content) ==
  Titles \cup {[questions |-> << >>]}
    \cup (IF content.questions = << >> THEN {} ELSE Renames(content) \cup Adds(content))

\* Fewer edits, for the scenario with more requests.
MCFewEdits(content) == {[title |-> "quiz"], [title |-> "other"]} \cup Renames(content)

VARIABLES
  base, request, partial, version_row, draft_rows, choices, position, item, retained,
  scenario

draft == <<base, request, partial, version_row, draft_rows, choices, position, item, retained>>

\* Two saves race with each other and with two openings.
Saves == INSTANCE QuizVersioning WITH Calls <- {SaveA, SaveB, LaunchA, LaunchB}

\* Opening, archiving, restoring and both deletions race with running games.
Archive == INSTANCE QuizVersioning WITH
  Calls <- {SaveA, LaunchA, ArchiveA, RestoreA, DeleteA, DirectA}, Edits <- MCFewEdits

\* Requests that keep the card while they wait for games.
Locks == INSTANCE QuizVersioning WITH Calls <- {LaunchA, LaunchB, ArchiveA, DeleteA}

Request == INSTANCE QuizContentCheck WITH rows <- draft_rows, version <- version_row

ScenarioInit ==
  /\ Init /\ scenario \in Scenarios
  /\ IF scenario = "content" THEN Request!Init
     ELSE /\ base = 0 /\ request = 0 /\ partial = FALSE /\ version_row = 0
          /\ draft_rows = {} /\ choices = {} /\ position = 0 /\ item = 0 /\ retained = {}

ScenarioNext ==
  \/ scenario = "saves" /\ Saves!Next /\ UNCHANGED <<draft, scenario>>
  \/ scenario = "archive" /\ Archive!Next /\ UNCHANGED <<draft, scenario>>
  \/ scenario = "locks" /\ Locks!Next /\ UNCHANGED <<draft, scenario>>
  \/ scenario = "content" /\ Request!Next /\ UNCHANGED <<vars, scenario>>

ScenarioSpec ==
  /\ ScenarioInit
  /\ [][ScenarioNext]_<<vars, draft, scenario>>
  /\ Fairness

\* The properties of QuizContentCheck: the rows hold what the request meant, by
\* its verb (quiz/serializers.py 11-24, services.py 148-289).
RequestIsWritten ==
  scenario = "content" =>
    Request!RowsHoldTheContent /\ Request!RepeatIsNoChange /\ Request!FieldsAreMeant
=============================================================================
