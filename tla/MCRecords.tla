------------------------------- MODULE MCRecords -------------------------------
(***************************************************************************)
(* The rows of the game and what reads, removes and moves them, a scenario *)
(* each: what any code may write (HistoryGuards, in three parts of its     *)
(* tables), the choice that counts (FinalSelectionCheck), the table of     *)
(* places (Leaderboard, a wide and a long one), the command that empties   *)
(* the tables (GameDataReset), and the migrations that brought the         *)
(* versions (VersioningMigrations), with processes that take them back and *)
(* with containers that start together.                                    *)
(* None of them reads what another one writes here.                        *)
(***************************************************************************)
EXTENDS Records, TLC

CONSTANTS
  quiz, otherQuiz, asked, sibling, otherQuestion, choice, otherChoice,
  s1, s2, r1, p1,
  Scenarios

VARIABLES
  presses,
  schema, members, finalized, answers,
  scenario

places == <<schema, members, finalized, answers>>
all == <<vars, presses, places, reset, migration, scenario>>

\* Two questions of a quiz and one of another, with a choice for two of them.
MCVersionOf == (asked :> quiz) @@ (sibling :> quiz) @@ (otherQuestion :> otherQuiz)
MCQuestionOf == (choice :> asked) @@ (otherChoice :> otherQuestion)

\* Two sessions with one PIN, without runs.
PinsAlone ==
  /\ \A s \in Sessions : session'[s] # NoRow =>
       /\ session'[s].version = quiz /\ session'[s].question = Null /\ session'[s].run = Null
  /\ UNCHANGED <<run, participant, attempt, final, legacy, grant, previous>>

\* One session of a quiz and its run.
GameAlone ==
  /\ session'[s2] = NoRow
  /\ session'[s1] # NoRow => session'[s1].version = quiz
  /\ UNCHANGED <<participant, attempt, final, legacy, grant>>

\* One session and its run with two participants and their answers; a session
\* without current question, and one display.  The run is saved once.
AnswersAlone ==
  /\ session'[s2] = NoRow
  /\ session'[s1] # NoRow => session'[s1].question = Null /\ session'[s1].run = Null
  /\ run'[r1] # NoRow => run'[r1].planned = run'[r1].deadline
  /\ UNCHANGED previous

\* Every history of up to four presses at four moments.
Selection == INSTANCE FinalSelectionCheck WITH
  Choices <- {"a", "b", "c"}, MaxTime <- 3, MaxRows <- 4, attempts <- presses

\* Four participants, so that places 2 or 3 can be shared across the edge of the
\* podium; one run with two times, in both games.
Wide == INSTANCE Leaderboard WITH
  Times <- {1, 3}, Points <- {0, 2}, MaxMembers <- 4, MaxRuns <- 1

\* Two participants and two runs, so that a sum of two times meets one time.
Long == INSTANCE Leaderboard WITH
  Times <- {1, 3}, Points <- {}, MaxMembers <- 2, MaxRuns <- 2

\* Two processes of `migrate', each of which may take the migrations back.
TwoProcesses == proc'["admin"].pc = "stopped"

\* Three containers that start together, once no old code runs.
Deployment == reversals' = 0 /\ data'.old = 0

ScenarioInit ==
  /\ Init /\ Selection!Init /\ scenario \in Scenarios
  /\ CASE scenario = "wide" -> Wide!Init
       [] scenario = "long" -> Long!Init
       [] OTHER -> schema = "stage_b" /\ members = {} /\ finalized = 0 /\ answers = {}
  /\ Reset!Init /\ Migrations!Init
  /\ scenario # "reset" => cmd.mode = "apply" /\ \A t \in DOMAIN rows : rows[t] = 0
  /\ scenario \notin {"migrations", "deployment"} => applied = 4

Alone(next) == next /\ UNCHANGED <<presses, places, reset, migration, scenario>>

Migrates(next) == next /\ UNCHANGED <<vars, presses, places, reset, scenario>>

ScenarioNext ==
  \/ scenario = "pins" /\ Alone(Next /\ PinsAlone)
  \/ scenario = "game" /\ Alone(Next /\ GameAlone)
  \/ scenario = "answers" /\ Alone(Next /\ AnswersAlone)
  \/ /\ scenario = "presses" /\ Selection!Next
     /\ UNCHANGED <<vars, places, reset, migration, scenario>>
  \/ scenario = "wide" /\ Wide!Next /\ UNCHANGED <<vars, presses, reset, migration, scenario>>
  \/ scenario = "long" /\ Long!Next /\ UNCHANGED <<vars, presses, reset, migration, scenario>>
  \/ scenario = "reset" /\ Reset!Next /\ UNCHANGED <<vars, presses, places, migration, scenario>>
  \/ scenario = "migrations" /\ Migrates(Migrations!Next /\ TwoProcesses)
  \/ scenario = "deployment" /\ Migrates(Migrations!Next /\ Deployment)

ScenarioSpec ==
  /\ ScenarioInit /\ [][ScenarioNext]_all
  /\ WF_all(/\ scenario = "reset" /\ Reset!Work
            /\ UNCHANGED <<vars, presses, places, migration, scenario>>)
  /\ \A p \in Processes :
       WF_all(scenario = "deployment" /\ Migrates(Migrations!Step(p) /\ Deployment))

\* The choice and the time that count are those of the definition; equal results
\* share a place, better ones are in front, and a run moves nobody unfairly
\* (gameplay.py 271-280, results.py 14-88).
ResultsAreRight ==
  /\ [](Selection!LoopMatchesDefinition /\ Selection!TimeIsOfTheLastChange)
  /\ Selection!RepeatKeepsTheTime
  /\ [](/\ IF scenario = "long" THEN Long!TypeOK ELSE Wide!TypeOK
        /\ Wide!PlacesAreFair /\ Wide!LegacyPlacesDiffer)
  /\ Wide!RunsCompareFairly

\* The command ends, though its locks and those of the application may wait for each
\* other, and containers that start together all come up (stage_v_game_data.py
\* 58-111, docker-compose.yml 51).
MaintenanceEnds ==
  /\ scenario = "reset" => Reset!EveryRunEnds
  /\ scenario = "deployment" => Migrations!AllComeUp
=============================================================================
