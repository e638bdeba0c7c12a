-------------------------------- MODULE Records --------------------------------
(***************************************************************************)
(* What becomes of the rows: the saves that the guards let through, and    *)
(* the two operations on whole tables, the command that empties them and   *)
(* the migrations that gave quizzes their versions.  None of the three     *)
(* reads what another one writes here.                                     *)
(***************************************************************************)
EXTENDS HistoryGuards

CONSTANTS Requests, Writes, Processes, Running, Reversals, MaxRows

ASSUME TablesAssumption == MaxRows \in Nat \ {0} /\ Writes \in Nat /\ Reversals \in Nat

VARIABLES
  rows, app, cmd, writes,
  applied, data, proc, reversals

reset == <<rows, app, cmd, writes>>
Reset == INSTANCE GameDataReset

migration == <<applied, data, proc, reversals>>
Migrations == INSTANCE VersioningMigrations

\* The command deletes what it counted before it had the locks, a test keeps every
\* row, and only a write of the application makes it fail
\* (stage_v_game_data.py 58-111).
ResetIsHonest ==
  /\ [](Reset!TypeOK /\ Reset!QuietRunSucceeds)
  /\ Reset!DeletedAsCounted /\ Reset!TestKeepsRows

\* No data are lost on the way forward or back, and none are left of the schema
\* that is not in force (quiz/migrations 0005, 0006, session/migrations 0007, 0008).
MigrationsAreSafe ==
  /\ [](Migrations!TypeOK /\ Migrations!QuizzesFitTheSchema)
  /\ Migrations!NothingIsLost
===============================================================================
