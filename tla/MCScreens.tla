------------------------------- MODULE MCScreens -------------------------------
(***************************************************************************)
(* The screens of the three roles, one in a behaviour: a participant who   *)
(* presses in one question, the teacher of two participants, and a display *)
(* through two questions; and the page on which a participant answers.     *)
(***************************************************************************)
EXTENDS ParticipantScreen

CONSTANT Scenarios

VARIABLE scenario

ThreePresses == 1 .. 3

Participant == INSTANCE SessionViews WITH Runs <- 1, Persons <- {Me}

Account == INSTANCE SessionViews WITH Role <- "account", Runs <- 1

Display == INSTANCE SessionViews WITH Role <- "display", MaxAttempts <- 0, Persons <- {Me}

\* Three presses that are not repeated, the last one when the journal is full.  The
\* choices are alike: the first press is of a fixed one.
Presses3 == INSTANCE AnswerController WITH
  MaxRetries <- 0, MaxAttempts <- Room, attempts <- rows, phase <- stage, run <- execution
LastIsTooMany == execution'[3].pc # "unused" => DOMAIN rows = 1 .. Room
FirstIsFixed == execution'[1].pc # "unused" => execution'[1].choice = CHOOSE c \in Choices : TRUE

\* One press that is repeated.
OnePress == execution'[2].pc = "unused"

ScenarioInit ==
  /\ scenario \in Scenarios /\ Page!Init
  /\ \/ scenario \in {"participant", "presses", "repeats"} /\ Participant!Init
     \/ scenario = "account" /\ Account!Init
     \/ scenario = "display" /\ Display!Init

\* The screens of the teacher and of the display are opened with the first question.
OpenedLate == game'.revision < 2 => reading' = reading

\* To the teacher the two participants are alike: Me is the one who presses first.
MeFirst == \A p \in Persons : attempts'[1][p] <= attempts'[1][Me]

ScenarioNext ==
  /\ \/ scenario = "participant" /\ Participant!Next /\ UNCHANGED page
     \/ scenario = "account" /\ Account!Next /\ OpenedLate /\ MeFirst /\ UNCHANGED page
     \/ scenario = "display" /\ Display!Next /\ OpenedLate /\ UNCHANGED page
     \/ scenario = "presses" /\ Presses3!Next /\ LastIsTooMany /\ FirstIsFixed /\ UNCHANGED vars
     \/ scenario = "repeats" /\ Page!Next /\ OnePress /\ UNCHANGED vars
  /\ UNCHANGED scenario

ScenarioSpec == ScenarioInit /\ [][ScenarioNext]_<<vars, page, scenario>>
=============================================================================
