-------------------------- MODULE MCParticipantClient --------------------------
(***************************************************************************)
(* What a participant may count on in the end, a scenario each: the quiz   *)
(* comes to its end (Gameplay), the screen comes to show the session       *)
(* (SessionViews) and the answer that counts (AnswerController).  The      *)
(* three share nothing; a behaviour belongs to one of them.                *)
(***************************************************************************)
EXTENDS MCGameplay

CONSTANTS me, a, b, Scenarios

VARIABLES
  game, members, pressed, in_time, closed, finalized, reading, event, view,
  rows_of_run, phase, net, replies, shown, run, current, retained, local, issued,
  scenario

screen == <<game, members, pressed, in_time, closed, finalized, reading, event, view>>
page == <<rows_of_run, phase, net, replies, shown, run, current, retained, local, issued>>
all == <<vars, screen, page, scenario>>

Screen == INSTANCE SessionViews WITH
  Role <- "participant", Runs <- 1, MaxAttempts <- 1, Me <- me, Persons <- {me},
  QuestionOnlyOnDisplay <- FALSE, ShowChoices <- TRUE,
  joined <- members, attempts <- pressed, inTime <- in_time

\* Two presses, with room for both.
Page == INSTANCE AnswerController WITH
  Choices <- {a, b}, Presses <- 1..2, MaxRetries <- 0, MaxAttempts <- 2,
  attempts <- rows_of_run, None <- Null

\* The socket never comes through.
PollsAlone == reading'["socket"].pc = "idle" /\ ~event'

ScreenMoves == scenario = "screen" /\ UNCHANGED <<vars, page, scenario>>
PageMoves == scenario = "page" /\ UNCHANGED <<vars, screen, scenario>>

ScenarioInit ==
  /\ Init /\ Screen!Init /\ Page!Init
  /\ scenario \in Scenarios

\* The clock of a session that nobody starts does not run for ever.
ScenarioNext ==
  \/ scenario = "quiz" /\ Next /\ UNCHANGED <<screen, page, scenario>>
  \/ scenario # "quiz" /\ Tick /\ UNCHANGED <<screen, page, scenario>>
  \/ clock = Horizon /\ ScreenMoves /\ Screen!Next /\ PollsAlone
  \/ clock = Horizon /\ PageMoves /\ Page!Next

ScenarioSpec ==
  /\ ScenarioInit /\ [][ScenarioNext]_all
  /\ Fairness
  /\ WF_all(ScreenMoves /\ Screen!Read("poll"))
  /\ SF_all(ScreenMoves /\ Screen!Arrive("poll"))
  /\ WF_all(PageMoves /\ Page!MovesOn)
  /\ WF_all(PageMoves /\ Page!Polled)

\* What the polls of a screen reach in the end (AnswerController, SessionViews;
\* participant_panel.dart 461-467).
ShowsWhatCounts ==
  /\ scenario = "page" => Page!ShowsWhatCounts
  /\ scenario = "screen" => Screen!CatchesUp
=============================================================================
