---------------------------- MODULE MCGameScenarios ----------------------------
(***************************************************************************)
(* Several small instances of Gameplay in one run.  A behaviour belongs to *)
(* one scenario, whose processes and numbers are given to an instance of   *)
(* Gameplay; the processes of the other scenarios stay idle.  What the     *)
(* scenarios have in common is the constants of MCGameplay.                *)
(***************************************************************************)
EXTENDS MCGameplay

CONSTANTS
  p1, p2,                 \* participants
  Scenarios,              \* those of the run
  Overlapping,            \* the answer requests of Retries
  Lonely, Racing          \* workers

ASSUME ScenarioAssumption ==
  Overlapping \subseteq AnswerCalls /\ Lonely \cup Racing = Workers

VARIABLE scenario

\* Two participants press, with a limit of one stored attempt each.
Answers == INSTANCE Gameplay WITH AnswerCalls <- {1, 2}, Workers <- Lonely,
  CommandCalls <- {Start, Begin}, MaxAttempts <- 1

\* One participant sends three overlapping requests to a short question.
Retries == INSTANCE Gameplay WITH Participants <- {p1}, Choices <- CorrectChoices,
  AnswerCalls <- Overlapping, Workers <- Lonely, CommandCalls <- {Start, Begin},
  ReadingTime <- 0, AnswerTime <- 0, ResultsTime <- 0

\* The teacher ends the answers early while presses are in flight.
EarlyEnd == INSTANCE Gameplay WITH Participants <- {p1}, Choices <- CorrectChoices,
  Submissions <- {1}, AnswerCalls <- {1},
  Workers <- Lonely, CommandCalls <- {Start, Begin, End}, AnswerTime <- 2

\* The session is stopped at any moment.
Stopped == INSTANCE Gameplay WITH Participants <- {p1}, Choices <- CorrectChoices,
  Submissions <- {1}, AnswerCalls <- {1},
  Workers <- Lonely, CommandCalls <- {Start, Begin, Abort}

\* An identifier is used again for another kind of command, during the first question.
Repeats == INSTANCE Gameplay WITH AnswerCalls <- {},
  Workers <- Lonely, CommandCalls <- {Start, Begin, End, AbortAsEnd}

\* Two workers race through the questions with stale times.
Race == INSTANCE Gameplay WITH AnswerCalls <- {},
  Workers <- Racing, CommandCalls <- {Start, Begin}, Slack <- 2

\* A worker and the teacher both open the next question.
Opening == INSTANCE Gameplay WITH AnswerCalls <- {},
  Workers <- Lonely, CommandCalls <- {Start, Begin, Open}

\* Requests that nothing tells apart arrive in the order of their numbers, the first
\* with the first identifier from the first participant: other orders are the same
\* but for names.
InOrder ==
  /\ 1 \in Overlapping => answer'[1].participant # p2
  /\ \A a \in Overlapping :
       /\ \A b \in Overlapping : a < b /\ answer'[a].pc = "idle" => answer'[b].pc = "idle"
       /\ answer'[a].submission_id = 2 =>
            \E b \in Overlapping : b < a /\ answer'[b].pc # "idle"

ScenarioInit == Init /\ scenario \in Scenarios

ScenarioNext ==
  /\ \/ scenario = "answers" /\ Answers!Next
     \/ scenario = "retries" /\ Retries!Next
     \/ scenario = "early_end" /\ EarlyEnd!Next
     \/ scenario = "stopped" /\ Stopped!Next
     \/ scenario = "repeats" /\ Repeats!Next /\ Len(runs') <= 1
     \/ scenario = "race" /\ Race!Next
     \/ scenario = "opening" /\ Opening!Next
  /\ InOrder
  /\ UNCHANGED scenario

ScenarioSpec == ScenarioInit /\ [][ScenarioNext]_<<vars, scenario>>

\* Nothing tells two workers apart, and a scenario uses all of them or none.
ScenarioSymmetry == Permutations(Racing)
=============================================================================
