SPECIFICATION ScenarioSpec
CONSTANTS
  p1 = p1
  p2 = p2
  Participants = {p1}
  Choices = {c1}
  CorrectChoices = {c1}
  CommandIds = {k1, k2, k3, k4, k5}
  CommandIdOf <- MCCommandIdOf
  KindOf <- MCKindOf
  CommandCalls = {Start, Begin, End, AbortAsEnd, Open, Abort}
  ReadingTime = 1
  AnswerTime = 1
  DeliveryWindow = 1
  ResultsTime = 1
  MaxAttempts = 2
  Slack = 1
  Null = Null
  Start = Start
  Begin = Begin
  End = End
  AbortAsEnd = AbortAsEnd
  Open = Open
  Abort = Abort
  k1 = k1
  k2 = k2
  k3 = k3
  k4 = k4
  k5 = k5
  Scenarios = {"race", "opening", "repeats"}
  AnswerCalls = {}
  Overlapping = {}
  Submissions = {s1}
  Lonely = {w3}
  Racing = {w1, w2}
  Workers = {w1, w2, w3}
  NumQuestions = 2
SYMMETRY ScenarioSymmetry
INVARIANTS RevisionsAreLogged OneOpenRun
PROPERTIES PhasesStartInOrder
