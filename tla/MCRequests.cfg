SPECIFICATION ScenarioSpec
CONSTANTS
  p1 = p1
  p2 = p2
  Participants = {p1, p2}
  Choices = {c1, c2}
  CorrectChoices = {c1}
  CommandIds = {k1, k2, k3, k4, k5}
  CommandIdOf <- MCCommandIdOf
  KindOf <- MCKindOf
  CommandCalls = {Start, Begin, End, AbortAsEnd, Open, Abort}
  ReadingTime = 1
  AnswerTime = 1
  DeliveryWindow = 1
  ResultsTime = 1
  MaxAttempts = 2
  Slack = 1
  Null = Null
  Start = Start
  Begin = Begin
  End = End
  AbortAsEnd = AbortAsEnd
  Open = Open
  Abort = Abort
  k1 = k1
  k2 = k2
  k3 = k3
  k4 = k4
  k5 = k5
  Scenarios = {"answers", "retries", "early_end", "stopped"}
  AnswerCalls = {1, 2, 3}
  Overlapping = {1, 2, 3}
  Submissions = {1, 2}
  Lonely = {w1}
  Racing = {}
  Workers = {w1}
  NumQuestions = 1
INVARIANTS TypeOK FinalsReflectTimelyAttempts AttemptsAreSound DeadlinesAreOrdered
PROPERTIES AttemptsOnlyInCurrentRun DeadlinesOnlyShorten TerminalIsFinal ImplementsGame
