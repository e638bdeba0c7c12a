\* A worker waits for an answer in flight before it finalizes.
SPECIFICATION FairSpec
CONSTANTS
  Participants = {p1}
  Choices = {c1}
  CorrectChoices = {c1}
  Submissions = {s1}
  CommandIds = {k1, k2, k3, k4, k5}
  Workers = {w1}
  CommandCalls = {Start, Begin}
  AnswerCalls = {a1}
  CommandIdOf <- MCCommandIdOf
  KindOf <- MCKindOf
  NumQuestions = 1
  ReadingTime = 1
  AnswerTime = 1
  DeliveryWindow = 1
  ResultsTime = 1
  MaxAttempts = 1
  Slack = 2
  Null = Null
  Start = Start
  Begin = Begin
  End = End
  AbortAsEnd = AbortAsEnd
  Open = Open
  Abort = Abort
  k1 = k1
  k2 = k2
  k3 = k3
  k4 = k4
  k5 = k5
PROPERTIES
  ResultsStayOpenInFull
