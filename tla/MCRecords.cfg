SPECIFICATION ScenarioSpec
CONSTANTS
  quiz = quiz otherQuiz = otherQuiz
  asked = asked sibling = sibling otherQuestion = otherQuestion
  choice = choice otherChoice = otherChoice
  s1 = s1 s2 = s2 r1 = r1 p1 = p1
  Versions = {quiz, otherQuiz}
  Questions = {asked, sibling, otherQuestion}
  Choices = {choice, otherChoice}
  VersionOf <- MCVersionOf
  QuestionOf <- MCQuestionOf
  Sessions = {s1, s2}
  Runs = {r1}
  Participants = {p1, p2}
  Attempts = {a1, a2}
  Finals = {f1}
  Legacy = {l1}
  Grants = {g1}
  Pins = {pin}
  Persons = {ann, bob}
  Submissions = {x}
  Times = {1}
  Deadlines = {1, 2}
  MaxOrdinal = 1
  Saves = {w1, w2}
  Null = Null
  NoRow = NoRow
  Requests = {"web", "worker"}
  Writes = 2
  Processes = {"backend", "worker", "admin"}
  Running = {"old", "new"}
  Reversals = 1
  MaxRows = 2
  Scenarios = {"pins", "game", "answers", "presses", "wide", "long", "reset", "migrations", "deployment"}
INVARIANTS RowsFit
PROPERTIES HistoryIsKept ResultsAreRight ResetIsHonest MigrationsAreSafe MaintenanceEnds
CHECK_DEADLOCK FALSE
