SPECIFICATION ScenarioSpec
CONSTANTS
  Role = "participant"
  Runs = 2
  MaxAttempts = 1
  Me = me
  Persons = {me, other}
  QuestionOnlyOnDisplay = TRUE
  ShowChoices = FALSE
  Choices = {a, b}
  Presses <- ThreePresses
  MaxRetries = 2
  None = None
  Room = 2
  Scenarios = {"participant", "account", "display", "presses", "repeats"}
INVARIANTS RolesSeeTheirOwn ScreensAreTrue
PROPERTIES ScreensMoveForward PressesStayShown
CHECK_DEADLOCK FALSE
