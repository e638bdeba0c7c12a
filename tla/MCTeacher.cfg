SPECIFICATION ScenarioSpec
CONSTANTS
  Presses <- TwoPresses
  MaxRetries = 2
  Questions = 2
  Busy = {"unavailable", "unauthorized"}
  None = None
  HttpRequests = {"r1"}
  Budget <- SmallBudget
  MaxToken = 3
  MaxOpens = 3
  MaxEras = 3
  Scenarios = {"tokens", "repeats", "socket"}
CHECK_DEADLOCK FALSE
INVARIANTS CommandsAreSafe
PROPERTIES OneSocketOneRenewal EveryPressEnds NeverSilent
