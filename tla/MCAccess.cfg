SPECIFICATION ScenarioSpec
CONSTANTS
  user = user guest = guest c1 = c1 c2 = c2 c3 = c3 s1 = s1 s2 = s2
  i1 = i1 i2 = i2 i3 = i3 r1 = r1 pin = pin create = create
  None = None
  Sessions = {s1, s2}
  Pins = {1}
  Calls = {c1, c2, c3}
  PersonOf <- MCPersonOf
  Accounts = {user}
  MaxAttempts = 2
  Issues = {i1, i2, i3}
  Revokes = {r1}
  Hour = 1
  MaxNow = 2
  Buckets = {pin, create}
  Checks = {{pin}, {pin, create}}
  Cost = 3
  Capacity <- MCCapacity
  Refill <- MCRefill
  MinTtl = 2
  Second = 2
  StartTime = 2
  MaxTime = 6
  MaxPassed = 4
  Scenarios = {"admission", "display", "limiter", "identity"}
PROPERTIES JoiningIsSafe DisplaysAreSafe LocksAreReturned LimiterHolds AddressIsTrusted
CHECK_DEADLOCK FALSE
