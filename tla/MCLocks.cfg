SPECIFICATION Spec
CONSTANTS
  ByKey <- TwoSessions
  Last = 2
  Transactions <- Work
  KindOf <- Kind
  SessionOf <- Of
INVARIANTS NoDeadlock
