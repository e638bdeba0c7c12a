SPECIFICATION ScenarioSpec
CONSTANTS
  a = a b = b c = c ip = ip subject = subject
  Conns = {a, b}
  Stage = Stage
  AddressOf <- MCAddressOf
  SubjectOf <- MCSubjectOf
  LeaseTtl = 2 StageLimit = 2 IpLimit = 2 AccessLimit = 1
  AuthTimeout = 1 RefreshEvery = 1
  Ends <- NoEnd
PROPERTIES LimitsHold ConnectionsEnd
