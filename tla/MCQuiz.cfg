SPECIFICATION ScenarioSpec
CONSTANTS
  Calls = {SaveA, SaveB, LaunchA, LaunchB, ArchiveA, RestoreA, DeleteA, DirectA}
  KindOf <- MCKindOf
  Edits <- MCEdits
  NewContent <- MCNewContent
  Blank = Blank
  Game = Game
  Null = Null
  SaveA = SaveA
  SaveB = SaveB
  LaunchA = LaunchA
  LaunchB = LaunchB
  ArchiveA = ArchiveA
  RestoreA = RestoreA
  DeleteA = DeleteA
  DirectA = DirectA
  Scenarios = {"saves", "archive", "locks", "content"}
INVARIANTS VersionsAreSound RequestIsWritten
PROPERTIES NoLostUpdate ImplementsCard LockHoldersAnswer
CHECK_DEADLOCK FALSE
