CONSTANTS
  Times = {0, 1}
  PlatformTasks <- Sendable
  LoopTasks <- UiTasks
  Clients = {1, 2}
  Texts <- MCTexts
  Action <- MCAction
  Faults = {"romfs", "egl", "window", "engine", "run"}
  MaxMessages = 3
  OtherMessages <- MCMessages
  Directory <- MCDirectory
SPECIFICATION Spec
INVARIANTS
  NeverOversleeps
  AnsweredOnce
  TextInStep
  FocusFindsTree
  NothingLeft
PROPERTIES
  RunsEachOnce
  AwaitReturns
  ShutdownEnds
CHECK_DEADLOCK FALSE
