CONSTANTS
  f1 = f1
  f2 = f2
  f3 = f3
  f4 = f4
  Fingers <- MCFingers
  MaxFingers = 2
  MaxTouchPoints = 4
  Buttons = {"Up", "StickLUp", "A", "ZR"}
  Width = 2
SPECIFICATION Spec
SYMMETRY MCSymmetry
INVARIANTS
  ContactsMatchScreen
  PointerFollows
  ReleasedIsUp
PROPERTIES
  TouchProtocol
  NoDoubleActivation
CHECK_DEADLOCK FALSE
