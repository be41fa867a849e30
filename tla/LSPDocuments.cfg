SPECIFICATION Spec
CONSTANTS
  Files = {"f1", "f2"}
  Contents = {"a", "b"}
  MaxChanges = 4
INVARIANTS
  EditorContentsWin
PROPERTIES
  ViewBecomesCurrent
CHECK_DEADLOCK FALSE
