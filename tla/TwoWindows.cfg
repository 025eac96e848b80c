SPECIFICATION WindowSpec
CONSTANTS
  Opener = {o1}
  Nobody = Nobody
  MaxViews = 3
INVARIANT OneWindow
CHECK_DEADLOCK FALSE
