SPECIFICATION Spec
CONSTANTS
  Shells = {1, 2}
  Habits <- Watched
  MaxPids = 5
  MayGiveUp = FALSE
  MayGoUnseen = FALSE
PROPERTIES
  ForegroundKeepsHelper
CHECK_DEADLOCK FALSE
