SPECIFICATION MCSpec
CONSTANTS
  Shells = {1}
  Habits <- OneUse
  MaxPids = 5
  MayGiveUp = TRUE
  MayGoUnseen = FALSE
  Launchers = {p, q}
  Shipped = {"a", "b"}
  Custom = "c"
  Ini = "i"
  Sizes = {"1", "2"}
  Default = "1"
  TooLarge = "large"
  Comment = "#"
  Settings = {"v"}
  Texts <- MCTexts
  NoSize = "no"
  Keep = 2
INVARIANTS
  GuestRecorded
  HelperRecorded
  NothingLeft
  GuestComesSecond
  UsersFilesKept
PROPERTIES
  ChosenSizeTakesEffect
CHECK_DEADLOCK FALSE
