SPECIFICATION FairSpec
CONSTANTS
  Launches = {1, 2}
  Drives = {2, 3}
  Folders <- MCFolders
  C = 2
  MaxAtStop = 1
  Nobody = 0
INVARIANTS
  EveryDriveServed
  EndsClean
  StopIsComplete
PROPERTIES
  LeftoverNotBelieved
  LaunchSettles
CHECK_DEADLOCK FALSE
