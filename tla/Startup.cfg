SPECIFICATION MCSpec
CONSTANTS
  Items = {d, f, g, h}
  Fixed = {h}
  Platforms = {"posix", "windows"}
  ReadOnly = FALSE
  NoItem = NoItem
  Header = 2
  MaxFrame = 3
  BadLengths <- MCBadLengths
  Replies <- MCReplies
  ErrorReply = 2
  Once = TRUE
  MaxSent = 2
  MaxClients = 2
  MaxPolls = 2
  host = host
  data = data
  evil = evil
  sub = sub
  fileIn = fileIn
  fileSub = fileSub
  fileOut = fileOut
  link1 = link1
  link2 = link2
  Chars <- MCChars
  Lower <- MCLower
  Bad = {":"}
  Devices <- MCDevices
  MaxName = 3
  MaxPath = 5
  MaxDepth = 3
  Dirs <- MCDirs
  Files <- MCFiles
  Links <- MCLinks
  Folder = data
  NoNode = NoNode
  Trees <- MCTrees
  Requests <- MCRequests
INVARIANTS
  QemuComesSecond
  FailedLaunchLeavesNothing
  InStep
  WritableForTheGuest
  Contained
  Reaches
PROPERTIES
  SpentHelperEnds
  OnceIsSpentOnASession
  SessionEnds
  WritableInTheEnd
CHECK_DEADLOCK FALSE
