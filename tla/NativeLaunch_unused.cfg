SPECIFICATION FairLaunchSpec
CONSTANTS
  Header = 2
  MaxFrame = 3
  BadLengths <- MCBadLengths
  Replies <- MCReplies
  ErrorReply = 2
  Once = TRUE
  MaxSent = 2
  MaxClients = 2
  MaxPolls = 2
PROPERTIES
  HelperEndsWithEmulator
CHECK_DEADLOCK FALSE
