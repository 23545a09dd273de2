SPECIFICATION ScanSpec
CONSTANTS
  Names = {1, 2, 3}
  GuestNames = {1, 2, 3}
  Fold <- MCFold
  Inos = {1, 2, 3, 4}
  Root = 1
  Nil = 0
  MaxFiles = 1
  MaxDirs = 1
  Values = {1}
  Empty = 0
  ReadOnly = FALSE
  NameLen <- MCNameLen
  PageBytes = 16
  PageEntries = 2
  Ops <- ScanOps
  Paths <- Top
  GuestRestarts = TRUE
  FsyncMayFail = FALSE
  InitKind <- TreeKind
  InitRo <- Writable
  InitEntry <- TreeEntry
INVARIANT
  SkippedOnlyIfDeleted
