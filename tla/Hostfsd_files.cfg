SPECIFICATION Spec
CONSTANTS
  Names = {2, 3}
  GuestNames = {2, 3}
  Fold <- MCFold
  Inos = {1, 2, 3}
  Root = 1
  Nil = 0
  MaxFiles = 2
  MaxDirs = 1
  Values = {1}
  Empty = 0
  ReadOnly = FALSE
  NameLen <- MCNameLen
  PageBytes = 20
  PageEntries = 2
  Ops <- FileOps
  Paths <- Top
  GuestRestarts = FALSE
  FsyncMayFail = TRUE
  InitKind <- EmptyKind
  InitRo <- Writable
  InitEntry <- OneFile
INVARIANTS
  HandleTable
  HandleFidelity
  CommittedWhenClosed
