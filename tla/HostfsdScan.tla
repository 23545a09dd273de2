---------------------------- MODULE HostfsdScan ----------------------------
(***************************************************************************)
(* Hostfsd with a history of each enumeration, to say what a listing owes  *)
(* the guest: variables that only watch, added to every step.              *)
(***************************************************************************)
EXTENDS Hostfsd

VARIABLES
  source,   (* source[h]: the directory inode that OPENDIR listed for h.     *)
  kept,     (* kept[h]: the listed names it has held ever since.             *)
  steady    (* steady[h]: the listed names that answered stat() ever since.  *)

history == <<source, kept, steady>>

Listed(h) == {dirs[h].names[k] : k \in DOMAIN dirs[h].names}

HistoryInit ==
  /\ source = [h \in DirHandles |-> Nil]
  /\ kept = [h \in DirHandles |-> {}]
  /\ steady = [h \in DirHandles |-> {}]

Watch ==
  LET opened(h) == ~DirOf(h) /\ DirOf(h)'
  IN  /\ source' = [h \in DirHandles |-> IF ~DirOf(h)' THEN Nil
                                         ELSE IF opened(h) THEN At(dirs[h].path)'
                                         ELSE source[h]]
      /\ kept' = [h \in DirHandles |->
                    {n \in IF opened(h) THEN Listed(h)' ELSE kept[h] :
                       DirOf(h)' /\ entry'[source'[h]][n] # Nil}]
      /\ steady' = [h \in DirHandles |->
                      {n \in IF opened(h) THEN Listed(h)' ELSE steady[h] :
                         DirOf(h)' /\ Stats(dirs[h].path, n)'}]

ScanInit == Init /\ HistoryInit
ScanNext == Next /\ Watch
ScanSpec == ScanInit /\ [][ScanNext]_<<vars, history>>
FairScanSpec == ScanSpec /\ GuestReads

\* A listing that ended left out no entry that could be found the whole time:
\* the files other programs add, remove or put back while the guest pages
\* through it, in pages cut by number or by bytes, never shift an entry out.
ScanComplete ==
  \A h \in DirHandles : scan[h].done =>
    steady[h] \subseteq {scan[h].seen[k] : k \in DOMAIN scan[h].seen}

\* "An enumeration sees the directory as it was at OPENDIR ... a file DELETED
\* afterwards is skipped": an entry that never left the directory is listed.
SkippedOnlyIfDeleted ==
  \A h \in DirHandles : scan[h].done =>
    kept[h] \subseteq {scan[h].seen[k] : k \in DOMAIN scan[h].seen}
=============================================================================
