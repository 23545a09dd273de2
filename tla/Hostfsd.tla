------------------------------ MODULE Hostfsd ------------------------------
(***************************************************************************)
(* shinogi-hostfsd, the process that serves one host folder to the guest   *)
(* as a drive: its two handle tables, serve() (one action per operation of *)
(* the protocol), and the sessions the tables live through.                *)
(*                                                                         *)
(* The helper is single-threaded and answers one request at a time, so a   *)
(* request is one step.  Other programs of the host change the folder      *)
(* between the steps, the kernel writes pages back when it likes, and the  *)
(* helper, the guest or the whole host may go away between any two.        *)
(*                                                                         *)
(* The contents of a file are one value: mem is what the page cache holds  *)
(* and every process reads, disk is what survives a loss of power.         *)
(***************************************************************************)
EXTENDS HostFolder, FiniteSetsExt

CONSTANTS
  MaxFiles,     (* Slots of the file table (32 in the code).               *)
  MaxDirs,      (* Slots of the directory table (8 in the code).           *)
  Values,       (* What a WRITE may leave in a file.                       *)
  Empty,        (* The contents of a truncated file.                       *)
  ReadOnly,     (* --read-only was given.                                  *)
  NameLen,      (* Bytes of a name, for the size of a READDIR_BATCH reply. *)
  PageBytes,    (* HOSTFS_MAX_REP_DATA.                                    *)
  PageEntries,  (* Entries after which a batch stops (16 in the code).     *)
  Ops,          (* The operations the guest uses in this instance.         *)
  Paths,        (* The paths it names.                                     *)
  GuestRestarts,(* Whether it may start an enumeration again at cookie 0.  *)
  FsyncMayFail, (* Whether the disk may refuse a flush.                    *)
  InitKind, InitRo, InitEntry   (* The folder as the launcher laid it out. *)

AllOps == {"HELLO", "OPEN", "CLOSE", "READ", "WRITE", "STAT", "OPENDIR",
           "READDIR", "READDIR_BATCH", "CLOSEDIR", "CREATE", "DELETE", "RENAME",
           "MKDIR", "RMDIR", "SETATTR", "DFREE", "CAPS", "unknown",
           "host put", "host remove", "host edit", "power loss"}

ASSUME TablesAssumption ==
  /\ MaxFiles \in Nat \ {0}
  /\ MaxDirs \in Nat \ {0}
  /\ Empty \notin Values

ASSUME FlagsAssumption == {ReadOnly, FsyncMayFail, GuestRestarts} \subseteq BOOLEAN

\* The protocol's sizes see to it that no entry is too long for a reply.
ASSUME PageAssumption ==
  /\ NameLen \in [Names -> Nat]
  /\ PageBytes \in Nat
  /\ \A n \in Names : 6 + NameLen[n] <= PageBytes
  /\ PageEntries \in Nat \ {0}

ASSUME InputsAssumption ==
  /\ Ops \subseteq AllOps
  /\ \A p \in Paths : \E n \in 1..2 : p \in [1..n -> Names]

ASSUME InitAssumption ==
  /\ InitKind \in [Inos -> {"file", "dir"}]
  /\ InitRo \in [Inos -> BOOLEAN]
  /\ InitEntry \in [Inos -> [Names -> Inos \cup {Nil}]]

\* The shipping rule of match_fold(): what the guest must find is unique when
\* folded.
ASSUME ShippingAssumption ==
  \A d \in Inos, m, n \in Names :
    InitEntry[d][m] # Nil /\ InitEntry[d][n] # Nil /\ Fold[m] = Fold[n] => m = n

VARIABLES
  mem,          (* mem[i]: the contents of file i, as anyone reads it.     *)
  disk,         (* disk[i]: the contents a loss of power would leave.      *)
  excused,      (* excused[i]: mem[i] is ahead of disk[i] through no       *)
                (* failing of the helper (another program, a bad disk).    *)
  files,        (* The file table.                                         *)
  fds,          (* The process's descriptors: what each one has open.      *)
  dirs,         (* The directory table.                                    *)
  link,         (* "up" while a client is connected, else "down".          *)
  greeted,      (* The guest on the link has said HELLO since it booted.   *)
  held,         (* held[h]: the file the guest was given handle h for.     *)
  scan,         (* scan[h]: how far the guest has read directory handle h. *)
  status        (* The status of the last reply, "none" if no request.     *)

contents == <<mem, disk, excused>>
tables == <<files, fds, dirs>>
guest == <<link, greeted, held, scan>>
vars == <<folder, contents, tables, guest, status>>

FileHandles == 1..MaxFiles
DirHandles == 1..MaxDirs

\* One descriptor more than the table has slots: open() precedes the check
\* that refuses a directory.
Fds == 1..(MaxFiles + 1)
NoFd == 0
Closed == [ino |-> Nil, mode |-> "r"]
Modes == {"r", "w", "rw"}

\* The mode word of an OPEN; any other than the three known opens for reading.
FdMode(mode) == IF mode = "odd" THEN "r" ELSE mode

FreeFile == [used |-> FALSE, fd |-> NoFd, dirty |-> FALSE]
FreeDir == [used |-> FALSE, names |-> <<>>, path |-> <<>>]

\* The guest's side of an enumeration: the cookie of its next READDIR, the
\* names it has been given, and whether it has been told ENMFIL.
NoScan == [cookie |-> 0, seen |-> <<>>, done |-> FALSE]

Reads == {"STAT", "DFREE", "CAPS", "unknown"}

ContentsTypeOK ==
  /\ mem \in [Inos -> Values \cup {Empty}]
  /\ disk \in [Inos -> Values \cup {Empty}]
  /\ excused \in [Inos -> BOOLEAN]

TablesTypeOK ==
  /\ files \in [FileHandles -> [used : BOOLEAN, fd : Fds \cup {NoFd}, dirty : BOOLEAN]]
  /\ fds \in [Fds -> [ino : Inos \cup {Nil}, mode : Modes]]
  /\ dirs \in [DirHandles -> [used : BOOLEAN, names : Seq(Names), path : Seq(Names)]]

GuestTypeOK ==
  /\ link \in {"up", "down"}
  /\ greeted \in BOOLEAN
  /\ held \in [FileHandles -> Inos \cup {Nil}]
  /\ scan \in [DirHandles -> [cookie : Nat, seen : Seq(Names), done : BOOLEAN]]
  /\ status \in Statuses \cup {"none"}

\* The folder, the tables, the descriptors and the guest's handles have their
\* types: no reply carries anything but a GEMDOS error, and no mode word but
\* the three known ones reaches a descriptor.
TypeOK == FolderTypeOK /\ ContentsTypeOK /\ TablesTypeOK /\ GuestTypeOK

-----------------------------------------------------------------------------
(* Handles *)

\* file_of() and dir_of(): a handle is a slot in use.
FileOf(h) == h \in FileHandles /\ files[h].used
DirOf(h) == h \in DirHandles /\ dirs[h].used

InoOf(h) == fds[files[h].fd].ino

\* The inodes handles_reset() commits: open and written to.
DirtyInos == {InoOf(h) : h \in {g \in FileHandles : files[g].used /\ files[g].dirty}}

\* The flushes that fail, when they may.
Failures(inos) == IF FsyncMayFail THEN SUBSET inos ELSE {{}}

\* plat_fsync() of every inode in synced, of which the disk refuses bad.
Fsync(synced, bad) ==
  /\ disk' = [i \in Inos |-> IF i \in synced \ bad THEN mem[i] ELSE disk[i]]
  /\ excused' = [i \in Inos |-> IF i \in synced THEN i \in bad ELSE excused[i]]
  /\ UNCHANGED mem

\* A mutant: the slots are freed and their descriptors stay open.
CloseAll_LeaksFds ==
  /\ files' = [h \in FileHandles |-> FreeFile]
  /\ dirs' = [h \in DirHandles |-> FreeDir]
  /\ UNCHANGED fds

\* The close of every descriptor, and of both tables.
CloseAll ==
  /\ files' = [h \in FileHandles |-> IF files[h].used
                                     THEN [files[h] EXCEPT !.used = FALSE]
                                     ELSE files[h]]
  /\ fds' = [f \in Fds |-> IF \E h \in FileHandles : files[h].used /\ files[h].fd = f
                           THEN Closed ELSE fds[f]]
  /\ dirs' = [h \in DirHandles |-> IF dirs[h].used
                                   THEN [dirs[h] EXCEPT !.used = FALSE, !.names = <<>>]
                                   ELSE dirs[h]]

\* Mutants: the reset drops the files without committing them, or only drops
\* the directories.
HandlesReset_NoCommit == CloseAll /\ UNCHANGED contents
HandlesReset_DirsOnly ==
  /\ dirs' = [h \in DirHandles |-> FreeDir]
  /\ UNCHANGED <<contents, files, fds>>

\* handles_reset(): commit what was written, then drop every handle.
HandlesReset ==
  /\ \E bad \in Failures(DirtyInos) : Fsync(DirtyInos, bad)
  /\ CloseAll

\* The guest forgets every handle: it booted, or its machine is gone.
GuestForgets ==
  /\ held' = [h \in FileHandles |-> Nil]
  /\ scan' = [h \in DirHandles |-> NoScan]

-----------------------------------------------------------------------------
(* serve(): the frame every operation shares *)

\* The guest sends op: it says HELLO before anything else.
Asks(op) ==
  /\ op \in Ops
  /\ link = "up"
  /\ op = "HELLO" \/ greeted

Reply(s) == status' = s /\ UNCHANGED <<link, greeted>>

\* An error reply: the request had no effect.
Refuse(s) ==
  /\ s # "E_OK"
  /\ Reply(s)
  /\ UNCHANGED <<folder, contents, tables, held, scan>>

\* A mutant: the gate does not know SETATTR.
Gated_NoSetattr(op) == ReadOnly /\ op \in {"WRITE", "CREATE", "DELETE", "RENAME",
                                           "MKDIR", "RMDIR", "OPEN for writing"}

\* The gate at the top of serve(): a read-only helper refuses whatever could
\* change the folder before it looks at the request.
Gated(op) == ReadOnly /\ op \in {"WRITE", "CREATE", "DELETE", "RENAME", "MKDIR",
                                 "RMDIR", "SETATTR", "OPEN for writing"}

\* An inode no name and no descriptor refers to is free for reuse.
Free(i) == i # Root /\ ~Linked(i) /\ \A f \in Fds : fds[f].ino # i
FreeInos == {i \in Inos : Free(i)}

\* A mutant: the search for a slot stops at the last one, used or not.
FreeSlots_LastAnyway == {h \in FileHandles : ~files[h].used \/ h = MaxFiles}

FreeSlots == {h \in FileHandles : ~files[h].used}
FreeDirSlots == {h \in DirHandles : ~dirs[h].used}

-----------------------------------------------------------------------------
(* Sessions *)

Hello(version) ==
  /\ Asks("HELLO")
  /\ \/ version = "other" /\ Refuse("EDRIVE")
     \/ /\ version = "known"
        /\ HandlesReset
        /\ GuestForgets
        /\ greeted' = TRUE
        /\ status' = "E_OK"
        /\ UNCHANGED <<folder, link>>

\* A client connects: serve_client() starts from empty tables.
Connect ==
  /\ link = "down"
  /\ link' = "up"
  /\ HandlesReset
  /\ GuestForgets
  /\ greeted' = FALSE
  /\ status' = "none"
  /\ UNCHANGED folder

\* The client goes away (QEMU exits, is killed, or sends a frame that cannot
\* be parsed): serve_client() commits and closes before it returns.
Disconnect ==
  /\ link = "up"
  /\ link' = "down"
  /\ HandlesReset
  /\ GuestForgets
  /\ greeted' = FALSE
  /\ status' = "none"
  /\ UNCHANGED folder

\* The guest resets without the connection dropping; the helper is not told.
Reboot ==
  /\ link = "up" /\ greeted
  /\ greeted' = FALSE
  /\ GuestForgets
  /\ status' = "none"
  /\ UNCHANGED <<folder, contents, tables, link>>

\* The helper's process starts afresh, and with it the guest's session ends.
NewProcess ==
  /\ files' = [h \in FileHandles |-> FreeFile]
  /\ fds' = [f \in Fds |-> Closed]
  /\ dirs' = [h \in DirHandles |-> FreeDir]
  /\ link' = "down"
  /\ greeted' = FALSE
  /\ GuestForgets
  /\ status' = "none"
  /\ UNCHANGED folder

\* The helper is killed: the kernel closes its descriptors and keeps the
\* pages, and nobody is left to commit them.
HelperKilled ==
  /\ NewProcess
  /\ excused' = [i \in Inos |-> excused[i] \/ i \in DirtyInos]
  /\ UNCHANGED <<mem, disk>>

\* The host loses power: only what was on the disk comes back.
PowerLoss ==
  /\ "power loss" \in Ops
  /\ NewProcess
  /\ mem' = disk
  /\ excused' = [i \in Inos |-> FALSE]
  /\ UNCHANGED disk

-----------------------------------------------------------------------------
(* serve(): files *)

\* The slot and the descriptor an open takes: the first free of each.
Opened(i, mode) ==
  \E h \in FileHandles, f \in Fds :
    /\ IsLeast(h, FreeSlots)
    /\ IsLeast(f, {g \in Fds : fds[g] = Closed})
    /\ files' = [files EXCEPT ![h] = [used |-> TRUE, fd |-> f, dirty |-> FALSE]]
    /\ fds' = [fds EXCEPT ![f] = [ino |-> i, mode |-> mode]]
    /\ held' = [held EXCEPT ![h] = i]

\* A full table is reported before open() is called, but after the path is
\* resolved.
TableError(s) == IF FreeSlots = {} THEN "ENHNDL" ELSE s

Open(p, mode) ==
  /\ Asks("OPEN")
  /\ \/ Gated("OPEN for writing") /\ mode # "r" /\ Refuse("EACCDN")
     \/ /\ ~(Gated("OPEN for writing") /\ mode # "r")
        /\ \E t \in Resolve(p) :
             LET s == IF t.dir = Nil THEN "EPTHNF" ELSE TableError(OpenError(t, FdMode(mode)))
             IN  \/ Refuse(s)
                 \/ /\ s = "E_OK"
                    /\ Opened(Object(t), FdMode(mode))
                    /\ Reply(s)
                    /\ UNCHANGED <<folder, contents, dirs, scan>>

\* The file CREATE opens: the one the target names, emptied, or a new one.
\* O_TRUNC is not a write: the slot's dirty flag starts clear either way.
Truncate(i) ==
  /\ mem' = [mem EXCEPT ![i] = Empty]
  /\ UNCHANGED <<folder, disk, excused>>

NewFile(t, i, readonly) ==
  /\ Make(t, i, "file", readonly)
  /\ mem' = [mem EXCEPT ![i] = Empty]
  /\ disk' = [disk EXCEPT ![i] = Empty]
  /\ excused' = [excused EXCEPT ![i] = FALSE]

Create(p, readonly) ==
  /\ Asks("CREATE")
  /\ \/ Gated("CREATE") /\ Refuse("EACCDN")
     \/ /\ ~Gated("CREATE")
        /\ \E t \in Resolve(p) :
             LET s == IF t.dir = Nil THEN "EPTHNF"
                      ELSE TableError(CreateError(t, FreeInos = {}))
             IN  \/ Refuse(s)
                 \/ /\ s = "E_OK"
                    /\ \E i \in Inos :
                         /\ IF Object(t) # Nil
                            THEN i = Object(t) /\ Truncate(i)
                            ELSE IsLeast(i, FreeInos) /\ NewFile(t, i, readonly)
                         /\ Opened(i, "rw")
                    /\ Reply(s)
                    /\ UNCHANGED <<dirs, scan>>

\* CLOSE commits a file that was written to; a flush that fails is logged only.
Close(h) ==
  /\ Asks("CLOSE")
  /\ \/ ~FileOf(h) /\ Refuse("EIHNDL")
     \/ /\ FileOf(h)
        /\ LET synced == IF files[h].dirty THEN {InoOf(h)} ELSE {}
           IN  \E bad \in Failures(synced) : Fsync(synced, bad)
        /\ files' = [files EXCEPT ![h].used = FALSE, ![h].dirty = FALSE]
        /\ fds' = [fds EXCEPT ![files[h].fd] = Closed]
        /\ held' = [held EXCEPT ![h] = Nil]
        /\ Reply("E_OK")
        /\ UNCHANGED <<folder, dirs, scan>>

\* READ answers from mem and changes nothing; a write-only descriptor refuses.
Read(h) ==
  /\ Asks("READ")
  /\ Reply(IF ~FileOf(h) THEN "EIHNDL"
           ELSE IF fds[files[h].fd].mode = "w" THEN "EACCDN" ELSE "E_OK")
  /\ UNCHANGED <<folder, contents, tables, held, scan>>

\* A write that moved at least one byte leaves v in the file and the slot
\* dirty; an empty one changes nothing; one the host refuses (a read-only
\* descriptor, a full disk) is an error.
Write(h, v) ==
  /\ Asks("WRITE")
  /\ \/ Gated("WRITE") /\ Refuse("EACCDN")
     \/ ~Gated("WRITE") /\ ~FileOf(h) /\ Refuse("EIHNDL")
     \/ ~Gated("WRITE") /\ FileOf(h) /\ Refuse("EACCDN")
     \/ /\ ~Gated("WRITE") /\ FileOf(h) /\ fds[files[h].fd].mode # "r"
        /\ mem' = [mem EXCEPT ![InoOf(h)] = v]
        /\ excused' = [excused EXCEPT ![InoOf(h)] = FALSE]
        /\ files' = [files EXCEPT ![h].dirty = TRUE]
        /\ Reply("E_OK")
        /\ UNCHANGED <<folder, disk, fds, dirs, held, scan>>

\* STAT, DFREE, CAPS and an unknown opcode: a reply and nothing else.
Ask(op) ==
  /\ Asks(op)
  /\ op \in Reads
  /\ \/ op = "unknown" /\ Reply("EDRIVE")
     \/ op \in {"DFREE", "CAPS"} /\ Reply("E_OK")
     \/ op = "STAT" /\ \E p \in Paths : \E t \in Resolve(p) : Reply(LookupError(t))
  /\ UNCHANGED <<folder, contents, tables, held, scan>>

-----------------------------------------------------------------------------
(* serve(): directories *)

\* qsort(): the one sequence that lists S in order, as a set.
InOrder(S) ==
  {s \in [1..Cardinality(S) -> S] :
     \A j, k \in 1..Cardinality(S) : j < k => s[j] < s[k]}

\* dir_snapshot(): the entries of directory i that the guest could send back,
\* in strcmp order.
Snapshots(i) == InOrder({n \in GuestNames : Exists(i, n)})

Opendir(p) ==
  /\ Asks("OPENDIR")
  /\ \E t \in IF p = <<>> THEN {Target(Root, 0, p)} ELSE Resolve(p) :
       LET i == IF p = <<>> THEN Root ELSE Object(t)
           s == IF t.dir = Nil THEN "EPTHNF"
                ELSE IF FreeDirSlots = {} THEN "ENHNDL"
                ELSE IF kind[t.dir] # "dir" THEN "EPTHNF" ELSE OpendirError(i)
       IN  \/ Refuse(s)
           \/ /\ s = "E_OK"
              /\ \E h \in DirHandles, names \in Snapshots(i) :
                   /\ IsLeast(h, FreeDirSlots)
                   /\ dirs' = [dirs EXCEPT ![h] =
                                 [used |-> TRUE, names |-> names, path |-> t.path]]
                   /\ scan' = [scan EXCEPT ![h] = NoScan]
              /\ Reply(s)
              /\ UNCHANGED <<folder, contents, files, fds, held>>

\* Mutants: the cookie is taken for the last entry given and not for the next,
\* or for the next and not for the last given.
Live_Repeats(h, cookie) == {k \in cookie..Len(dirs[h].names) :
                              k > 0 /\ Stats(dirs[h].path, dirs[h].names[k])}
Live_Skips(h, cookie) == {k \in (cookie + 2)..Len(dirs[h].names) :
                            Stats(dirs[h].path, dirs[h].names[k])}

\* The entries of h's snapshot after the cookie that still answer stat().
Live(h, cookie) == {k \in (cookie + 1)..Len(dirs[h].names) :
                      Stats(dirs[h].path, dirs[h].names[k])}

\* A frame's worth of them: the batch stops before the entry that does not
\* fit, and after PageEntries of them.  READDIR takes the first.
EntryBytes(h, ks) == MapThenSumSet(LAMBDA k : 6 + NameLen[dirs[h].names[k]], ks)

Page(h, cookie, batch) ==
  LET live == Live(h, cookie)
      upto(k) == {j \in live : j <= k}
  IN  IF batch
      THEN {k \in live : /\ Cardinality(upto(k)) <= PageEntries
                         /\ EntryBytes(h, upto(k)) <= PageBytes}
      ELSE {k \in live : IsLeast(k, live)}

\* A mutant: the cookie does not come back, as over 9p it did not, and every
\* call starts at the beginning.
From_CookieLost(h, restart) == NoScan

\* The guest continues from the cookie of the last reply, or starts again at 0.
From(h, restart) == IF restart THEN NoScan ELSE scan[h]

Readdir(h, batch, restart) ==
  /\ Asks(IF batch THEN "READDIR_BATCH" ELSE "READDIR")
  /\ \/ ~DirOf(h) /\ Refuse("EIHNDL")
     \/ /\ DirOf(h)
        /\ LET from == From(h, restart)
               page == Page(h, from.cookie, batch)
           IN  \/ /\ page = {}
                  /\ scan' = [scan EXCEPT ![h] = [from EXCEPT !.done = TRUE]]
                  /\ Reply("ENMFIL")
               \/ /\ page # {}
                  /\ \E sent \in InOrder(page) :
                       scan' = [scan EXCEPT ![h] =
                                  [cookie |-> sent[Len(sent)],
                                   seen |-> from.seen \o [k \in DOMAIN sent |->
                                                            dirs[h].names[sent[k]]],
                                   done |-> FALSE]]
                  /\ Reply("E_OK")
        /\ UNCHANGED <<folder, contents, tables, held>>

Closedir(h) ==
  /\ Asks("CLOSEDIR")
  /\ \/ ~DirOf(h) /\ Refuse("EIHNDL")
     \/ /\ DirOf(h)
        /\ dirs' = [dirs EXCEPT ![h].used = FALSE, ![h].names = <<>>]
        /\ scan' = [scan EXCEPT ![h] = NoScan]
        /\ Reply("E_OK")
        /\ UNCHANGED <<folder, contents, files, fds, held>>

-----------------------------------------------------------------------------
(* serve(): names *)

\* An operation on one path: the error of the host, or the change.
OnPath(op, p, Error(_), Change(_)) ==
  /\ Asks(op)
  /\ \/ Gated(op) /\ Refuse("EACCDN")
     \/ /\ ~Gated(op)
        /\ \E t \in Resolve(p) :
             LET s == IF t.dir = Nil THEN "EPTHNF" ELSE Error(t)
             IN  \/ Refuse(s)
                 \/ /\ s = "E_OK"
                    /\ Change(t)
                    /\ Reply(s)
                    /\ UNCHANGED <<tables, held, scan>>

Delete(p) ==
  OnPath("DELETE", p, DeleteError,
         LAMBDA t : Unlink(t) /\ UNCHANGED <<kind, ro, contents>>)

Mkdir(p) ==
  OnPath("MKDIR", p, LAMBDA t : MkdirError(t, FreeInos = {}),
         LAMBDA t : \E i \in Inos : IsLeast(i, FreeInos)
                                    /\ Make(t, i, "dir", FALSE)
                                    /\ UNCHANGED contents)

Rmdir(p) ==
  OnPath("RMDIR", p, RmdirError,
         LAMBDA t : Unlink(t) /\ UNCHANGED <<kind, ro, contents>>)

\* Only the read-only bit of the attribute byte has a host meaning.
Setattr(p, readonly) ==
  OnPath("SETATTR", p, LookupError,
         LAMBDA t : /\ ro' = [ro EXCEPT ![Object(t)] = readonly]
                    /\ UNCHANGED <<kind, entry, contents>>)

\* Both paths are resolved before either is touched.
Rename(p, q) ==
  /\ Asks("RENAME")
  /\ \/ Gated("RENAME") /\ Refuse("EACCDN")
     \/ /\ ~Gated("RENAME")
        /\ \E t \in Resolve(p), u \in Resolve(q) :
             LET s == IF Nil \in {t.dir, u.dir} THEN "EPTHNF" ELSE RenameError(t, u)
             IN  \/ Refuse(s)
                 \/ /\ s = "E_OK"
                    /\ Move(t, u)
                    /\ Reply(s)
                    /\ UNCHANGED <<contents, tables, held, scan>>

-----------------------------------------------------------------------------
(* The rest of the host *)

HostStep(op) ==
  /\ op \in Ops
  /\ status' = "none"
  /\ UNCHANGED <<tables, guest>>

\* Another program makes a file.  It keeps to the rule the folder is shipped
\* under: no two names that differ only in case.
HostPut(d, n) ==
  /\ HostStep("host put")
  /\ kind[d] = "dir" /\ (d = Root \/ Linked(d))
  /\ \A m \in Names : Fold[m] = Fold[n] => ~Exists(d, m)
  /\ \E i \in Inos : IsLeast(i, FreeInos)
                     /\ NewFile(Target(d, n, <<n>>), i, FALSE)

HostRemove(d, n) ==
  /\ HostStep("host remove")
  /\ Exists(d, n) /\ kind[entry[d][n]] = "file"
  /\ Unlink(Target(d, n, <<n>>))
  /\ UNCHANGED <<kind, ro, contents>>

\* Another program writes to a file, and commits it or not as it likes.
HostEdit(i, v) ==
  /\ HostStep("host edit")
  /\ kind[i] = "file" /\ Linked(i)
  /\ mem[i] # v
  /\ mem' = [mem EXCEPT ![i] = v]
  /\ excused' = [excused EXCEPT ![i] = TRUE]
  /\ UNCHANGED <<folder, disk>>

\* The kernel writes a page back of its own accord.
Writeback(i) ==
  /\ mem[i] # disk[i]
  /\ disk' = [disk EXCEPT ![i] = mem[i]]
  /\ excused' = [excused EXCEPT ![i] = FALSE]
  /\ status' = "none"
  /\ UNCHANGED <<folder, mem, tables, guest>>

-----------------------------------------------------------------------------
Init ==
  /\ kind = InitKind
  /\ ro = InitRo
  /\ entry = InitEntry
  /\ mem = [i \in Inos |-> Empty]
  /\ disk = mem
  /\ excused = [i \in Inos |-> FALSE]
  /\ files = [h \in FileHandles |-> FreeFile]
  /\ fds = [f \in Fds |-> Closed]
  /\ dirs = [h \in DirHandles |-> FreeDir]
  /\ link = "down"
  /\ greeted = FALSE
  /\ held = [h \in FileHandles |-> Nil]
  /\ scan = [h \in DirHandles |-> NoScan]
  /\ status = "none"

\* A handle number beyond the table stands for every number that is no slot.
FileRequest ==
  \/ \E p \in Paths, mode \in Modes \cup {"odd"} : Open(p, mode)
  \/ \E p \in Paths, readonly \in BOOLEAN : Create(p, readonly)
  \/ \E h \in 0..MaxFiles : Close(h) \/ Read(h) \/ \E v \in Values : Write(h, v)

DirRequest ==
  \/ \E p \in Paths \cup {<<>>} : Opendir(p)
  \/ \E h \in 0..MaxDirs, batch \in BOOLEAN, restart \in {FALSE, GuestRestarts} :
       Readdir(h, batch, restart)
  \/ \E h \in 0..MaxDirs : Closedir(h)

NameRequest ==
  \/ \E p \in Paths : Delete(p) \/ Mkdir(p) \/ Rmdir(p)
  \/ \E p \in Paths, readonly \in BOOLEAN : Setattr(p, readonly)
  \/ \E p, q \in Paths : Rename(p, q)

Request ==
  \/ \E version \in {"known", "other"} : Hello(version)
  \/ FileRequest
  \/ DirRequest
  \/ NameRequest
  \/ \E op \in Reads : Ask(op)

Session == Connect \/ Disconnect \/ Reboot \/ HelperKilled \/ PowerLoss

Host ==
  \/ \E d \in Inos, n \in Names : HostPut(d, n) \/ HostRemove(d, n)
  \/ \E i \in Inos : Writeback(i) \/ \E v \in Values : HostEdit(i, v)

Next == Request \/ Session \/ Host

Spec == Init /\ [][Next]_vars

\* A guest that is enumerating a directory goes on until it is told ENMFIL,
\* and one that has booted says HELLO.
GuestReads ==
  /\ \A h \in DirHandles :
       WF_vars(~scan[h].done /\ DirOf(h) /\ \E batch \in BOOLEAN : Readdir(h, batch, FALSE))
  /\ WF_vars(~greeted /\ Hello("known"))

-----------------------------------------------------------------------------
(* Properties *)

\* Every slot in use owns one open descriptor of its own and every open
\* descriptor belongs to a slot: opens, closes, refused opens and resets in any
\* order neither leak a descriptor nor leave two handles on the same one.
HandleTable ==
  /\ \A h \in FileHandles : files[h].used => files[h].fd \in Fds /\ InoOf(h) # Nil
  /\ \A g, h \in FileHandles :
       files[g].used /\ files[h].used /\ files[g].fd = files[h].fd => g = h
  /\ \A f \in Fds : fds[f] # Closed =>
       \E h \in FileHandles : files[h].used /\ files[h].fd = f

\* A handle the guest holds reaches the file it was given for, whatever became
\* of the file's name since; and once a guest has said HELLO no handle of an
\* earlier guest is still in the table.
HandleFidelity ==
  /\ \A h \in FileHandles : held[h] # Nil => FileOf(h) /\ InoOf(h) = held[h]
  /\ greeted => \A h \in FileHandles : FileOf(h) => held[h] # Nil

\* What a guest wrote is on the disk as soon as no handle that wrote it is
\* open: closed by CLOSE, by HELLO or by the end of the session.  (A file that
\* was only truncated is not covered: CREATE is not a write to the helper.)
CommittedWhenClosed ==
  \A i \in Inos : mem[i] # disk[i] => excused[i] \/ mem[i] = Empty \/ i \in DirtyInos

\* However the guest spells the names it creates, makes and renames to, no
\* directory comes to hold two names that differ only in case, so that the
\* fold of resolve_path() always has one answer.
FoldUnique ==
  \A d \in Inos, m, n \in Names :
    Exists(d, m) /\ Exists(d, n) /\ Fold[m] = Fold[n] => m = n

\* An enumeration gives names in strict strcmp order, none twice, and its
\* cookie stands just after the last one given, whatever mix of READDIR and
\* READDIR_BATCH read it and however the directory changed meanwhile.
ScanInOrder ==
  \A h \in DirHandles :
    LET seen == scan[h].seen
    IN  /\ \A j, k \in DOMAIN seen : j < k => seen[j] < seen[k]
        /\ seen # <<>> => seen[Len(seen)] = dirs[h].names[scan[h].cookie]

\* A read-only helper leaves the folder to the host: no request and no session
\* changes a name, an attribute or a file's contents.
FolderUntouched ==
  [][ReadOnly => Host \/ PowerLoss \/ UNCHANGED <<folder, mem>>]_vars

\* Every enumeration ends: a guest that keeps asking is told ENMFIL, or closes
\* the handle or loses it with the session.
ScanEnds == \A h \in DirHandles : DirOf(h) ~> scan[h].done \/ ~DirOf(h)

-----------------------------------------------------------------------------
(* What the file table is for: the promise of HandleService. *)

\* The file slot h stands for, from the table alone.
Granted(h) == IF files[h].used THEN InoOf(h) ELSE Nil

Service == INSTANCE HandleService
             WITH Handles <- FileHandles, Files <- Inos, NoFile <- Nil,
                  grant <- [h \in FileHandles |-> Granted(h)], open <- greeted

\* The file table keeps the protocol's promise about handles: a number means
\* one file until it is closed, and none outlives the guest it was given to
\* once the next one is greeted.
ServiceSpec == Service!ServiceSpec
=============================================================================
