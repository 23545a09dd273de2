--------------------------- MODULE HostfsdHandles ---------------------------
(***************************************************************************)
(* Theorems about the handles of Hostfsd: the file table owns exactly the  *)
(* open descriptors, a handle reaches the file it was given for, and the   *)
(* table implements HandleService.                                         *)
(***************************************************************************)
EXTENDS HostfsdProofs

NoneHeld == held' = [h \in FileHandles |-> Nil]

\* All a step may do to the file table, its descriptors and the guest's handles.
Kept == UNCHANGED <<files, fds, held, greeted>>
Taken(i, mode) == greeted /\ greeted' /\ Opened(i, mode)
Dropped(h) ==
  /\ greeted /\ greeted' /\ FileOf(h)
  /\ files' = [files EXCEPT ![h].used = FALSE, ![h].dirty = FALSE]
  /\ fds' = [fds EXCEPT ![files[h].fd] = Closed]
  /\ held' = [held EXCEPT ![h] = Nil]
Dirtied(h) ==
  /\ FileOf(h)
  /\ files' = [files EXCEPT ![h].dirty = TRUE]
  /\ UNCHANGED <<fds, held, greeted>>
Emptied == CloseAll /\ NoneHeld
Forgotten == NoneHeld /\ ~greeted' /\ UNCHANGED <<files, fds>>
Restarted ==
  /\ files' = [h \in FileHandles |-> FreeFile]
  /\ fds' = [f \in Fds |-> Closed]
  /\ NoneHeld /\ ~greeted'

TableStep ==
  \/ Kept \/ Emptied \/ Forgotten \/ Restarted
  \/ \E i \in Inos, mode \in Modes : Taken(i, mode)
  \/ \E h \in FileHandles : Dropped(h) \/ Dirtied(h)

LEMMA RefuseKeeps == ASSUME NEW s, Refuse(s) PROVE Kept
  BY DEF Refuse, Reply, Kept, tables

LEMMA OpenTakes ==
  ASSUME TypeOK, NEW p \in Paths, NEW mode \in Modes \cup {"odd"}, Open(p, mode)
  PROVE  TableStep
<1>1. CASE \E s : Refuse(s)
  BY <1>1, RefuseKeeps DEF TableStep
<1>2. CASE ~\E s : Refuse(s)
  <2>1. PICK t \in Resolve(p) :
          /\ t.dir # Nil /\ TableError(OpenError(t, FdMode(mode))) = "E_OK"
          /\ Opened(Object(t), FdMode(mode))
          /\ Reply("E_OK")
    BY <1>2 DEF Open
  <2>2. Object(t) \in Inos
    <3>1. Object(t) # Nil
      BY <2>1 DEF TableError, OpenError, LookupError
    <3> QED BY <2>1, <3>1, ResolveReached DEF TypeOK, Reached, Object, FolderTypeOK
  <2>3. FdMode(mode) \in Modes
    BY DEF FdMode, Modes
  <2>4. greeted /\ greeted'
    BY <2>1 DEF Open, Asks, Reply
  <2> QED BY <2>1, <2>2, <2>3, <2>4 DEF TableStep, Taken
<1> QED BY <1>1, <1>2

LEMMA CreateTakes ==
  ASSUME NEW p \in Paths, NEW readonly \in BOOLEAN, Create(p, readonly)
  PROVE  TableStep
<1>1. CASE \E s : Refuse(s)
  BY <1>1, RefuseKeeps DEF TableStep
<1>2. CASE ~\E s : Refuse(s)
  <2>1. PICK i \in Inos : Opened(i, "rw")
    BY <1>2 DEF Create
  <2>2. greeted /\ greeted'
    BY <1>2 DEF Create, Asks, Reply
  <2> QED BY <2>1, <2>2 DEF TableStep, Taken, Modes
<1> QED BY <1>1, <1>2

LEMMA HandleRequests ==
  ASSUME NEW h, NEW v, Close(h) \/ Read(h) \/ Write(h, v)
  PROVE  TableStep
<1>1. CASE \E s : Refuse(s)
  BY <1>1, RefuseKeeps DEF TableStep
<1>2. CASE ~\E s : Refuse(s)
  <2>1. CASE Close(h)
    <3>1. Dropped(h) /\ h \in FileHandles
      BY <1>2, <2>1 DEF Close, Dropped, Asks, Reply, FileOf
    <3> QED BY <3>1 DEF TableStep
  <2>2. CASE Read(h)
    BY <2>2 DEF Read, Reply, TableStep, Kept, tables
  <2>3. CASE Write(h, v)
    <3>1. Dirtied(h) /\ h \in FileHandles
      BY <1>2, <2>3 DEF Write, Dirtied, Reply, FileOf
    <3> QED BY <3>1 DEF TableStep
  <2> QED BY <2>1, <2>2, <2>3
<1> QED BY <1>1, <1>2

LEMMA NameRequestsKeep ==
  ASSUME DirRequest \/ NameRequest \/ (\E op \in Reads : Ask(op)) \/ Host
  PROVE  Kept
<1>1. CASE DirRequest
  BY <1>1 DEF DirRequest, Opendir, Readdir, Closedir, Refuse, Reply, Kept, tables
<1>2. CASE NameRequest
  BY <1>2 DEF NameRequest, Delete, Mkdir, Rmdir, Setattr, OnPath, Rename, Refuse, Reply,
              Kept, tables
<1>3. CASE \E op \in Reads : Ask(op)
  BY <1>3 DEF Ask, Reply, Kept, tables
<1>4. CASE Host
  BY <1>4 DEF Host, HostPut, HostRemove, HostEdit, HostStep, Writeback, Kept, tables, guest
<1> QED BY <1>1, <1>2, <1>3, <1>4

LEMMA SessionEmpties ==
  ASSUME SessionStep
  PROVE  TableStep
<1>1. ASSUME NEW version, Hello(version)
      PROVE  TableStep
  <2>1. CASE Refuse("EDRIVE")
    BY <2>1, RefuseKeeps DEF TableStep
  <2>2. CASE ~Refuse("EDRIVE")
    BY <2>2, <1>1 DEF Hello, HandlesReset, GuestForgets, TableStep, Emptied, NoneHeld
  <2> QED BY <2>1, <2>2
<1>2. CASE Connect \/ Disconnect
  BY <1>2 DEF Connect, Disconnect, HandlesReset, GuestForgets, TableStep, Emptied, NoneHeld
<1>3. CASE Reboot
  BY <1>3 DEF Reboot, GuestForgets, TableStep, Forgotten, NoneHeld, tables
<1>4. CASE HelperKilled \/ PowerLoss
  BY <1>4 DEF HelperKilled, PowerLoss, NewProcess, GuestForgets, TableStep, Restarted, NoneHeld
<1> QED BY <1>1, <1>2, <1>3, <1>4 DEF SessionStep, Session

LEMMA NextTableStep == TypeOK /\ [Next]_vars => TableStep
<1> SUFFICES ASSUME TypeOK, [Next]_vars PROVE TableStep
  OBVIOUS
<1>1. CASE UNCHANGED vars
  BY <1>1 DEF vars, tables, guest, TableStep, Kept
<1>2. CASE FileRequest
  BY <1>2, OpenTakes, CreateTakes, HandleRequests DEF FileRequest
<1>3. CASE DirRequest \/ NameRequest \/ (\E op \in Reads : Ask(op)) \/ Host
  BY <1>3, NameRequestsKeep DEF TableStep
<1>4. CASE SessionStep
  BY <1>4, SessionEmpties
<1> QED BY <1>1, <1>2, <1>3, <1>4 DEF Next, Request, SessionStep
-----------------------------------------------------------------------------
(***************************************************************************)
(* The inductive invariant: HandleTable and HandleFidelity, which need     *)
(* each other only through the descriptors, over well-typed states.        *)
(***************************************************************************)
HandlesOK == HandleTable /\ HandleFidelity

LEMMA ClosedHasNoFile == Closed \in [ino : {Nil}, mode : Modes]
  BY DEF Closed, Modes

LEMMA InitHandles == Init => HandlesOK
  BY DEF Init, HandlesOK, HandleTable, HandleFidelity, FreeFile, FileOf

\* What an open changes, in one slot and one descriptor that were free.
OpenedAt(h, f, i, mode) ==
  /\ ~files[h].used /\ fds[f] = Closed
  /\ files'[h] = [used |-> TRUE, fd |-> f, dirty |-> FALSE]
  /\ fds'[f] = [ino |-> i, mode |-> mode]
  /\ held'[h] = i
  /\ \A g \in FileHandles \ {h} : files'[g] = files[g] /\ held'[g] = held[g]
  /\ \A e \in Fds \ {f} : fds'[e] = fds[e]

LEMMA OpenedFacts ==
  ASSUME TypeOK, NEW i \in Inos, NEW mode, Opened(i, mode)
  PROVE  \E h \in FileHandles, f \in Fds : OpenedAt(h, f, i, mode)
<1>1. PICK h \in FileHandles, f \in Fds :
        /\ IsLeast(h, FreeSlots)
        /\ IsLeast(f, {g \in Fds : fds[g] = Closed})
        /\ files' = [files EXCEPT ![h] = [used |-> TRUE, fd |-> f, dirty |-> FALSE]]
        /\ fds' = [fds EXCEPT ![f] = [ino |-> i, mode |-> mode]]
        /\ held' = [held EXCEPT ![h] = i]
  BY DEF Opened
<1>2. ~files[h].used /\ fds[f] = Closed
  BY <1>1 DEF IsLeast, FreeSlots
<1>3. DOMAIN files = FileHandles /\ DOMAIN fds = Fds /\ DOMAIN held = FileHandles
  BY DEF TypeOK, TablesTypeOK, GuestTypeOK
<1>4. /\ files'[h] = [used |-> TRUE, fd |-> f, dirty |-> FALSE]
      /\ \A g \in FileHandles \ {h} : files'[g] = files[g]
  BY <1>1, <1>3
<1>5. fds'[f] = [ino |-> i, mode |-> mode] /\ \A e \in Fds \ {f} : fds'[e] = fds[e]
  BY <1>1, <1>3
<1>6. held'[h] = i /\ \A g \in FileHandles \ {h} : held'[g] = held[g]
  BY <1>1, <1>3
<1>7. OpenedAt(h, f, i, mode)
  BY <1>2, <1>4, <1>5, <1>6 DEF OpenedAt
<1> QED BY <1>7

LEMMA TakenKeeps ==
  ASSUME TypeOK, HandlesOK, NEW i \in Inos, NEW mode \in Modes, Taken(i, mode)
  PROVE  HandlesOK'
<1>1. PICK h \in FileHandles, f \in Fds : OpenedAt(h, f, i, mode)
  BY OpenedFacts DEF Taken
<1>2. i # Nil
  BY AssumptionsHold DEF Assumptions
<1>3. \A g \in FileHandles \ {h} : files[g].used => files[g].fd \in Fds \ {f}
  BY <1>1, ClosedHasNoFile DEF OpenedAt, HandlesOK, HandleTable, InoOf
<1>4. HandleTable'
  BY <1>1, <1>2, <1>3 DEF OpenedAt, HandlesOK, HandleTable, InoOf
<1>5. HandleFidelity'
  BY <1>1, <1>2, <1>3 DEF OpenedAt, HandlesOK, HandleFidelity, FileOf, InoOf, Taken
<1> QED BY <1>4, <1>5 DEF HandlesOK

LEMMA DroppedKeeps ==
  ASSUME TypeOK, HandlesOK, NEW h \in FileHandles, Dropped(h)
  PROVE  HandlesOK'
<1>1. /\ ~files'[h].used /\ held'[h] = Nil
      /\ \A g \in FileHandles \ {h} : files'[g] = files[g] /\ held'[g] = held[g]
  BY DEF Dropped, TypeOK, TablesTypeOK, GuestTypeOK
<1>2. /\ files[h].used /\ files[h].fd \in Fds
      /\ fds'[files[h].fd] = Closed
      /\ \A e \in Fds \ {files[h].fd} : fds'[e] = fds[e]
  BY DEF Dropped, FileOf, HandlesOK, HandleTable, TypeOK, TablesTypeOK
<1>3. \A g \in FileHandles \ {h} : files[g].used => files[g].fd \in Fds \ {files[h].fd}
  BY <1>2 DEF HandlesOK, HandleTable
<1>4. HandleTable'
  BY <1>1, <1>2, <1>3 DEF HandlesOK, HandleTable, InoOf
<1>5. HandleFidelity'
  <2>1. \A g \in FileHandles \ {h} : files[g].used => InoOf(g)' = InoOf(g)
    BY <1>1, <1>2, <1>3 DEF InoOf
  <2>2. \A g \in FileHandles : held'[g] # Nil => FileOf(g)' /\ InoOf(g)' = held'[g]
    BY <1>1, <2>1 DEF HandlesOK, HandleFidelity, FileOf
  <2>3. \A g \in FileHandles : FileOf(g)' => held'[g] # Nil
    BY <1>1 DEF HandlesOK, HandleFidelity, FileOf, Dropped
  <2> QED BY <2>2, <2>3 DEF HandleFidelity
<1> QED BY <1>4, <1>5 DEF HandlesOK

LEMMA DirtiedKeeps ==
  ASSUME TypeOK, HandlesOK, NEW h \in FileHandles, Dirtied(h)
  PROVE  HandlesOK'
<1>1. \A g \in FileHandles : files'[g].used = files[g].used /\ files'[g].fd = files[g].fd
  BY DEF Dirtied, TypeOK, TablesTypeOK
<1>2. fds' = fds /\ held' = held /\ greeted' = greeted
  BY DEF Dirtied
<1> QED BY <1>1, <1>2 DEF HandlesOK, HandleTable, HandleFidelity, FileOf, InoOf

LEMMA EmptiedKeeps ==
  ASSUME TypeOK, HandlesOK, Emptied \/ Restarted
  PROVE  HandlesOK'
<1>1. \A h \in FileHandles : held'[h] = Nil
  BY DEF Emptied, Restarted, NoneHeld
<1>2. \A h \in FileHandles : ~files'[h].used
  <2>1. CASE Emptied
    <3>1. \A h \in FileHandles : [files[h] EXCEPT !.used = FALSE].used = FALSE
      BY DEF TypeOK, TablesTypeOK
    <3> QED BY <2>1, <3>1 DEF Emptied, CloseAll
  <2>2. CASE Restarted
    BY <2>2 DEF Restarted, FreeFile
  <2> QED BY <2>1, <2>2
<1>3. \A f \in Fds : fds'[f] = Closed
  <2>1. CASE Emptied
    BY <2>1 DEF Emptied, CloseAll, HandlesOK, HandleTable
  <2>2. CASE Restarted
    BY <2>2 DEF Restarted
  <2> QED BY <2>1, <2>2
<1> QED BY <1>1, <1>2, <1>3 DEF HandlesOK, HandleTable, HandleFidelity, FileOf

LEMMA StepHandles == TypeOK /\ HandlesOK /\ [Next]_vars => HandlesOK'
<1> SUFFICES ASSUME TypeOK, HandlesOK, [Next]_vars PROVE HandlesOK'
  OBVIOUS
<1>1. TableStep
  BY NextTableStep
<1>2. CASE Kept
  BY <1>2 DEF Kept, HandlesOK, HandleTable, HandleFidelity, FileOf, InoOf
<1>3. CASE Forgotten
  BY <1>3 DEF Forgotten, NoneHeld, HandlesOK, HandleTable, HandleFidelity, FileOf, InoOf
<1> QED BY <1>1, <1>2, <1>3, TakenKeeps, DroppedKeeps, DirtiedKeeps, EmptiedKeeps
        DEF TableStep

\* The file table and the process's descriptors always match one to one:
\* nothing the guest, the session or the host does leaks a descriptor or gives
\* two handles the same one.
THEOREM TableCorrect == Spec => []HandleTable
<1>1. Init => TypeOK /\ HandlesOK
  BY InitType, InitHandles
<1>2. TypeOK /\ HandlesOK /\ [Next]_vars => TypeOK' /\ HandlesOK'
  BY StepType, StepHandles
<1>3. HandlesOK => HandleTable
  BY DEF HandlesOK
<1> QED BY <1>1, <1>2, <1>3, PTL DEF Spec

\* A handle reaches the file it was given for until it is closed, and no
\* handle of an earlier guest survives the greeting of the next.
THEOREM HandlesFaithful == Spec => []HandleFidelity
<1>1. Init => TypeOK /\ HandlesOK
  BY InitType, InitHandles
<1>2. TypeOK /\ HandlesOK /\ [Next]_vars => TypeOK' /\ HandlesOK'
  BY StepType, StepHandles
<1>3. HandlesOK => HandleFidelity
  BY DEF HandlesOK
<1> QED BY <1>1, <1>2, <1>3, PTL DEF Spec

-----------------------------------------------------------------------------
(***************************************************************************)
(* The refinement: every step of the helper is a step of HandleService, or *)
(* leaves what the table grants alone.                                     *)
(***************************************************************************)
Grants == [h \in FileHandles |-> Granted(h)]
NoGrants == [h \in FileHandles |-> Nil]

LEMMA TakenGrants ==
  ASSUME TypeOK, HandlesOK, NEW i \in Inos, NEW mode \in Modes, Taken(i, mode)
  PROVE  Service!ServiceNext
<1>1. PICK h \in FileHandles, f \in Fds : OpenedAt(h, f, i, mode)
  BY OpenedFacts DEF Taken
<1>2. \A g \in FileHandles \ {h} : files[g].used => files[g].fd \in Fds \ {f}
  BY <1>1, ClosedHasNoFile DEF OpenedAt, HandlesOK, HandleTable, InoOf
<1>3. Granted(h) = Nil /\ Granted(h)' = i
  BY <1>1 DEF OpenedAt, Granted, InoOf
<1>4. \A g \in FileHandles \ {h} : Granted(g)' = Granted(g)
  BY <1>1, <1>2 DEF OpenedAt, Granted, InoOf
<1>5. Grants' = [Grants EXCEPT ![h] = i]
  BY <1>3, <1>4 DEF Grants
<1>6. Service!Grant(h, i)
  BY <1>3, <1>5 DEF Service!Grant, Grants, Taken
<1> QED BY <1>6 DEF Service!ServiceNext

LEMMA DroppedReleases ==
  ASSUME TypeOK, HandlesOK, NEW h \in FileHandles, Dropped(h)
  PROVE  Service!ServiceNext
<1>1. /\ ~files'[h].used
      /\ \A g \in FileHandles \ {h} : files'[g] = files[g]
  BY DEF Dropped, TypeOK, TablesTypeOK
<1>2. /\ files[h].used /\ files[h].fd \in Fds
      /\ \A e \in Fds \ {files[h].fd} : fds'[e] = fds[e]
  BY DEF Dropped, FileOf, HandlesOK, HandleTable, TypeOK, TablesTypeOK
<1>3. \A g \in FileHandles \ {h} : files[g].used => files[g].fd \in Fds \ {files[h].fd}
  BY <1>2 DEF HandlesOK, HandleTable
<1>4. Granted(h) # Nil /\ Granted(h)' = Nil
  BY <1>1, <1>2 DEF Granted, HandlesOK, HandleTable
<1>5. \A g \in FileHandles \ {h} : Granted(g)' = Granted(g)
  BY <1>1, <1>2, <1>3 DEF Granted, InoOf
<1>6. Grants' = [Grants EXCEPT ![h] = Nil]
  <2>1. \A g \in FileHandles : Granted(g)' = IF g = h THEN Nil ELSE Granted(g)
    BY <1>4, <1>5
  <2> QED BY <2>1 DEF Grants
<1>7. Service!Release(h)
  BY <1>4, <1>6 DEF Service!Release, Grants, Dropped
<1> QED BY <1>7 DEF Service!ServiceNext

LEMMA EmptiedEnds ==
  ASSUME TypeOK, TypeOK', Emptied \/ Restarted
  PROVE  Service!ServiceNext
<1>1. \A h \in FileHandles : ~files'[h].used
  <2>1. CASE Emptied
    <3>1. \A h \in FileHandles : [files[h] EXCEPT !.used = FALSE].used = FALSE
      BY DEF TypeOK, TablesTypeOK
    <3> QED BY <2>1, <3>1 DEF Emptied, CloseAll
  <2>2. CASE Restarted
    BY <2>2 DEF Restarted, FreeFile
  <2> QED BY <2>1, <2>2
<1>2. Grants' = NoGrants
  BY <1>1 DEF Grants, NoGrants, Granted
<1>3. greeted' \in BOOLEAN
  BY DEF TypeOK, GuestTypeOK
<1>4. CASE greeted' = TRUE
  BY <1>2, <1>4 DEF Service!Greet, Service!ServiceNext, Grants, NoGrants
<1>5. CASE greeted' = FALSE
  BY <1>2, <1>5 DEF Service!End, Service!ServiceNext, Grants, NoGrants
<1> QED BY <1>3, <1>4, <1>5

LEMMA KeptStutters ==
  ASSUME TypeOK, Kept \/ \E h \in FileHandles : Dirtied(h)
  PROVE  UNCHANGED <<Grants, greeted>>
<1>1. \A h \in FileHandles : files'[h].used = files[h].used /\ files'[h].fd = files[h].fd
  BY DEF Kept, Dirtied, TypeOK, TablesTypeOK
<1>2. fds' = fds /\ greeted' = greeted
  BY DEF Kept, Dirtied
<1> QED BY <1>1, <1>2 DEF Grants, Granted, InoOf

LEMMA ForgottenLoses ==
  ASSUME TypeOK, TypeOK', Forgotten
  PROVE  Service!ServiceNext
<1>1. Grants' = Grants
  BY DEF Forgotten, Grants, Granted, InoOf
<1>2. greeted' = FALSE
  BY DEF Forgotten, TypeOK, GuestTypeOK
<1> QED BY <1>1, <1>2 DEF Service!Lose, Service!ServiceNext, Grants

\* The file table keeps the promise of the protocol header: the detailed
\* helper implements HandleService.
THEOREM TableImplementsService == Spec => ServiceSpec
<1>1. Init => TypeOK /\ HandlesOK
  BY InitType, InitHandles
<1>2. TypeOK /\ HandlesOK /\ [Next]_vars => TypeOK' /\ HandlesOK'
  BY StepType, StepHandles
<1>3. Init => Service!ServiceInit
  BY DEF Init, Service!ServiceInit, Service!AllReleased, Granted, FreeFile
<1>4. TypeOK /\ TypeOK' /\ HandlesOK /\ [Next]_vars
        => [Service!ServiceNext]_<<Grants, greeted>>
  <2> SUFFICES ASSUME TypeOK, TypeOK', HandlesOK, [Next]_vars
               PROVE  [Service!ServiceNext]_<<Grants, greeted>>
    OBVIOUS
  <2>1. TableStep
    BY NextTableStep
  <2> QED BY <2>1, TakenGrants, DroppedReleases, EmptiedEnds, KeptStutters, ForgottenLoses
          DEF TableStep
<1> QED BY <1>1, <1>2, <1>3, <1>4, PTL DEF Spec, ServiceSpec, Service!ServiceSpec, Grants

-----------------------------------------------------------------------------
(* What a guest wrote is committed once it is closed. *)

LEMMA InitCommitted == Init => CommittedWhenClosed
  BY DEF Init, CommittedWhenClosed

(* The dirty files across the steps of the table *)

LEMMA KeptDirty ==
  ASSUME Kept \/ Forgotten
  PROVE  DirtyInos' = DirtyInos
  BY DEF Kept, Forgotten, DirtyInos, InoOf

LEMMA TakenDirty ==
  ASSUME TypeOK, HandlesOK, NEW i \in Inos, NEW mode \in Modes, Taken(i, mode)
  PROVE  DirtyInos \subseteq DirtyInos'
<1>1. PICK h \in FileHandles, f \in Fds : OpenedAt(h, f, i, mode)
  BY OpenedFacts DEF Taken
<1>2. \A g \in FileHandles : files[g].used => g # h /\ files[g].fd \in Fds \ {f}
  BY <1>1, ClosedHasNoFile DEF OpenedAt, HandlesOK, HandleTable, InoOf
<1>3. \A g \in FileHandles : files[g].used => files'[g] = files[g] /\ InoOf(g)' = InoOf(g)
  BY <1>1, <1>2 DEF OpenedAt, InoOf
<1> QED BY <1>3 DEF DirtyInos

LEMMA DroppedDirty ==
  ASSUME TypeOK, HandlesOK, NEW h \in FileHandles, Dropped(h)
  PROVE  /\ DirtyInos \ {InoOf(h)} \subseteq DirtyInos'
         /\ ~files[h].dirty => DirtyInos \subseteq DirtyInos'
<1>1. \A g \in FileHandles \ {h} : files'[g] = files[g]
  BY DEF Dropped, TypeOK, TablesTypeOK
<1>2. /\ files[h].used /\ files[h].fd \in Fds
      /\ \A e \in Fds \ {files[h].fd} : fds'[e] = fds[e]
  BY DEF Dropped, FileOf, HandlesOK, HandleTable, TypeOK, TablesTypeOK
<1>3. \A g \in FileHandles \ {h} : files[g].used => InoOf(g)' = InoOf(g)
  BY <1>1, <1>2 DEF HandlesOK, HandleTable, InoOf
<1>4. \A g \in FileHandles \ {h} : files[g].used /\ files[g].dirty => InoOf(g) \in DirtyInos'
  BY <1>1, <1>3 DEF DirtyInos
<1> QED BY <1>4 DEF DirtyInos

LEMMA DirtiedDirty ==
  ASSUME TypeOK, NEW h \in FileHandles, Dirtied(h)
  PROVE  DirtyInos \cup {InoOf(h)} \subseteq DirtyInos'
<1>1. \A g \in FileHandles : /\ files'[g].used = files[g].used
                             /\ files'[g].fd = files[g].fd
                             /\ files[g].dirty => files'[g].dirty
  BY DEF Dirtied, TypeOK, TablesTypeOK
<1>2. files'[h].used /\ files'[h].dirty
  BY <1>1 DEF Dirtied, FileOf, TypeOK, TablesTypeOK
<1>3. \A g \in FileHandles : InoOf(g)' = InoOf(g)
  BY <1>1 DEF Dirtied, InoOf
<1>4. \A g \in FileHandles : files[g].used /\ files[g].dirty => InoOf(g) \in DirtyInos'
  BY <1>1, <1>3 DEF DirtyInos
<1>5. InoOf(h) \in DirtyInos'
  BY <1>2, <1>3 DEF DirtyInos
<1> QED BY <1>4, <1>5 DEF DirtyInos

-----------------------------------------------------------------------------
(* One lemma per kind of step *)

LEMMA SameContents ==
  ASSUME CommittedWhenClosed, UNCHANGED contents, DirtyInos \subseteq DirtyInos'
  PROVE  CommittedWhenClosed'
  BY DEF CommittedWhenClosed, contents

LEMMA NewFileCommitted ==
  ASSUME TypeOK, CommittedWhenClosed, NEW t, NEW i \in Inos, NEW readonly,
         NewFile(t, i, readonly) \/ Truncate(i), DirtyInos \subseteq DirtyInos'
  PROVE  CommittedWhenClosed'
<1>1. mem'[i] = Empty
  BY DEF NewFile, Truncate, TypeOK, ContentsTypeOK
<1>2. \A j \in Inos \ {i} : mem'[j] = mem[j] /\ disk'[j] = disk[j] /\ excused'[j] = excused[j]
  BY DEF NewFile, Truncate, TypeOK, ContentsTypeOK
<1> QED BY <1>1, <1>2 DEF CommittedWhenClosed

LEMMA RefuseCommitted ==
  ASSUME CommittedWhenClosed, NEW s, Refuse(s)
  PROVE  CommittedWhenClosed'
  BY RefuseKeeps, KeptDirty, SameContents DEF Refuse

LEMMA FsyncCommits ==
  ASSUME TypeOK, CommittedWhenClosed, NEW synced, NEW bad, Fsync(synced, bad),
         DirtyInos \ synced \subseteq DirtyInos'
  PROVE  CommittedWhenClosed'
<1> SUFFICES ASSUME NEW i \in Inos, mem'[i] # disk'[i]
             PROVE  excused'[i] \/ mem'[i] = Empty \/ i \in DirtyInos'
  BY DEF CommittedWhenClosed
<1>1. mem'[i] = mem[i]
  BY DEF Fsync
<1>2. CASE i \in synced
  <2>1. i \in bad
    BY <1>1, <1>2 DEF Fsync
  <2> QED BY <1>2, <2>1 DEF Fsync
<1>3. CASE i \notin synced
  <2>1. disk'[i] = disk[i] /\ excused'[i] = excused[i]
    BY <1>3 DEF Fsync
  <2> QED BY <1>1, <1>3, <2>1 DEF CommittedWhenClosed
<1> QED BY <1>2, <1>3

LEMMA FileRequestCommits ==
  ASSUME TypeOK, HandlesOK, CommittedWhenClosed, FileRequest
  PROVE  CommittedWhenClosed'
<1>1. CASE \E s : Refuse(s)
  BY <1>1, RefuseCommitted
<1>2. CASE ~\E s : Refuse(s)
  <2>1. ASSUME NEW p \in Paths, NEW mode \in Modes \cup {"odd"}, Open(p, mode)
        PROVE  CommittedWhenClosed'
    <3>1. PICK t \in Resolve(p) :
            /\ t.dir # Nil /\ TableError(OpenError(t, FdMode(mode))) = "E_OK"
            /\ Opened(Object(t), FdMode(mode))
            /\ Reply("E_OK")
            /\ UNCHANGED contents
      BY <1>2, <2>1 DEF Open
    <3>2. Object(t) \in Inos
      <4>1. Object(t) # Nil
        BY <3>1 DEF TableError, OpenError, LookupError
      <4> QED BY <3>1, <4>1, ResolveReached DEF TypeOK, Reached, Object, FolderTypeOK
    <3>3. Taken(Object(t), FdMode(mode)) /\ FdMode(mode) \in Modes
      BY <2>1, <3>1 DEF Open, Asks, Reply, Taken, FdMode, Modes
    <3> QED BY <3>1, <3>2, <3>3, TakenDirty, SameContents
  <2>2. ASSUME NEW p \in Paths, NEW readonly \in BOOLEAN, Create(p, readonly)
        PROVE  CommittedWhenClosed'
    <3>1. PICK t \in Resolve(p), i \in Inos :
            (NewFile(t, i, readonly) \/ Truncate(i)) /\ Opened(i, "rw")
      BY <1>2, <2>2 DEF Create
    <3>2. Taken(i, "rw") /\ "rw" \in Modes
      BY <1>2, <2>2, <3>1 DEF Create, Asks, Reply, Taken, Modes
    <3> QED BY <3>1, <3>2, TakenDirty, NewFileCommitted
  <2>3. ASSUME NEW h, Close(h)
        PROVE  CommittedWhenClosed'
    <3>1. h \in FileHandles /\ Dropped(h)
      BY <1>2, <2>3 DEF Close, Dropped, Asks, Reply, FileOf
    <3> DEFINE synced == IF files[h].dirty THEN {InoOf(h)} ELSE {}
    <3>2. PICK bad \in Failures(synced) : Fsync(synced, bad)
      BY <1>2, <2>3 DEF Close
    <3>3. DirtyInos \ synced \subseteq DirtyInos'
      BY <3>1, DroppedDirty
    <3> QED BY <3>2, <3>3, FsyncCommits
  <2>4. ASSUME NEW h, Read(h)
        PROVE  CommittedWhenClosed'
    BY <2>4, KeptDirty, SameContents DEF Read, Reply, Kept, tables
  <2>5. ASSUME NEW h, NEW v \in Values, Write(h, v)
        PROVE  CommittedWhenClosed'
    <3>1. h \in FileHandles /\ Dirtied(h)
      BY <1>2, <2>5 DEF Write, Dirtied, Reply, FileOf
    <3>2. InoOf(h) \in Inos
      BY <3>1 DEF Dirtied, FileOf, HandlesOK, HandleTable, TypeOK, TablesTypeOK, InoOf
    <3>3. /\ mem' = [mem EXCEPT ![InoOf(h)] = v]
          /\ excused' = [excused EXCEPT ![InoOf(h)] = FALSE]
          /\ disk' = disk
      BY <1>2, <2>5 DEF Write
    <3>4. \A j \in Inos \ {InoOf(h)} : mem'[j] = mem[j] /\ excused'[j] = excused[j]
      BY <3>3 DEF TypeOK, ContentsTypeOK
    <3> QED BY <3>1, <3>3, <3>4, DirtiedDirty DEF CommittedWhenClosed
  <2> QED BY <2>1, <2>2, <2>3, <2>4, <2>5 DEF FileRequest
<1> QED BY <1>1, <1>2

LEMMA OtherRequestsCommit ==
  ASSUME TypeOK, CommittedWhenClosed,
         DirRequest \/ NameRequest \/ \E op \in Reads : Ask(op)
  PROVE  CommittedWhenClosed'
<1>1. Kept
  BY NameRequestsKeep
<1>2. UNCHANGED contents
  <2>1. CASE DirRequest
    BY <2>1 DEF DirRequest, Opendir, Readdir, Closedir, Refuse
  <2>2. CASE NameRequest
    BY <2>2 DEF NameRequest, Delete, Mkdir, Rmdir, Setattr, OnPath, Rename, Refuse
  <2>3. CASE \E op \in Reads : Ask(op)
    BY <2>3 DEF Ask
  <2> QED BY <2>1, <2>2, <2>3
<1> QED BY <1>1, <1>2, KeptDirty, SameContents

LEMMA HostCommits ==
  ASSUME TypeOK, CommittedWhenClosed, Host
  PROVE  CommittedWhenClosed'
<1>1. DirtyInos' = DirtyInos
  BY NameRequestsKeep, KeptDirty
<1>2. ASSUME NEW d \in Inos, NEW n \in Names, HostPut(d, n)
      PROVE  CommittedWhenClosed'
  BY <1>1, <1>2, NewFileCommitted DEF HostPut
<1>3. ASSUME NEW d \in Inos, NEW n \in Names, HostRemove(d, n)
      PROVE  CommittedWhenClosed'
  BY <1>1, <1>3, SameContents DEF HostRemove
<1>4. ASSUME NEW i \in Inos, NEW v \in Values, HostEdit(i, v)
      PROVE  CommittedWhenClosed'
  <2>1. excused'[i]
    BY <1>4 DEF HostEdit, TypeOK, ContentsTypeOK
  <2>2. \A j \in Inos \ {i} : mem'[j] = mem[j] /\ disk'[j] = disk[j]
                              /\ excused'[j] = excused[j]
    BY <1>4 DEF HostEdit, TypeOK, ContentsTypeOK
  <2> QED BY <1>1, <2>1, <2>2 DEF CommittedWhenClosed
<1>5. ASSUME NEW i \in Inos, Writeback(i)
      PROVE  CommittedWhenClosed'
  <2>1. mem' = mem /\ disk'[i] = mem[i]
    BY <1>5 DEF Writeback, TypeOK, ContentsTypeOK
  <2>2. \A j \in Inos \ {i} : disk'[j] = disk[j] /\ excused'[j] = excused[j]
    BY <1>5 DEF Writeback, TypeOK, ContentsTypeOK
  <2> QED BY <1>1, <2>1, <2>2 DEF CommittedWhenClosed
<1> QED BY <1>2, <1>3, <1>4, <1>5 DEF Host

LEMMA SessionCommits ==
  ASSUME TypeOK, CommittedWhenClosed, SessionStep
  PROVE  CommittedWhenClosed'
<1>1. CASE HandlesReset
  <2>1. PICK bad \in Failures(DirtyInos) : Fsync(DirtyInos, bad)
    BY <1>1 DEF HandlesReset
  <2> QED BY <2>1, FsyncCommits
<1>2. CASE Refuse("EDRIVE")
  BY <1>2, RefuseCommitted
<1>3. CASE Reboot
  <2>1. DirtyInos' = DirtyInos
    BY <1>3 DEF Reboot, DirtyInos, InoOf, tables
  <2> QED BY <1>3, <2>1, SameContents DEF Reboot
<1>4. CASE HelperKilled
  BY <1>4 DEF HelperKilled, CommittedWhenClosed
<1>5. CASE PowerLoss
  BY <1>5 DEF PowerLoss, CommittedWhenClosed
<1> QED BY <1>1, <1>2, <1>3, <1>4, <1>5 DEF SessionStep, Session, Hello, Connect, Disconnect

LEMMA StepCommitted ==
  TypeOK /\ HandlesOK /\ CommittedWhenClosed /\ [Next]_vars => CommittedWhenClosed'
<1> SUFFICES ASSUME TypeOK, HandlesOK, CommittedWhenClosed, [Next]_vars
             PROVE  CommittedWhenClosed'
  OBVIOUS
<1>1. CASE UNCHANGED vars
  BY <1>1 DEF vars, contents, tables, CommittedWhenClosed, DirtyInos, InoOf
<1>2. CASE FileRequest
  BY <1>2, FileRequestCommits
<1>3. CASE DirRequest \/ NameRequest \/ \E op \in Reads : Ask(op)
  BY <1>3, OtherRequestsCommit
<1>4. CASE Host
  BY <1>4, HostCommits
<1>5. CASE SessionStep
  BY <1>5, SessionCommits
<1> QED BY <1>1, <1>2, <1>3, <1>4, <1>5 DEF Next, Request, SessionStep

\* What a guest wrote is on the disk as soon as no handle that wrote it is
\* open, whichever of CLOSE, HELLO and the end of the session closed it.
THEOREM WritesCommitted == Spec => []CommittedWhenClosed
<1>1. Init => TypeOK /\ HandlesOK /\ CommittedWhenClosed
  BY InitType, InitHandles, InitCommitted
<1>2. TypeOK /\ HandlesOK /\ CommittedWhenClosed /\ [Next]_vars
        => TypeOK' /\ HandlesOK' /\ CommittedWhenClosed'
  BY StepType, StepHandles, StepCommitted
<1> QED BY <1>1, <1>2, PTL DEF Spec
=============================================================================
