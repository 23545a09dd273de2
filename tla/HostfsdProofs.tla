--------------------------- MODULE HostfsdProofs ---------------------------
(* Theorems about Hostfsd, for every folder, table size and set of paths.   *)
EXTENDS Hostfsd, TLAPS, FiniteSetTheorems

\* The constants' assumptions, under one name.
Assumptions ==
  /\ Names \subseteq Nat /\ IsFiniteSet(Names) /\ GuestNames \subseteq Names
  /\ Fold \in [Names -> Nat]
  /\ Inos \subseteq Nat /\ Root \in Inos /\ Nil \in Nat \ Inos
  /\ MaxFiles \in Nat \ {0} /\ MaxDirs \in Nat \ {0}
  /\ {ReadOnly, FsyncMayFail, GuestRestarts} \subseteq BOOLEAN
  /\ \A p \in Paths : \E n \in 1..2 : p \in [1..n -> Names]

LEMMA AssumptionsHold == Assumptions
  BY NamesAssumption, InosAssumption, TablesAssumption, FlagsAssumption,
     InputsAssumption DEF Assumptions

(***************************************************************************)
(* What resolve_path() returns: a leaf in a directory that can be reached, *)
(* in a spelling no other entry of that directory answers to.              *)
(***************************************************************************)
Reached(t) ==
  /\ t.dir \in Inos \cup {Nil}
  /\ t.leaf \in Names
  /\ t.path \in Seq(Names)
  /\ t.dir # Nil =>
       /\ t.dir = Root \/ Linked(t.dir)
       /\ \A m \in Names : Exists(t.dir, m) /\ Fold[m] = Fold[t.leaf]
                             => Exists(t.dir, t.leaf)

LEMMA SpellingsReached ==
  ASSUME NEW d \in Inos, NEW n \in Names, NEW m \in Spellings(d, n)
  PROVE  /\ m \in Names
         /\ \A k \in Names : Exists(d, k) /\ Fold[k] = Fold[m] => Exists(d, m)
  BY AssumptionsHold DEF Spellings, Assumptions

LEMMA ResolveReached ==
  ASSUME FolderTypeOK, NEW p \in Paths, NEW t \in Resolve(p)
  PROVE  Reached(t)
<1> USE AssumptionsHold DEF Assumptions
<1>1. PICK n \in 1..2 : p \in [1..n -> Names]
  OBVIOUS
<1>2. Len(p) = n /\ p[1] \in Names /\ p \in Seq(Names)
  BY <1>1
<1>3. CASE ~(Components(p) \subseteq GuestNames)
  <2>1. t = Target(Nil, p[1], p)
    BY <1>3 DEF Resolve
  <2> QED BY <2>1, <1>2 DEF Target, Reached
<1>4. CASE Components(p) \subseteq GuestNames /\ n = 1
  <2>1. PICK m \in Spellings(Root, p[1]) : t = Target(Root, m, <<m>>)
    BY <1>2, <1>4 DEF Resolve
  <2>2. m \in Names
    BY <2>1, <1>2, SpellingsReached
  <2>3. <<m>> \in Seq(Names)
    BY <2>2
  <2> QED BY <2>1, <2>2, <2>3, <1>2, SpellingsReached DEF Target, Reached
<1>5. CASE Components(p) \subseteq GuestNames /\ n = 2
  <2>1. p[2] \in Names /\ Len(p) # 1
    BY <1>1, <1>2, <1>5
  <2> DEFINE leaves(m) == IF Exists(Root, m) THEN Spellings(entry[Root][m], p[2])
                          ELSE {p[2]}
             under(m) == {Target(entry[Root][m], k, <<m, k>>) : k \in leaves(m)}
  <2>2. Resolve(p) = UNION {under(m) : m \in Spellings(Root, p[1])}
    BY <1>5, <2>1, Zenon DEF Resolve
  <2> HIDE DEF under
  <2>3. PICK m \in Spellings(Root, p[1]) : t \in under(m)
    BY <2>2
  <2>4. PICK k \in leaves(m) : t = Target(entry[Root][m], k, <<m, k>>)
    BY <2>3 DEF under
  <2>5. m \in Names /\ entry[Root][m] \in Inos \cup {Nil}
    <3>1. m \in Names
      BY <2>3, <1>2, SpellingsReached
    <3> QED BY <3>1 DEF FolderTypeOK
  <2>6. CASE ~Exists(Root, m)
    BY <2>6, <2>4, <2>1, <2>5 DEF Exists, Target, Reached
  <2>7. CASE Exists(Root, m)
    <3>1. entry[Root][m] \in Inos /\ Linked(entry[Root][m])
      BY <2>7, <2>5 DEF Exists, Linked
    <3>2. k \in Spellings(entry[Root][m], p[2])
      BY <2>4, <2>7
    <3>3. /\ k \in Names
          /\ \A j \in Names : Exists(entry[Root][m], j) /\ Fold[j] = Fold[k]
                                => Exists(entry[Root][m], k)
      BY <3>1, <3>2, <2>1, SpellingsReached
    <3>4. <<m, k>> \in Seq(Names)
      BY <2>5, <3>3
    <3> QED BY <3>1, <3>3, <3>4, <2>4 DEF Target, Reached
  <2> QED BY <2>6, <2>7
<1> QED BY <1>3, <1>4, <1>5, <1>1
-----------------------------------------------------------------------------
(* Types *)

LEMMA InitType == Init => TypeOK
<1> SUFFICES ASSUME Init PROVE TypeOK
  OBVIOUS
<1>1. FolderTypeOK
  BY InitAssumption DEF Init, FolderTypeOK
<1>2. ContentsTypeOK
  BY DEF Init, ContentsTypeOK
<1>3. TablesTypeOK
  <2>1. FreeFile \in [used : BOOLEAN, fd : Fds \cup {NoFd}, dirty : BOOLEAN]
    BY DEF FreeFile
  <2>2. Closed \in [ino : Inos \cup {Nil}, mode : Modes]
    BY DEF Closed, Modes
  <2>3. FreeDir \in [used : BOOLEAN, names : Seq(Names), path : Seq(Names)]
    BY DEF FreeDir
  <2> QED BY <2>1, <2>2, <2>3 DEF Init, TablesTypeOK
<1>4. GuestTypeOK
  <2>1. NoScan \in [cookie : Nat, seen : Seq(Names), done : BOOLEAN]
    BY DEF NoScan
  <2> QED BY <2>1 DEF Init, GuestTypeOK
<1> QED BY <1>1, <1>2, <1>3, <1>4 DEF TypeOK

LEMMA InOrderType ==
  ASSUME NEW S, IsFiniteSet(S), NEW s \in InOrder(S)
  PROVE  s \in Seq(S) /\ Len(s) = Cardinality(S) /\ DOMAIN s = 1..Cardinality(S)
<1>1. Cardinality(S) \in Nat
  BY FS_CardinalityType
<1> QED BY <1>1 DEF InOrder

LEMMA ErrorsType ==
  ASSUME NEW t, NEW u, NEW mode, NEW full, NEW i
  PROVE  /\ LookupError(t) \in Statuses
         /\ TableError(OpenError(t, mode)) \in Statuses
         /\ TableError(CreateError(t, full)) \in Statuses
         /\ DeleteError(t) \in Statuses
         /\ MkdirError(t, full) \in Statuses
         /\ RmdirError(t) \in Statuses
         /\ RenameError(t, u) \in Statuses
         /\ OpendirError(i) \in Statuses
<1>1. LookupError(t) \in Statuses
  BY DEF LookupError, Statuses
<1>2. TableError(OpenError(t, mode)) \in Statuses
  BY <1>1 DEF OpenError, TableError, Statuses
<1>3. TableError(CreateError(t, full)) \in Statuses
  BY DEF CreateError, TableError, Statuses
<1>4. DeleteError(t) \in Statuses
  BY <1>1 DEF DeleteError, Statuses
<1>5. MkdirError(t, full) \in Statuses
  BY DEF MkdirError, Statuses
<1>6. RmdirError(t) \in Statuses
  BY <1>1 DEF RmdirError, Statuses
<1>7. RenameError(t, u) \in Statuses
  BY DEF RenameError, Statuses
<1>8. OpendirError(i) \in Statuses
  BY DEF OpendirError, Statuses
<1> QED BY <1>1, <1>2, <1>3, <1>4, <1>5, <1>6, <1>7, <1>8

LEMMA FsyncType ==
  ASSUME ContentsTypeOK, NEW synced, NEW bad, Fsync(synced, bad)
  PROVE  ContentsTypeOK'
<1>1. mem' \in [Inos -> Values \cup {Empty}] /\ disk' \in [Inos -> Values \cup {Empty}]
  BY DEF Fsync, ContentsTypeOK
<1>2. excused' \in [Inos -> BOOLEAN]
  <2>1. \A i \in Inos : (IF i \in synced THEN i \in bad ELSE excused[i]) \in BOOLEAN
    <3> TAKE i \in Inos
    <3>1. (i \in bad) \in BOOLEAN
      OBVIOUS
    <3>2. excused[i] \in BOOLEAN
      BY DEF ContentsTypeOK
    <3> QED BY <3>1, <3>2, Zenon
  <2> QED BY <2>1, Zenon DEF Fsync
<1> QED BY <1>1, <1>2 DEF ContentsTypeOK

LEMMA CloseAllType ==
  ASSUME TablesTypeOK, CloseAll
  PROVE  TablesTypeOK'
<1>1. files' \in [FileHandles -> [used : BOOLEAN, fd : Fds \cup {NoFd}, dirty : BOOLEAN]]
  BY DEF CloseAll, TablesTypeOK
<1>2. fds' \in [Fds -> [ino : Inos \cup {Nil}, mode : Modes]]
  <2>1. Closed \in [ino : Inos \cup {Nil}, mode : Modes]
    BY DEF Closed, Modes
  <2>2. \A f \in Fds : fds[f] \in [ino : Inos \cup {Nil}, mode : Modes]
    BY DEF TablesTypeOK
  <2> QED BY <2>1, <2>2 DEF CloseAll
<1>3. dirs' \in [DirHandles -> [used : BOOLEAN, names : Seq(Names), path : Seq(Names)]]
  <2>1. <<>> \in Seq(Names)
    OBVIOUS
  <2> QED BY <2>1 DEF CloseAll, TablesTypeOK
<1> QED BY <1>1, <1>2, <1>3 DEF TablesTypeOK

LEMMA GuestForgetsType ==
  GuestForgets => /\ held' \in [FileHandles -> Inos \cup {Nil}]
                  /\ scan' \in [DirHandles -> [cookie : Nat, seen : Seq(Names),
                                               done : BOOLEAN]]
  BY DEF GuestForgets, NoScan

LEMMA RefuseType ==
  ASSUME TypeOK, NEW s \in Statuses, Refuse(s)
  PROVE  TypeOK'
  BY DEF TypeOK, FolderTypeOK, ContentsTypeOK, TablesTypeOK, GuestTypeOK, Refuse,
         Reply, folder, contents, tables

LEMMA OpenedType ==
  ASSUME TypeOK, NEW i \in Inos, NEW mode \in Modes, Opened(i, mode), UNCHANGED dirs
  PROVE  TablesTypeOK' /\ held' \in [FileHandles -> Inos \cup {Nil}]
<1>1. PICK h \in FileHandles, f \in Fds :
        /\ files' = [files EXCEPT ![h] = [used |-> TRUE, fd |-> f, dirty |-> FALSE]]
        /\ fds' = [fds EXCEPT ![f] = [ino |-> i, mode |-> mode]]
        /\ held' = [held EXCEPT ![h] = i]
  BY DEF Opened
<1>2. files' \in [FileHandles -> [used : BOOLEAN, fd : Fds \cup {NoFd}, dirty : BOOLEAN]]
  BY <1>1 DEF TypeOK, TablesTypeOK
<1>3. fds' \in [Fds -> [ino : Inos \cup {Nil}, mode : Modes]]
  BY <1>1 DEF TypeOK, TablesTypeOK
<1>4. held' \in [FileHandles -> Inos \cup {Nil}]
  BY <1>1 DEF TypeOK, GuestTypeOK
<1> QED BY <1>2, <1>3, <1>4 DEF TypeOK, TablesTypeOK

LEMMA MakeType ==
  ASSUME FolderTypeOK, NEW t, Reached(t), t.dir # Nil, NEW i \in Inos,
         NEW k \in {"file", "dir"}, NEW readonly \in BOOLEAN, Make(t, i, k, readonly)
  PROVE  FolderTypeOK'
<1>1. kind' \in [Inos -> {"file", "dir"}] /\ ro' \in [Inos -> BOOLEAN]
  BY DEF FolderTypeOK, Make
<1>2. NoEntries \in [Names -> Inos \cup {Nil}]
  BY DEF NoEntries
<1>3. [entry EXCEPT ![i] = NoEntries] \in [Inos -> [Names -> Inos \cup {Nil}]]
  BY <1>2 DEF FolderTypeOK
<1>4. t.dir \in Inos /\ t.leaf \in Names
  BY DEF Reached
<1>5. entry' \in [Inos -> [Names -> Inos \cup {Nil}]]
  BY <1>3, <1>4 DEF Make
<1> QED BY <1>1, <1>5 DEF FolderTypeOK

LEMMA MemType ==
  ASSUME ContentsTypeOK, NEW i \in Inos, NEW v \in Values \cup {Empty},
         mem' = [mem EXCEPT ![i] = v],
         \/ UNCHANGED disk
         \/ disk' = [disk EXCEPT ![i] = v]
         \/ disk' = [disk EXCEPT ![i] = Empty],
         \/ UNCHANGED excused
         \/ \E b \in BOOLEAN : excused' = [excused EXCEPT ![i] = b]
  PROVE  ContentsTypeOK'
  BY DEF ContentsTypeOK

(***************************************************************************)
(* A step keeps the types: one step of the proof per action.               *)
(***************************************************************************)
SessionStep ==
  \/ \E version \in {"known", "other"} : Hello(version)
  \/ Session

LEMMA SessionType ==
  ASSUME TypeOK, SessionStep
  PROVE  TypeOK'
<1> USE DEF TypeOK
<1>1. ASSUME HandlesReset, GuestForgets, UNCHANGED folder,
             link' \in {"up", "down"}, greeted' \in BOOLEAN,
             status' \in Statuses \cup {"none"}
      PROVE  TypeOK'
  <2>1. ContentsTypeOK' /\ TablesTypeOK'
    BY <1>1, FsyncType, CloseAllType DEF HandlesReset
  <2>2. FolderTypeOK'
    BY <1>1 DEF FolderTypeOK, folder
  <2>3. GuestTypeOK'
    BY <1>1, GuestForgetsType DEF GuestTypeOK
  <2> QED BY <2>1, <2>2, <2>3
<1>2. ASSUME NewProcess, ContentsTypeOK'
      PROVE  TypeOK'
  <2>1. FolderTypeOK'
    BY <1>2 DEF FolderTypeOK, folder, NewProcess
  <2>2. TablesTypeOK'
    <3>1. FreeFile \in [used : BOOLEAN, fd : Fds \cup {NoFd}, dirty : BOOLEAN]
      BY DEF FreeFile
    <3>2. Closed \in [ino : Inos \cup {Nil}, mode : Modes]
      BY DEF Closed, Modes
    <3>3. FreeDir \in [used : BOOLEAN, names : Seq(Names), path : Seq(Names)]
      BY DEF FreeDir
    <3> QED BY <3>1, <3>2, <3>3, <1>2 DEF TablesTypeOK, NewProcess
  <2>3. GuestTypeOK'
    BY <1>2, GuestForgetsType DEF GuestTypeOK, NewProcess
  <2> QED BY <2>1, <2>2, <2>3, <1>2
<1>3. ASSUME NEW version, Hello(version)
      PROVE  TypeOK'
  <2>1. CASE Refuse("EDRIVE")
    BY <2>1, RefuseType DEF Statuses
  <2>2. CASE ~Refuse("EDRIVE")
    BY <2>2, <1>3, <1>1 DEF Hello, Statuses, GuestTypeOK
  <2> QED BY <2>1, <2>2
<1>4. ASSUME Connect
      PROVE  TypeOK'
  BY <1>4, <1>1 DEF Connect
<1>5. ASSUME Disconnect
      PROVE  TypeOK'
  BY <1>5, <1>1 DEF Disconnect
<1>6. ASSUME Reboot
      PROVE  TypeOK'
  BY <1>6, GuestForgetsType
     DEF Reboot, FolderTypeOK, ContentsTypeOK, TablesTypeOK, GuestTypeOK, folder,
         contents, tables
<1>7. ASSUME HelperKilled
      PROVE  TypeOK'
  BY <1>7, <1>2 DEF HelperKilled, ContentsTypeOK
<1>8. ASSUME PowerLoss
      PROVE  TypeOK'
  BY <1>8, <1>2 DEF PowerLoss, ContentsTypeOK
<1> QED BY <1>3, <1>4, <1>5, <1>6, <1>7, <1>8 DEF SessionStep, Session

LEMMA OpenType ==
  ASSUME TypeOK, NEW p \in Paths, NEW mode \in Modes \cup {"odd"}, Open(p, mode)
  PROVE  TypeOK'
<1>1. FdMode(mode) \in Modes
  BY DEF FdMode, Modes
<1>2. CASE Refuse("EACCDN")
  BY <1>2, RefuseType DEF Statuses
<1>3. CASE ~Refuse("EACCDN")
  <2>1. PICK t \in Resolve(p) :
          LET s == IF t.dir = Nil THEN "EPTHNF" ELSE TableError(OpenError(t, FdMode(mode)))
          IN  \/ Refuse(s)
              \/ /\ s = "E_OK"
                 /\ Opened(Object(t), FdMode(mode))
                 /\ Reply(s)
                 /\ UNCHANGED <<folder, contents, dirs, scan>>
    BY <1>3, Zenon DEF Open
  <2> DEFINE s == IF t.dir = Nil THEN "EPTHNF" ELSE TableError(OpenError(t, FdMode(mode)))
  <2>2. s \in Statuses
    BY ErrorsType DEF Statuses
  <2>3. CASE Refuse(s)
    BY <2>2, <2>3, RefuseType
  <2>4. CASE s = "E_OK" /\ Opened(Object(t), FdMode(mode)) /\ Reply(s)
             /\ UNCHANGED <<folder, contents, dirs, scan>>
    <3>1. t.dir # Nil /\ Object(t) # Nil
      BY <2>4 DEF TableError, OpenError, LookupError
    <3>2. Object(t) \in Inos
      BY <3>1, ResolveReached DEF TypeOK, Reached, Object, FolderTypeOK
    <3>3. TablesTypeOK' /\ held' \in [FileHandles -> Inos \cup {Nil}]
      BY <2>4, <3>2, <1>1, OpenedType
    <3> QED BY <2>4, <3>3
            DEF TypeOK, FolderTypeOK, ContentsTypeOK, GuestTypeOK, Reply, folder,
                contents, Statuses
  <2> QED BY <2>1, <2>3, <2>4
<1> QED BY <1>2, <1>3

LEMMA NewFileType ==
  ASSUME FolderTypeOK, ContentsTypeOK, NEW t, Reached(t), t.dir # Nil, NEW i \in Inos,
         NEW readonly \in BOOLEAN, NewFile(t, i, readonly)
  PROVE  FolderTypeOK' /\ ContentsTypeOK'
  BY MakeType, MemType DEF NewFile

LEMMA TruncateType ==
  ASSUME FolderTypeOK, ContentsTypeOK, NEW i \in Inos, Truncate(i)
  PROVE  FolderTypeOK' /\ ContentsTypeOK'
  BY DEF Truncate, FolderTypeOK, ContentsTypeOK, folder

LEMMA CreateType ==
  ASSUME TypeOK, NEW p \in Paths, NEW readonly \in BOOLEAN, Create(p, readonly)
  PROVE  TypeOK'
<1>1. CASE Refuse("EACCDN")
  BY <1>1, RefuseType DEF Statuses
<1>2. CASE ~Refuse("EACCDN")
  <2> DEFINE s(t) == IF t.dir = Nil THEN "EPTHNF"
                     ELSE TableError(CreateError(t, FreeInos = {}))
             file(t, i) == IF Object(t) # Nil
                           THEN i = Object(t) /\ Truncate(i)
                           ELSE IsLeast(i, FreeInos) /\ NewFile(t, i, readonly)
  <2>1. PICK t \in Resolve(p) :
          \/ Refuse(s(t))
          \/ /\ s(t) = "E_OK"
             /\ \E i \in Inos : file(t, i) /\ Opened(i, "rw")
             /\ Reply(s(t))
             /\ UNCHANGED <<dirs, scan>>
    BY <1>2, Zenon DEF Create
  <2>2. s(t) \in Statuses
    BY ErrorsType DEF Statuses
  <2>3. CASE Refuse(s(t))
    BY <2>2, <2>3, RefuseType
  <2>4. CASE /\ s(t) = "E_OK"
             /\ \E i \in Inos : file(t, i) /\ Opened(i, "rw")
             /\ Reply(s(t))
             /\ UNCHANGED <<dirs, scan>>
    <3>1. PICK i \in Inos : file(t, i) /\ Opened(i, "rw")
      BY <2>4
    <3>2. t.dir # Nil /\ Reached(t)
      BY <2>4, ResolveReached DEF TypeOK
    <3>3. FolderTypeOK' /\ ContentsTypeOK'
      BY <3>1, <3>2, TruncateType, NewFileType DEF TypeOK
    <3>4. TablesTypeOK' /\ held' \in [FileHandles -> Inos \cup {Nil}]
      BY <2>4, <3>1, OpenedType DEF Modes
    <3> QED BY <2>4, <3>3, <3>4 DEF TypeOK, GuestTypeOK, Reply, Statuses
  <2> QED BY <2>1, <2>3, <2>4
<1> QED BY <1>1, <1>2

LEMMA CloseType ==
  ASSUME TypeOK, NEW h, Close(h)
  PROVE  TypeOK'
<1>1. CASE Refuse("EIHNDL")
  BY <1>1, RefuseType DEF Statuses
<1>2. CASE ~Refuse("EIHNDL")
  <2>1. ContentsTypeOK'
    BY <1>2, FsyncType DEF Close, TypeOK
  <2>2. files' \in [FileHandles -> [used : BOOLEAN, fd : Fds \cup {NoFd}, dirty : BOOLEAN]]
    <3> DEFINE free == [files EXCEPT ![h].used = FALSE]
               rows == [FileHandles -> [used : BOOLEAN, fd : Fds \cup {NoFd},
                                        dirty : BOOLEAN]]
    <3>1. free \in rows
      BY DEF TypeOK, TablesTypeOK
    <3>2. h \in FileHandles /\ files' = [free EXCEPT ![h].dirty = FALSE]
      BY <1>2 DEF Close, FileOf
    <3> HIDE DEF free
    <3> QED BY <3>1, <3>2
  <2>3. Closed \in [ino : Inos \cup {Nil}, mode : Modes]
    BY DEF Closed, Modes
  <2>4. fds' \in [Fds -> [ino : Inos \cup {Nil}, mode : Modes]]
    BY <1>2, <2>3 DEF Close, TypeOK, TablesTypeOK
  <2>5. FolderTypeOK' /\ GuestTypeOK'
    BY <1>2 DEF Close, TypeOK, FolderTypeOK, GuestTypeOK, folder, Reply, Statuses
  <2> QED BY <1>2, <2>1, <2>2, <2>4, <2>5 DEF Close, TypeOK, TablesTypeOK
<1> QED BY <1>1, <1>2

LEMMA ReadType ==
  ASSUME TypeOK, NEW h, Read(h)
  PROVE  TypeOK'
  BY DEF TypeOK, Read, Reply, Statuses, FolderTypeOK, ContentsTypeOK, TablesTypeOK,
         GuestTypeOK, folder, contents, tables

LEMMA WriteType ==
  ASSUME TypeOK, NEW h, NEW v \in Values, Write(h, v)
  PROVE  TypeOK'
<1>1. CASE Refuse("EIHNDL") \/ Refuse("EACCDN")
  BY <1>1, RefuseType DEF Statuses
<1>2. CASE ~(Refuse("EIHNDL") \/ Refuse("EACCDN"))
  <2>1. ContentsTypeOK'
    BY <1>2 DEF Write, TypeOK, ContentsTypeOK
  <2>2. TablesTypeOK'
    <3>1. h \in FileHandles /\ files' = [files EXCEPT ![h].dirty = TRUE]
      BY <1>2 DEF Write, FileOf
    <3>2. files' \in [FileHandles -> [used : BOOLEAN, fd : Fds \cup {NoFd},
                                     dirty : BOOLEAN]]
      BY <3>1 DEF TypeOK, TablesTypeOK
    <3> QED BY <1>2, <3>2 DEF Write, TypeOK, TablesTypeOK
  <2> QED BY <1>2, <2>1, <2>2
          DEF Write, TypeOK, FolderTypeOK, GuestTypeOK, folder, Reply, Statuses
<1> QED BY <1>1, <1>2

LEMMA AskType ==
  ASSUME TypeOK, NEW op, Ask(op)
  PROVE  TypeOK'
<1>1. status' \in Statuses
  BY ErrorsType DEF Ask, Reply, Statuses
<1> QED BY <1>1 DEF Ask, TypeOK, Reply, FolderTypeOK, ContentsTypeOK, TablesTypeOK,
                   GuestTypeOK, folder, contents, tables

LEMMA OpendirType ==
  ASSUME TypeOK, NEW p \in Paths \cup {<<>>}, Opendir(p)
  PROVE  TypeOK'
<1> DEFINE target == IF p = <<>> THEN {Target(Root, 0, p)} ELSE Resolve(p)
           i(t) == IF p = <<>> THEN Root ELSE Object(t)
           s(t) == IF t.dir = Nil THEN "EPTHNF"
                   ELSE IF FreeDirSlots = {} THEN "ENHNDL"
                   ELSE IF kind[t.dir] # "dir" THEN "EPTHNF" ELSE OpendirError(i(t))
           opened(t) == \E h \in DirHandles, names \in Snapshots(i(t)) :
                          /\ IsLeast(h, FreeDirSlots)
                          /\ dirs' = [dirs EXCEPT ![h] =
                                        [used |-> TRUE, names |-> names, path |-> t.path]]
                          /\ scan' = [scan EXCEPT ![h] = NoScan]
<1>1. PICK t \in target :
        \/ Refuse(s(t))
        \/ /\ s(t) = "E_OK"
           /\ opened(t)
           /\ Reply(s(t))
           /\ UNCHANGED <<folder, contents, files, fds, held>>
  BY Zenon DEF Opendir
<1>2. s(t) \in Statuses
  BY ErrorsType DEF Statuses
<1>3. t.path \in Seq(Names)
  <2>1. CASE p = <<>>
    <3>1. t.path = p
      BY <2>1 DEF Target
    <3>2. <<>> \in Seq(Names)
      OBVIOUS
    <3> QED BY <2>1, <3>1, <3>2, Zenon
  <2>2. CASE p # <<>>
    <3>1. p \in Paths /\ t \in Resolve(p)
      BY <2>2
    <3> QED BY <3>1, ResolveReached DEF TypeOK, Reached
  <2> QED BY <2>1, <2>2
<1>4. CASE Refuse(s(t))
  BY <1>2, <1>4, RefuseType
<1>5. CASE /\ s(t) = "E_OK"
           /\ opened(t)
           /\ Reply(s(t))
           /\ UNCHANGED <<folder, contents, files, fds, held>>
  <2>1. PICK h \in DirHandles, names \in Snapshots(i(t)) :
          /\ dirs' = [dirs EXCEPT ![h] =
                        [used |-> TRUE, names |-> names, path |-> t.path]]
          /\ scan' = [scan EXCEPT ![h] = NoScan]
    BY <1>5
  <2>2. names \in Seq(Names)
    <3> DEFINE listed == {n \in GuestNames : Exists(i(t), n)}
    <3>1. IsFiniteSet(listed) /\ listed \subseteq Names
      BY AssumptionsHold, FS_Subset DEF Assumptions
    <3>2. names \in InOrder(listed)
      BY DEF Snapshots
    <3> HIDE DEF listed
    <3>3. names \in Seq(listed)
      BY <3>1, <3>2, InOrderType
    <3> QED BY <3>1, <3>3
  <2>3. dirs' \in [DirHandles -> [used : BOOLEAN, names : Seq(Names), path : Seq(Names)]]
    BY <2>1, <2>2, <1>3 DEF TypeOK, TablesTypeOK
  <2>4. scan' \in [DirHandles -> [cookie : Nat, seen : Seq(Names), done : BOOLEAN]]
    BY <2>1 DEF NoScan, TypeOK, GuestTypeOK
  <2> QED BY <1>5, <1>2, <2>3, <2>4
          DEF TypeOK, FolderTypeOK, ContentsTypeOK, TablesTypeOK, GuestTypeOK, Reply,
              folder, contents
<1> QED BY <1>1, <1>4, <1>5

LEMMA PageType ==
  ASSUME TypeOK, NEW h \in DirHandles, NEW cookie \in Nat, NEW batch
  PROVE  /\ IsFiniteSet(Page(h, cookie, batch))
         /\ Page(h, cookie, batch) \subseteq DOMAIN dirs[h].names
         /\ \A k \in Page(h, cookie, batch) : k \in Nat /\ k > cookie
<1>1. Page(h, cookie, batch) \subseteq Live(h, cookie)
  BY DEF Page
<1>2. Len(dirs[h].names) \in Nat /\ DOMAIN dirs[h].names = 1..Len(dirs[h].names)
  BY DEF TypeOK, TablesTypeOK
<1>3. Live(h, cookie) \subseteq (cookie + 1)..Len(dirs[h].names)
  BY DEF Live
<1>4. IsFiniteSet((cookie + 1)..Len(dirs[h].names))
  BY <1>2, FS_Interval
<1> QED BY <1>1, <1>2, <1>3, <1>4, FS_Subset

LEMMA ReaddirType ==
  ASSUME TypeOK, NEW h, NEW batch \in BOOLEAN, NEW restart \in BOOLEAN,
         Readdir(h, batch, restart)
  PROVE  TypeOK'
<1>1. CASE Refuse("EIHNDL")
  BY <1>1, RefuseType DEF Statuses
<1>2. CASE ~Refuse("EIHNDL")
  <2> DEFINE from == From(h, restart)
             page == Page(h, from.cookie, batch)
             scans == [cookie : Nat, seen : Seq(Names), done : BOOLEAN]
  <2>1. h \in DirHandles
    BY <1>2 DEF Readdir, DirOf
  <2>2. from \in scans
    BY <2>1 DEF From, NoScan, TypeOK, GuestTypeOK
  <2>3. \/ scan' = [scan EXCEPT ![h] = [from EXCEPT !.done = TRUE]]
        \/ /\ page # {}
           /\ \E sent \in InOrder(page) :
                scan' = [scan EXCEPT ![h] =
                           [cookie |-> sent[Len(sent)],
                            seen |-> from.seen \o [k \in DOMAIN sent |->
                                                     dirs[h].names[sent[k]]],
                            done |-> FALSE]]
    BY <1>2, Zenon DEF Readdir
  <2> HIDE DEF from
  <2>4. scan' \in [DirHandles -> scans]
    <3>1. CASE scan' = [scan EXCEPT ![h] = [from EXCEPT !.done = TRUE]]
      BY <3>1, <2>1, <2>2 DEF TypeOK, GuestTypeOK
    <3>2. ASSUME page # {}, NEW sent \in InOrder(page),
                 scan' = [scan EXCEPT ![h] =
                            [cookie |-> sent[Len(sent)],
                             seen |-> from.seen \o [k \in DOMAIN sent |->
                                                      dirs[h].names[sent[k]]],
                             done |-> FALSE]]
          PROVE  scan' \in [DirHandles -> scans]
      <4>1. /\ IsFiniteSet(page)
            /\ page \subseteq DOMAIN dirs[h].names
            /\ \A k \in page : k \in Nat
        BY <2>1, <2>2, PageType
      <4> HIDE DEF page
      <4>2. sent \in Seq(page) /\ Len(sent) = Cardinality(page)
        BY <3>2, <4>1, InOrderType
      <4>3. Cardinality(page) \in Nat \ {0}
        BY <3>2, <4>1, FS_CardinalityType, FS_EmptySet
      <4>4. sent[Len(sent)] \in Nat
        BY <4>1, <4>2, <4>3
      <4> DEFINE given == [k \in DOMAIN sent |-> dirs[h].names[sent[k]]]
      <4>5. dirs[h].names \in Seq(Names)
        BY <2>1 DEF TypeOK, TablesTypeOK
      <4>6. given \in Seq(Names)
        <5>1. DOMAIN sent = 1..Cardinality(page)
          BY <4>2, <4>3
        <5>2. \A k \in DOMAIN sent : dirs[h].names[sent[k]] \in Names
          BY <4>1, <4>2, <4>5
        <5> QED BY <5>1, <5>2, <4>3
      <4> HIDE DEF given
      <4>7. from.seen \o given \in Seq(Names)
        BY <4>6, <2>2
      <4>8. [cookie |-> sent[Len(sent)], seen |-> from.seen \o given, done |-> FALSE]
              \in scans
        BY <4>4, <4>7
      <4> QED BY <3>2, <4>8 DEF given, TypeOK, GuestTypeOK
    <3> QED BY <2>3, <3>1, <3>2
  <2> QED BY <1>2, <2>4
          DEF Readdir, TypeOK, FolderTypeOK, ContentsTypeOK, TablesTypeOK, GuestTypeOK,
              Reply, Statuses, folder, contents, tables
<1> QED BY <1>1, <1>2

LEMMA ClosedirType ==
  ASSUME TypeOK, NEW h, Closedir(h)
  PROVE  TypeOK'
<1>1. CASE Refuse("EIHNDL")
  BY <1>1, RefuseType DEF Statuses
<1>2. CASE ~Refuse("EIHNDL")
  <2> DEFINE free == [dirs EXCEPT ![h].used = FALSE]
             rows == [DirHandles -> [used : BOOLEAN, names : Seq(Names),
                                     path : Seq(Names)]]
  <2>1. free \in rows
    BY DEF TypeOK, TablesTypeOK
  <2>2. h \in DirHandles /\ dirs' = [free EXCEPT ![h].names = <<>>]
    BY <1>2 DEF Closedir, DirOf
  <2> HIDE DEF free
  <2>3. dirs' \in rows
    <3>1. <<>> \in Seq(Names)
      OBVIOUS
    <3> QED BY <2>1, <2>2, <3>1
  <2>4. scan' \in [DirHandles -> [cookie : Nat, seen : Seq(Names), done : BOOLEAN]]
    <3>1. NoScan \in [cookie : Nat, seen : Seq(Names), done : BOOLEAN]
      BY DEF NoScan
    <3> QED BY <1>2, <3>1 DEF Closedir, TypeOK, GuestTypeOK
  <2> QED BY <1>2, <2>3, <2>4
          DEF Closedir, TypeOK, FolderTypeOK, ContentsTypeOK, TablesTypeOK, GuestTypeOK,
              Reply, Statuses, folder, contents
<1> QED BY <1>1, <1>2

LEMMA UnlinkType ==
  ASSUME FolderTypeOK, NEW t, Unlink(t), UNCHANGED <<kind, ro>>
  PROVE  FolderTypeOK'
  BY DEF FolderTypeOK, Unlink, Link

LEMMA MoveType ==
  ASSUME FolderTypeOK, NEW t, NEW u, Object(t) \in Inos, Move(t, u)
  PROVE  FolderTypeOK'
<1>1. CASE Object(u) = Object(t)
  BY <1>1 DEF FolderTypeOK, Move
<1>2. CASE Object(u) # Object(t)
  <2> DEFINE linked == [entry EXCEPT ![u.dir][u.leaf] = Object(t)]
  <2>1. linked \in [Inos -> [Names -> Inos \cup {Nil}]]
    BY DEF FolderTypeOK
  <2>2. entry' = [linked EXCEPT ![t.dir][t.leaf] = Nil]
    BY <1>2 DEF Move
  <2> HIDE DEF linked
  <2>3. entry' \in [Inos -> [Names -> Inos \cup {Nil}]]
    BY <2>1, <2>2
  <2> QED BY <2>3 DEF FolderTypeOK, Move
<1> QED BY <1>1, <1>2

\* What the five requests on a path have in common.
LEMMA OnPathType ==
  ASSUME TypeOK, NEW p \in Paths,
         Delete(p) \/ Mkdir(p) \/ Rmdir(p) \/ \E readonly \in BOOLEAN : Setattr(p, readonly)
  PROVE  TypeOK'
<1>1. ASSUME FolderTypeOK', ContentsTypeOK', UNCHANGED <<tables, held, scan>>, Reply("E_OK")
      PROVE  TypeOK'
  BY <1>1 DEF TypeOK, TablesTypeOK, GuestTypeOK, Reply, Statuses, tables
<1>2. ASSUME UNCHANGED contents
      PROVE  ContentsTypeOK'
  BY <1>2 DEF TypeOK, ContentsTypeOK, contents
<1>3. \A s \in Statuses : Refuse(s) => TypeOK'
  BY RefuseType
<1>4. "EACCDN" \in Statuses /\ "EPTHNF" \in Statuses
  BY DEF Statuses
<1>5. \A t \in Resolve(p) : Reached(t)
  BY ResolveReached DEF TypeOK
<1>6. CASE Delete(p)
  <2>1. CASE \E s \in Statuses : Refuse(s)
    BY <2>1, <1>3
  <2>2. CASE ~\E s \in Statuses : Refuse(s)
    <3>1. PICK t \in Resolve(p) :
            /\ Unlink(t) /\ UNCHANGED <<kind, ro, contents>>
            /\ Reply("E_OK")
            /\ UNCHANGED <<tables, held, scan>>
      BY <1>6, <2>2, <1>4, ErrorsType DEF Delete, OnPath
    <3> QED BY <3>1, <1>1, <1>2, UnlinkType DEF TypeOK
  <2> QED BY <2>1, <2>2
<1>7. CASE Rmdir(p)
  <2>1. CASE \E s \in Statuses : Refuse(s)
    BY <2>1, <1>3
  <2>2. CASE ~\E s \in Statuses : Refuse(s)
    <3>1. PICK t \in Resolve(p) :
            /\ Unlink(t) /\ UNCHANGED <<kind, ro, contents>>
            /\ Reply("E_OK")
            /\ UNCHANGED <<tables, held, scan>>
      BY <1>7, <2>2, <1>4, ErrorsType DEF Rmdir, OnPath
    <3> QED BY <3>1, <1>1, <1>2, UnlinkType DEF TypeOK
  <2> QED BY <2>1, <2>2
<1>8. CASE Mkdir(p)
  <2>1. CASE \E s \in Statuses : Refuse(s)
    BY <2>1, <1>3
  <2>2. CASE ~\E s \in Statuses : Refuse(s)
    <3>1. PICK t \in Resolve(p) :
            /\ t.dir # Nil
            /\ \E i \in Inos : Make(t, i, "dir", FALSE) /\ UNCHANGED contents
            /\ Reply("E_OK")
            /\ UNCHANGED <<tables, held, scan>>
      BY <1>8, <2>2, <1>4, ErrorsType DEF Mkdir, OnPath
    <3> QED BY <3>1, <1>1, <1>2, <1>5, MakeType DEF TypeOK
  <2> QED BY <2>1, <2>2
<1>9. ASSUME NEW readonly \in BOOLEAN, Setattr(p, readonly)
      PROVE  TypeOK'
  <2>1. CASE \E s \in Statuses : Refuse(s)
    BY <2>1, <1>3
  <2>2. CASE ~\E s \in Statuses : Refuse(s)
    <3>1. PICK t \in Resolve(p) :
            /\ ro' = [ro EXCEPT ![Object(t)] = readonly]
            /\ UNCHANGED <<kind, entry, contents>>
            /\ Reply("E_OK")
            /\ UNCHANGED <<tables, held, scan>>
      BY <1>9, <2>2, <1>4, ErrorsType DEF Setattr, OnPath
    <3>2. FolderTypeOK'
      BY <3>1 DEF TypeOK, FolderTypeOK
    <3> QED BY <3>1, <3>2, <1>1, <1>2
  <2> QED BY <2>1, <2>2
<1> QED BY <1>6, <1>7, <1>8, <1>9

LEMMA RenameType ==
  ASSUME TypeOK, NEW p \in Paths, NEW q \in Paths, Rename(p, q)
  PROVE  TypeOK'
<1>1. CASE \E s \in Statuses : Refuse(s)
  BY <1>1, RefuseType
<1>2. CASE ~\E s \in Statuses : Refuse(s)
  <2>1. "EACCDN" \in Statuses /\ "EPTHNF" \in Statuses
    BY DEF Statuses
  <2>2. PICK t \in Resolve(p), u \in Resolve(q) :
          /\ t.dir # Nil /\ RenameError(t, u) = "E_OK"
          /\ Move(t, u)
          /\ Reply("E_OK")
          /\ UNCHANGED <<contents, tables, held, scan>>
    BY <1>2, <2>1, ErrorsType DEF Rename
  <2>3. Object(t) \in Inos
    <3>1. Object(t) # Nil
      BY <2>2 DEF RenameError
    <3> QED BY <2>2, <3>1, ResolveReached DEF TypeOK, FolderTypeOK, Reached, Object
  <2>4. FolderTypeOK'
    BY <2>2, <2>3, MoveType DEF TypeOK
  <2> QED BY <2>2, <2>4
          DEF TypeOK, ContentsTypeOK, TablesTypeOK, GuestTypeOK, Reply, Statuses,
              contents, tables
<1> QED BY <1>1, <1>2

LEMMA HostType ==
  ASSUME TypeOK, Host
  PROVE  TypeOK'
<1>1. ASSUME FolderTypeOK', ContentsTypeOK', UNCHANGED <<tables, guest>>, status' = "none"
      PROVE  TypeOK'
  BY <1>1 DEF TypeOK, TablesTypeOK, GuestTypeOK, tables, guest
<1>2. ASSUME UNCHANGED folder
      PROVE  FolderTypeOK'
  BY <1>2 DEF TypeOK, FolderTypeOK, folder
<1>3. ASSUME NEW d \in Inos, NEW n \in Names, HostPut(d, n)
      PROVE  TypeOK'
  <2>1. PICK i \in Inos : NewFile(Target(d, n, <<n>>), i, FALSE)
    BY <1>3 DEF HostPut
  <2>2. d # Nil /\ d \in Inos
    BY AssumptionsHold DEF Assumptions
  <2>3. FolderTypeOK' /\ ContentsTypeOK'
    <3>1. /\ kind' \in [Inos -> {"file", "dir"}]
          /\ ro' \in [Inos -> BOOLEAN]
      BY <2>1 DEF NewFile, Make, TypeOK, FolderTypeOK
    <3>2. NoEntries \in [Names -> Inos \cup {Nil}]
      BY DEF NoEntries
    <3>3. [entry EXCEPT ![i] = NoEntries] \in [Inos -> [Names -> Inos \cup {Nil}]]
      BY <3>2 DEF TypeOK, FolderTypeOK
    <3>4. entry' \in [Inos -> [Names -> Inos \cup {Nil}]]
      BY <2>1, <3>3 DEF NewFile, Make, Target
    <3> QED BY <2>1, <3>1, <3>4, MemType DEF NewFile, TypeOK, FolderTypeOK
  <2> QED BY <1>1, <1>3, <2>3 DEF HostPut, HostStep
<1>4. ASSUME NEW d \in Inos, NEW n \in Names, HostRemove(d, n)
      PROVE  TypeOK'
  <2>1. FolderTypeOK'
    BY <1>4, UnlinkType DEF HostRemove, TypeOK
  <2>2. ContentsTypeOK'
    BY <1>4 DEF HostRemove, TypeOK, ContentsTypeOK, contents
  <2> QED BY <1>1, <1>4, <2>1, <2>2 DEF HostRemove, HostStep
<1>5. ASSUME NEW i \in Inos, NEW v \in Values, HostEdit(i, v)
      PROVE  TypeOK'
  <2>1. ContentsTypeOK'
    BY <1>5 DEF HostEdit, TypeOK, ContentsTypeOK
  <2> QED BY <1>1, <1>2, <1>5, <2>1 DEF HostEdit, HostStep
<1>6. ASSUME NEW i \in Inos, Writeback(i)
      PROVE  TypeOK'
  <2>1. ContentsTypeOK'
    BY <1>6 DEF Writeback, TypeOK, ContentsTypeOK
  <2> QED BY <1>1, <1>2, <1>6, <2>1 DEF Writeback
<1> QED BY <1>3, <1>4, <1>5, <1>6 DEF Host

LEMMA StepType == TypeOK /\ [Next]_vars => TypeOK'
<1> SUFFICES ASSUME TypeOK, [Next]_vars PROVE TypeOK'
  OBVIOUS
<1>1. CASE UNCHANGED vars
  BY <1>1 DEF TypeOK, FolderTypeOK, ContentsTypeOK, TablesTypeOK, GuestTypeOK, vars,
              folder, contents, tables, guest
<1>2. CASE FileRequest
  BY <1>2, OpenType, CreateType, CloseType, ReadType, WriteType DEF FileRequest
<1>3. CASE DirRequest
  BY <1>3, AssumptionsHold, OpendirType, ReaddirType, ClosedirType
     DEF DirRequest, Assumptions
<1>4. CASE NameRequest
  BY <1>4, OnPathType, RenameType DEF NameRequest
<1>5. CASE \E op \in Reads : Ask(op)
  BY <1>5, AskType
<1>6. CASE SessionStep
  BY <1>6, SessionType
<1>7. CASE Host
  BY <1>7, HostType
<1> QED BY <1>1, <1>2, <1>3, <1>4, <1>5, <1>6, <1>7 DEF Next, Request, SessionStep

\* Every state of every run has its types (the files run checks TypeOK on a
\* small folder): no operation answers with anything but a GEMDOS error or
\* leaves a slot, a descriptor or an entry that is none.
THEOREM TypeCorrect == Spec => []TypeOK
  BY InitType, StepType, PTL DEF Spec
=============================================================================
