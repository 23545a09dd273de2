--------------------------- MODULE HostfsdFolder ----------------------------
(* Theorems about the folder: its names stay unique when folded, a          *)
(* read-only helper does not change it, and an enumeration of one of its    *)
(* directories is in order and leaves nothing out.                          *)
EXTENDS HostfsdProofs, HostfsdScan, Recursion

\* The step adds no entry but n in directory d.
Adds(d, n) == \A e \in Inos, m \in Names :
                Exists(e, m)' => Exists(e, m) \/ (e = d /\ m = n)

AddsNone == \A e \in Inos, m \in Names : Exists(e, m)' => Exists(e, m)

LEMMA InitUnique == Init => FoldUnique
  BY ShippingAssumption DEF Init, FoldUnique, Exists

LEMMA AddsKeeps ==
  ASSUME FoldUnique, NEW d \in Inos, NEW n \in Names, Adds(d, n),
         \A m \in Names : Exists(d, m) /\ Fold[m] = Fold[n] => m = n
  PROVE  FoldUnique'
<1> SUFFICES ASSUME NEW e \in Inos, NEW m \in Names, NEW k \in Names,
                    Exists(e, m)', Exists(e, k)', Fold[m] = Fold[k]
             PROVE  m = k
  BY DEF FoldUnique
<1>1. Exists(e, m) \/ (e = d /\ m = n)
  BY DEF Adds
<1>2. Exists(e, k) \/ (e = d /\ k = n)
  BY DEF Adds
<1> QED BY <1>1, <1>2 DEF FoldUnique

LEMMA AddsNoneKeeps ==
  ASSUME FoldUnique, AddsNone
  PROVE  FoldUnique'
  BY DEF FoldUnique, AddsNone

\* A spelling that resolve_path() chose is the only one of its fold.
LEMMA ReachedUnique ==
  ASSUME FoldUnique, NEW t, Reached(t), t.dir # Nil
  PROVE  /\ t.dir \in Inos /\ t.leaf \in Names
         /\ \A m \in Names : Exists(t.dir, m) /\ Fold[m] = Fold[t.leaf] => m = t.leaf
  BY DEF FoldUnique, Reached

LEMMA MakeAdds ==
  ASSUME FolderTypeOK, NEW t, t.dir \in Inos, t.leaf \in Names, NEW i \in Inos, NEW k,
         NEW readonly, Make(t, i, k, readonly)
  PROVE  Adds(t.dir, t.leaf)
<1> DEFINE cleared == [entry EXCEPT ![i] = NoEntries]
<1>1. cleared \in [Inos -> [Names -> Inos \cup {Nil}]]
  BY DEF FolderTypeOK, NoEntries
<1>2. \A e \in Inos, m \in Names : cleared[e][m] # Nil => entry[e][m] # Nil
  BY DEF FolderTypeOK, NoEntries
<1>3. entry' = [cleared EXCEPT ![t.dir][t.leaf] = i]
  BY DEF Make
<1> HIDE DEF cleared
<1>4. \A e \in Inos, m \in Names :
        entry'[e][m] = IF e = t.dir /\ m = t.leaf THEN i ELSE cleared[e][m]
  BY <1>1, <1>3
<1> QED BY <1>2, <1>4 DEF Adds, Exists

LEMMA UnlinkAdds ==
  ASSUME FolderTypeOK, NEW t, Unlink(t)
  PROVE  AddsNone
<1>1. entry' = [entry EXCEPT ![t.dir][t.leaf] = Nil]
  BY DEF Unlink, Link
<1> QED BY <1>1 DEF AddsNone, Exists, FolderTypeOK

LEMMA MoveAdds ==
  ASSUME FolderTypeOK, NEW t, NEW u, Move(t, u)
  PROVE  Adds(u.dir, u.leaf)
<1>1. CASE Object(u) = Object(t)
  BY <1>1 DEF Move, Adds, Exists
<1>2. CASE Object(u) # Object(t)
  <2> DEFINE linked == [entry EXCEPT ![u.dir][u.leaf] = Object(t)]
  <2>1. entry' = [linked EXCEPT ![t.dir][t.leaf] = Nil]
    BY <1>2 DEF Move
  <2>2. /\ DOMAIN linked = Inos
        /\ \A e \in Inos : DOMAIN linked[e] = Names
    BY DEF FolderTypeOK
  <2>3. \A e \in Inos, m \in Names :
          linked[e][m] # Nil => entry[e][m] # Nil \/ (e = u.dir /\ m = u.leaf)
    BY DEF FolderTypeOK
  <2> HIDE DEF linked
  <2>4. \A e \in Inos, m \in Names : entry'[e][m] # Nil => linked[e][m] # Nil
    BY <2>1, <2>2
  <2> QED BY <2>3, <2>4 DEF Adds, Exists
<1> QED BY <1>1, <1>2

LEMMA NameRequestUnique ==
  ASSUME TypeOK, FoldUnique, NameRequest
  PROVE  FoldUnique'
<1>1. CASE UNCHANGED entry
  BY <1>1, AddsNoneKeeps DEF AddsNone, Exists
<1>2. CASE ~UNCHANGED entry
  <2>1. ~\E s : Refuse(s)
    BY <1>2 DEF Refuse, folder
  <2>2. ASSUME NEW p \in Paths, Delete(p) \/ Rmdir(p)
        PROVE  FoldUnique'
    <3>1. PICK t \in Resolve(p) : Unlink(t)
      BY <2>1, <2>2 DEF Delete, Rmdir, OnPath
    <3> QED BY <3>1, UnlinkAdds, AddsNoneKeeps DEF TypeOK
  <2>3. ASSUME NEW p \in Paths, Mkdir(p)
        PROVE  FoldUnique'
    <3>1. PICK t \in Resolve(p), i \in Inos : t.dir # Nil /\ Make(t, i, "dir", FALSE)
      BY <2>1, <2>3 DEF Mkdir, OnPath
    <3>2. Reached(t)
      BY ResolveReached DEF TypeOK
    <3>3. /\ t.dir \in Inos /\ t.leaf \in Names
          /\ \A m \in Names : Exists(t.dir, m) /\ Fold[m] = Fold[t.leaf] => m = t.leaf
      BY <3>1, <3>2, ReachedUnique
    <3>4. Adds(t.dir, t.leaf)
      BY <3>1, <3>3, MakeAdds DEF TypeOK
    <3> QED BY <3>3, <3>4, AddsKeeps
  <2>4. ASSUME NEW p \in Paths, NEW readonly \in BOOLEAN, Setattr(p, readonly)
        PROVE  FoldUnique'
    BY <1>2, <2>1, <2>4 DEF Setattr, OnPath
  <2>5. ASSUME NEW p \in Paths, NEW q \in Paths, Rename(p, q)
        PROVE  FoldUnique'
    <3>1. PICK t \in Resolve(p), u \in Resolve(q) : u.dir # Nil /\ Move(t, u)
      BY <2>1, <2>5 DEF Rename
    <3>2. Reached(u)
      BY ResolveReached DEF TypeOK
    <3> QED BY <3>1, <3>2, ReachedUnique, MoveAdds, AddsKeeps DEF TypeOK
  <2> QED BY <2>2, <2>3, <2>4, <2>5, <1>2 DEF NameRequest
<1> QED BY <1>1, <1>2

LEMMA FileRequestUnique ==
  ASSUME TypeOK, FoldUnique, FileRequest
  PROVE  FoldUnique'
<1>1. CASE UNCHANGED entry
  BY <1>1, AddsNoneKeeps DEF AddsNone, Exists
<1>2. CASE ~UNCHANGED entry
  <2>1. ~\E s : Refuse(s)
    BY <1>2 DEF Refuse, folder
  <2>2. PICK p \in Paths, readonly \in BOOLEAN : Create(p, readonly)
    BY <1>2, <2>1 DEF FileRequest, Open, Close, Read, Write, folder
  <2>3. PICK t \in Resolve(p), i \in Inos : t.dir # Nil /\ NewFile(t, i, readonly)
    BY <1>2, <2>1, <2>2 DEF Create, Truncate, folder
  <2>4. Reached(t)
    BY ResolveReached DEF TypeOK
  <2> QED BY <2>3, <2>4, ReachedUnique, MakeAdds, AddsKeeps DEF NewFile, TypeOK
<1> QED BY <1>1, <1>2

LEMMA HostUnique ==
  ASSUME TypeOK, FoldUnique, Host
  PROVE  FoldUnique'
<1>1. CASE UNCHANGED entry
  BY <1>1, AddsNoneKeeps DEF AddsNone, Exists
<1>2. ASSUME NEW d \in Inos, NEW n \in Names, HostPut(d, n)
      PROVE  FoldUnique'
  <2>1. PICK i \in Inos : Make(Target(d, n, <<n>>), i, "file", FALSE)
    BY <1>2 DEF HostPut, NewFile
  <2> DEFINE t == Target(d, n, <<n>>)
  <2>3. t.dir = d /\ t.leaf = n
    BY DEF Target
  <2> HIDE DEF t
  <2>2. Adds(d, n)
    BY <2>1, <2>3, MakeAdds DEF t, TypeOK
  <2> QED BY <1>2, <2>2, AddsKeeps DEF HostPut
<1>3. ASSUME NEW d \in Inos, NEW n \in Names, HostRemove(d, n)
      PROVE  FoldUnique'
  BY <1>3, UnlinkAdds, AddsNoneKeeps DEF HostRemove, TypeOK
<1> QED BY <1>1, <1>2, <1>3 DEF Host, HostEdit, Writeback, folder

LEMMA StepUnique == TypeOK /\ FoldUnique /\ [Next]_vars => FoldUnique'
<1> SUFFICES ASSUME TypeOK, FoldUnique, [Next]_vars PROVE FoldUnique'
  OBVIOUS
<1>1. CASE UNCHANGED entry
  BY <1>1, AddsNoneKeeps DEF AddsNone, Exists
<1>2. CASE FileRequest
  BY <1>2, FileRequestUnique
<1>3. CASE NameRequest
  BY <1>3, NameRequestUnique
<1>4. CASE Host
  BY <1>4, HostUnique
<1>5. CASE DirRequest \/ (\E op \in Reads : Ask(op)) \/ SessionStep \/ UNCHANGED vars
  <2>1. UNCHANGED folder
    BY <1>5 DEF DirRequest, Opendir, Readdir, Closedir, Refuse, Ask, SessionStep, Session,
                Hello, Connect, Disconnect, Reboot, HelperKilled, PowerLoss, NewProcess, vars
  <2> QED BY <1>1, <2>1 DEF folder
<1> QED BY <1>2, <1>3, <1>4, <1>5 DEF Next, Request, SessionStep

\* Whatever spellings a guest uses to create, make and rename, no directory
\* comes to hold two names that differ only in case.
THEOREM NamesUnique == Spec => []FoldUnique
  BY InitType, StepType, InitUnique, StepUnique, PTL DEF Spec

\* A read-only helper leaves names, attributes and contents to the host.
THEOREM ReadOnlyUntouched == Spec => FolderUntouched
<1>1. ASSUME ReadOnly, Next
      PROVE  Host \/ PowerLoss \/ UNCHANGED <<folder, mem>>
  <2>1. CASE FileRequest
    <3>1. ASSUME NEW p, NEW mode, Open(p, mode)
          PROVE  UNCHANGED <<folder, mem>>
      BY <3>1 DEF Open, Refuse, contents
    <3>2. ASSUME NEW p, NEW readonly, Create(p, readonly)
          PROVE  UNCHANGED <<folder, mem>>
      BY <1>1, <3>2 DEF Create, Gated, Refuse, contents
    <3>3. ASSUME NEW h, NEW v, Close(h) \/ Read(h) \/ Write(h, v)
          PROVE  UNCHANGED <<folder, mem>>
      BY <1>1, <3>3 DEF Close, Read, Write, Gated, Refuse, contents, Fsync
    <3> QED BY <2>1, <3>1, <3>2, <3>3 DEF FileRequest
  <2>2. CASE NameRequest
    BY <1>1, <2>2 DEF NameRequest, Delete, Mkdir, Rmdir, Setattr, Rename, OnPath, Gated,
                      Refuse, contents
  <2>3. CASE DirRequest \/ (\E op \in Reads : Ask(op)) \/ SessionStep
    BY <2>3 DEF DirRequest, Opendir, Readdir, Closedir, Refuse, Ask, SessionStep, Session,
                Hello, Connect, Disconnect, Reboot, HelperKilled, NewProcess, HandlesReset,
                Fsync, contents
  <2> QED BY <1>1, <2>1, <2>2, <2>3 DEF Next, Request, SessionStep
<1>2. [Next]_vars => [ReadOnly => Host \/ PowerLoss \/ UNCHANGED <<folder, mem>>]_vars
  BY <1>1
<1> QED BY <1>2, PTL DEF Spec, FolderUntouched

-----------------------------------------------------------------------------
(* The pages of an enumeration *)

Increasing(s) == \A j, k \in DOMAIN s : j < k => s[j] < s[k]

Members(s) == {s[k] : k \in DOMAIN s}

\* qsort() loses nothing and repeats nothing.
LEMMA InOrderCovers ==
  ASSUME NEW S \in SUBSET Nat, IsFiniteSet(S), NEW s \in InOrder(S)
  PROVE  /\ Increasing(s)
         /\ Members(s) = S
         /\ S # {} => Len(s) \in DOMAIN s /\ \A x \in S : x <= s[Len(s)]
<1> DEFINE c == Cardinality(S)
<1>1. c \in Nat /\ s \in [1..c -> S] /\ DOMAIN s = 1..c /\ Len(s) = c
  BY FS_CardinalityType, InOrderType DEF InOrder
<1>2. /\ \A j, k \in 1..c : j < k => s[j] < s[k]
      /\ \A j \in 1..c : s[j] \in Nat
  BY <1>1 DEF InOrder
<1>3. Increasing(s)
  BY <1>1, <1>2 DEF Increasing
<1>4. IsFiniteSet(1..c) /\ Cardinality(1..c) = c
  BY <1>1, FS_Interval
<1>5. s \in Injection(1..c, S)
  <2>1. \A j, k \in 1..c : s[j] = s[k] => j = k
    <3>1. \A j, k \in 1..c : j = k \/ j < k \/ k < j
      BY <1>1
    <3> HIDE DEF c
    <3> QED BY <1>2, <3>1
  <2> QED BY <1>1, <2>1 DEF Injection, IsInjective
<1>6. s \in Surjection(1..c, S)
  <2> HIDE DEF c
  <2> QED BY <1>4, <1>5, FS_Injection DEF c
<1>7. \A x \in S : \E k \in 1..c : s[k] = x
  BY <1>6 DEF Surjection
<1>8. Members(s) = S
  BY <1>1, <1>7 DEF Members
<1>9. ASSUME S # {} PROVE Len(s) \in DOMAIN s /\ \A x \in S : x <= s[Len(s)]
  <2>1. c # 0
    BY <1>9, FS_EmptySet
  <2>2. c \in 1..c
    BY <1>1, <2>1
  <2>3. ASSUME NEW x \in S PROVE x <= s[c]
    <3>1. PICK k \in 1..c : s[k] = x
      BY <1>7
    <3>2. k = c \/ k < c
      BY <1>1
    <3>3. s[k] <= s[c]
      <4> HIDE DEF c
      <4> QED BY <1>2, <2>2, <3>2
    <3> QED BY <3>1, <3>3
  <2> QED BY <1>1, <2>2, <2>3
<1> QED BY <1>3, <1>8, <1>9

\* The size of a batch is the sum of its entries' sizes, by whatever order.
LEMMA BytesSummed ==
  ASSUME TypeOK, NEW h \in DirHandles
  PROVE  \E G : LET n == Len(dirs[h].names)
                    f == [k \in 1..n |-> 6 + NameLen[dirs[h].names[k]]]
                IN  /\ n \in Nat
                    /\ f \in [1..n -> Nat]
                    /\ Summed(n, f, G)
                    /\ \A ks \in SUBSET (1..n) : EntryBytes(h, ks) = G[ks]
<1> DEFINE n == Len(dirs[h].names)
           f == [k \in 1..n |-> 6 + NameLen[dirs[h].names[k]]]
<1>1. dirs[h].names \in Seq(Names)
  BY DEF TypeOK, TablesTypeOK
<1>2. n \in Nat /\ f \in [1..n -> Nat]
  <2>1. \A k \in 1..n : dirs[h].names[k] \in Names
    BY <1>1
  <2>2. \A k \in 1..n : 6 + NameLen[dirs[h].names[k]] \in Nat
    BY <2>1, PageAssumption
  <2> QED BY <1>1, <2>2
<1>3. PICK G : Summed(n, f, G)
  <2> HIDE DEF n, f
  <2> QED BY <1>2, SumExists
<1>4. ASSUME NEW ks \in SUBSET (1..n) PROVE EntryBytes(h, ks) = G[ks]
  <2> DEFINE some(S) == CHOOSE x \in S : TRUE
             Raw(g) == g = [S \in SUBSET ks |->
                              IF S = {} THEN 0
                              ELSE (6 + NameLen[dirs[h].names[some(S)]]) + g[S \ {some(S)}]]
             Via(g) == g = [S \in SUBSET ks |->
                              IF S = {} THEN 0 ELSE f[some(S)] + g[S \ {some(S)}]]
  <2>1. EntryBytes(h, ks) = (CHOOSE g : Raw(g))[ks]
    BY DEF EntryBytes, MapThenSumSet, MapThenFoldSet
  <2>2. ASSUME NEW S \in SUBSET ks, S # {}
        PROVE  some(S) \in S /\ f[some(S)] = 6 + NameLen[dirs[h].names[some(S)]]
    <3>1. some(S) \in S
      BY <2>2
    <3> QED BY <3>1
  <2> HIDE DEF some, f, n
  <2>3. ASSUME NEW g PROVE Raw(g) <=> Via(g)
    BY <2>2
  <2>4. Via([S \in SUBSET ks |-> G[S]])
    <3> DEFINE g == [S \in SUBSET ks |-> G[S]]
    <3>1. ASSUME NEW S \in SUBSET ks
          PROVE  g[S] = IF S = {} THEN 0 ELSE f[some(S)] + g[S \ {some(S)}]
      <4>1. CASE S = {}
        BY <4>1, <1>3 DEF Summed
      <4>2. CASE S # {}
        <5>1. some(S) \in S /\ S \in SUBSET (1..n) /\ S \ {some(S)} \in SUBSET ks
          BY <2>2, <4>2
        <5>2. G[S] = f[some(S)] + G[S \ {some(S)}]
          BY <1>3, <5>1 DEF Summed
        <5> QED BY <4>2, <5>1, <5>2
      <4> QED BY <4>1, <4>2
    <3> QED BY <3>1
  <2>5. Via(CHOOSE g : Raw(g))
    <3> HIDE DEF Raw, Via
    <3>1. \E g : Raw(g)
      BY <2>3, <2>4
    <3>2. Raw(CHOOSE g : Raw(g))
      BY <3>1
    <3> QED BY <2>3, <3>2
  <2>6. ASSUME NEW g, Via(g) PROVE g[ks] = G[ks]
    <3>1. SumFold(f, ks, g)
      BY <2>6, Zenon DEF some, SumFold
    <3> HIDE DEF Via
    <3> QED BY <1>2, <1>3, <3>1, SumFolds
  <2> HIDE DEF Via
  <2> QED BY <2>1, <2>5, <2>6
<1> QED BY <1>2, <1>3, <1>4

\* A page holds the first of the live entries, and at least one if there is
\* one.
LEMMA PageFirst ==
  ASSUME TypeOK, NEW h \in DirHandles, NEW cookie \in Nat, NEW batch \in BOOLEAN
  PROVE  LET live == Live(h, cookie)
             page == Page(h, cookie, batch)
         IN  /\ page \subseteq live
             /\ live # {} => page # {}
             /\ \A k \in page, j \in live : j <= k => j \in page
<1> DEFINE live == Live(h, cookie)
           page == Page(h, cookie, batch)
           upto(k) == {j \in live : j <= k}
           n == Len(dirs[h].names)
<1>1. n \in Nat /\ dirs[h].names \in Seq(Names)
  BY DEF TypeOK, TablesTypeOK
<1>2. live \in SUBSET (1..n) /\ live \in SUBSET Nat
  BY <1>1 DEF Live
<1>3. \A k \in live : /\ upto(k) \in SUBSET (1..n)
                      /\ IsFiniteSet(upto(k)) /\ Cardinality(upto(k)) \in Nat
  <2>1. IsFiniteSet(1..n)
    BY <1>1, FS_Interval
  <2> HIDE DEF n, live
  <2> QED BY <1>2, <2>1, FS_Subset, FS_CardinalityType
<1>4. \A k \in live : page = {i \in live : IF batch
                                          THEN /\ Cardinality(upto(i)) <= PageEntries
                                               /\ EntryBytes(h, upto(i)) <= PageBytes
                                          ELSE IsLeast(i, live)}
  BY DEF Page
<1>5. page \subseteq live
  BY DEF Page
<1>6. PICK G : /\ \A ks \in SUBSET (1..n) : EntryBytes(h, ks) = G[ks] /\ G[ks] \in Nat
               /\ \A B \in SUBSET (1..n) : \A S \in SUBSET B : G[S] <= G[B]
               /\ \A k \in 1..n : G[{k}] = 6 + NameLen[dirs[h].names[k]]
  <2> DEFINE f == [k \in 1..n |-> 6 + NameLen[dirs[h].names[k]]]
  <2>1. PICK G : /\ f \in [1..n -> Nat]
                 /\ Summed(n, f, G)
                 /\ \A ks \in SUBSET (1..n) : EntryBytes(h, ks) = G[ks]
    BY BytesSummed, Zenon
  <2>2. \A ks \in SUBSET (1..n) : G[ks] \in Nat
    BY <2>1 DEF Summed
  <2>3. ASSUME NEW k \in 1..n PROVE G[{k}] = 6 + NameLen[dirs[h].names[k]]
    <3>1. G[{k}] = f[k] + G[{k} \ {k}] /\ G[{}] = 0 /\ f[k] \in Nat
      BY <2>1 DEF Summed
    <3>2. {k} \ {k} = {}
      OBVIOUS
    <3>3. f[k] = 6 + NameLen[dirs[h].names[k]]
      OBVIOUS
    <3>4. G[{k} \ {k}] = 0
      BY <3>1, <3>2, Zenon
    <3> HIDE DEF f, n
    <3> QED BY <3>1, <3>3, <3>4
  <2> HIDE DEF f, n
  <2>4. ASSUME NEW B \in SUBSET (1..n), NEW S \in SUBSET B PROVE G[S] <= G[B]
    BY <1>1, <2>1, SumMonotone
  <2> QED BY <2>1, <2>2, <2>3, <2>4
<1>7. ASSUME live # {} PROVE page # {}
  <2>1. PICK k \in live : \A j \in live : k <= j
    BY <1>2, <1>7, LeastNat
  <2>2. CASE batch
    <3>1. upto(k) = {k}
      <4>1. \A j \in live : j <= k => j = k
        <5> HIDE DEF live
        <5> QED BY <1>2, <2>1
      <4>2. k \in live /\ k <= k
        <5> HIDE DEF live
        <5> QED BY <1>2
      <4> HIDE DEF live
      <4> QED BY <4>1, <4>2, Zenon
    <3>2. Cardinality(upto(k)) <= PageEntries
      BY <3>1, FS_Singleton, PageAssumption
    <3>3. k \in 1..n /\ dirs[h].names[k] \in Names
      BY <1>1, <1>2
    <3>4. EntryBytes(h, upto(k)) <= PageBytes
      <4>1. {k} \in SUBSET (1..n)
        BY <3>3
      <4>2. EntryBytes(h, {k}) = 6 + NameLen[dirs[h].names[k]]
        BY <1>6, <3>3, <4>1
      <4> QED BY <3>1, <3>3, <4>2, PageAssumption
    <3>5. k \in page
      <4> HIDE DEF page, live, upto
      <4> QED BY <1>4, <2>1, <2>2, <3>2, <3>4
    <3> QED BY <3>5
  <2>3. CASE ~batch
    <3>1. k \in page
      <4> HIDE DEF page, live, upto
      <4> QED BY <1>4, <2>1, <2>3 DEF IsLeast
    <3> QED BY <3>1
  <2> QED BY <2>2, <2>3
<1>8. ASSUME NEW k \in page, NEW j \in live, j <= k PROVE j \in page
  <2>1. k \in live /\ k \in Nat /\ j \in Nat
    BY <1>2, <1>5
  <2>2. CASE batch
    <3>1. Cardinality(upto(k)) <= PageEntries /\ EntryBytes(h, upto(k)) <= PageBytes
      <4> HIDE DEF page, live, upto
      <4> QED BY <1>4, <1>8, <2>1, <2>2
    <3>2. upto(j) \in SUBSET upto(k)
      <4>1. \A i \in live : i <= j => i <= k
        <5> HIDE DEF live, page
        <5> QED BY <1>2, <1>8, <2>1
      <4> HIDE DEF live, page
      <4> QED BY <4>1, Zenon
    <3> HIDE DEF upto, live, page, n
    <3>3. Cardinality(upto(j)) <= Cardinality(upto(k))
      BY <1>3, <2>1, <3>2, FS_Subset
    <3>4. EntryBytes(h, upto(j)) <= EntryBytes(h, upto(k))
      BY <1>3, <1>6, <2>1, <3>2
    <3>5. EntryBytes(h, upto(j)) \in Nat /\ EntryBytes(h, upto(k)) \in Nat
      BY <1>3, <1>6, <1>8, <2>1
    <3>6. Cardinality(upto(j)) <= PageEntries /\ EntryBytes(h, upto(j)) <= PageBytes
      BY <1>3, <2>1, <3>1, <3>3, <3>4, <3>5, PageAssumption
    <3> QED BY <1>4, <1>8, <2>1, <2>2, <3>6
  <2>3. CASE ~batch
    <3>1. IsLeast(k, live)
      <4> HIDE DEF page, live, upto
      <4> QED BY <1>4, <1>8, <2>1, <2>3
    <3>2. j = k
      <4> HIDE DEF live
      <4> QED BY <1>8, <2>1, <3>1 DEF IsLeast
    <3> QED BY <1>8, <3>2
  <2> QED BY <2>2, <2>3
<1> QED BY <1>5, <1>7, <1>8

-----------------------------------------------------------------------------
(* What a step does to the enumerations: nothing, the guest forgets them     *)
(* all, or one is opened, read on or closed.                                 *)

Calm == UNCHANGED <<dirs, scan>>

Forgotten ==
  /\ scan' = [h \in DirHandles |-> NoScan]
  /\ \A h \in DirHandles : /\ dirs'[h].names \in {dirs[h].names, <<>>}
                           /\ dirs'[h].used => dirs'[h] = dirs[h]

Begun(h) ==
  /\ ~dirs[h].used
  /\ \E row : /\ Increasing(row.names)
              /\ dirs' = [dirs EXCEPT ![h] = row]
  /\ scan' = [scan EXCEPT ![h] = NoScan]

Given(h, from, sent) ==
  [cookie |-> sent[Len(sent)],
   seen |-> from.seen \o [k \in DOMAIN sent |-> dirs[h].names[sent[k]]],
   done |-> FALSE]

ReadOn(h, from, batch) ==
  LET page == Page(h, from.cookie, batch)
  IN  \/ page = {} /\ scan' = [scan EXCEPT ![h] = [from EXCEPT !.done = TRUE]]
      \/ /\ page # {}
         /\ \E sent \in InOrder(page) : scan' = [scan EXCEPT ![h] = Given(h, from, sent)]

Continued(h) ==
  /\ dirs[h].used /\ UNCHANGED dirs
  /\ \E batch \in BOOLEAN, from \in {NoScan, scan[h]} : ReadOn(h, from, batch)

Ended(h) ==
  /\ dirs[h].used
  /\ dirs' = [dirs EXCEPT ![h].used = FALSE, ![h].names = <<>>]
  /\ scan' = [scan EXCEPT ![h] = NoScan]

LEMMA SnapshotIncreasing ==
  ASSUME NEW i, NEW names \in Snapshots(i)
  PROVE  Increasing(names)
<1> DEFINE listed == {n \in GuestNames : Exists(i, n)}
<1>1. IsFiniteSet(listed) /\ listed \in SUBSET Nat
  <2>1. listed \subseteq Names
    BY NamesAssumption
  <2> QED BY <2>1, NamesAssumption, FS_Subset
<1>2. names \in InOrder(listed)
  BY DEF Snapshots
<1> HIDE DEF listed
<1> QED BY <1>1, <1>2, InOrderCovers

LEMMA OpendirBegins ==
  ASSUME NEW p, Opendir(p)
  PROVE  Calm \/ \E h \in DirHandles : Begun(h)
<1>1. CASE \E s : Refuse(s)
  BY <1>1 DEF Refuse, Calm, tables
<1>2. CASE ~ \E s : Refuse(s)
  <2>1. PICK t, i, h, names :
          /\ h \in DirHandles /\ names \in Snapshots(i)
          /\ IsLeast(h, FreeDirSlots)
          /\ dirs' = [dirs EXCEPT ![h] = [used |-> TRUE, names |-> names, path |-> t.path]]
          /\ scan' = [scan EXCEPT ![h] = NoScan]
    BY <1>2, Zenon DEF Opendir
  <2>2. ~dirs[h].used
    BY <2>1 DEF IsLeast, FreeDirSlots
  <2> DEFINE row == [used |-> TRUE, names |-> names, path |-> t.path]
  <2>3. Increasing(row.names)
    BY <2>1, SnapshotIncreasing
  <2> HIDE DEF row
  <2>4. dirs' = [dirs EXCEPT ![h] = row]
    BY <2>1 DEF row
  <2>5. Begun(h)
    BY <2>1, <2>2, <2>3, <2>4, Zenon DEF Begun
  <2> QED BY <2>1, <2>5
<1> QED BY <1>1, <1>2

LEMMA ReaddirContinues ==
  ASSUME NEW h, NEW batch \in BOOLEAN, NEW restart, Readdir(h, batch, restart)
  PROVE  Calm \/ (h \in DirHandles /\ Continued(h))
<1>1. CASE Refuse("EIHNDL")
  BY <1>1 DEF Refuse, Calm, tables
<1>2. CASE ~Refuse("EIHNDL")
  <2> DEFINE from == From(h, restart)
             page == Page(h, from.cookie, batch)
  <2>1. h \in DirHandles /\ dirs[h].used /\ UNCHANGED dirs
    BY <1>2 DEF Readdir, DirOf, tables
  <2>2. from \in {NoScan, scan[h]}
    BY DEF From
  <2>3. \/ page = {} /\ scan' = [scan EXCEPT ![h] = [from EXCEPT !.done = TRUE]]
        \/ /\ page # {}
           /\ \E sent \in InOrder(page) : scan' = [scan EXCEPT ![h] = Given(h, from, sent)]
    BY <1>2, Zenon DEF Readdir, Given
  <2>4. ReadOn(h, from, batch)
    BY <2>3, Zenon DEF ReadOn
  <2> HIDE DEF from
  <2>5. Continued(h)
    BY <2>1, <2>2, <2>4 DEF Continued
  <2> QED BY <2>1, <2>5
<1> QED BY <1>1, <1>2

LEMMA ClosedirEnds ==
  ASSUME NEW h, Closedir(h)
  PROVE  Calm \/ (h \in DirHandles /\ Ended(h))
  BY DEF Closedir, Refuse, Calm, tables, DirOf, Ended

LEMMA SessionForgets ==
  ASSUME TypeOK, SessionStep
  PROVE  Calm \/ Forgotten
<1>1. CASE CloseAll /\ GuestForgets
  <2>1. dirs' = [h \in DirHandles |-> IF dirs[h].used
                                      THEN [dirs[h] EXCEPT !.used = FALSE, !.names = <<>>]
                                      ELSE dirs[h]]
    BY <1>1 DEF CloseAll
  <2>2. ASSUME NEW h \in DirHandles
        PROVE  /\ dirs'[h].names \in {dirs[h].names, <<>>}
               /\ dirs'[h].used => dirs'[h] = dirs[h]
    <3>1. dirs[h] \in [used : BOOLEAN, names : Seq(Names), path : Seq(Names)]
      BY DEF TypeOK, TablesTypeOK
    <3>2. CASE dirs[h].used
      <4>1. dirs'[h] = [dirs[h] EXCEPT !.used = FALSE, !.names = <<>>]
        BY <2>1, <3>2
      <4> QED BY <3>1, <4>1
    <3>3. CASE ~dirs[h].used
      BY <2>1, <3>3
    <3> QED BY <3>2, <3>3
  <2> QED BY <1>1, <2>2 DEF GuestForgets, Forgotten
<1>2. CASE NewProcess
  BY <1>2 DEF NewProcess, GuestForgets, Forgotten, FreeDir
<1>3. CASE Reboot
  BY <1>3 DEF Reboot, GuestForgets, Forgotten, tables
<1>4. ASSUME NEW version, Hello(version) PROVE Calm \/ Forgotten
  BY <1>1, <1>4 DEF Hello, HandlesReset, Refuse, Calm, tables
<1> QED BY <1>1, <1>2, <1>3, <1>4 DEF SessionStep, Session, Connect, Disconnect,
                                      HandlesReset, HelperKilled, PowerLoss

LEMMA StepEnumerates ==
  ASSUME TypeOK, [Next]_vars
  PROVE  \/ Calm \/ Forgotten
         \/ \E h \in DirHandles : Begun(h) \/ Continued(h) \/ Ended(h)
<1>1. CASE SessionStep
  BY <1>1, SessionForgets
<1>2. CASE DirRequest
  <2>1. ASSUME NEW p, Opendir(p)
        PROVE  Calm \/ \E h \in DirHandles : Begun(h)
    BY <2>1, OpendirBegins
  <2>2. ASSUME NEW h, NEW batch \in BOOLEAN, NEW restart, Readdir(h, batch, restart)
        PROVE  Calm \/ \E g \in DirHandles : Continued(g)
    BY <2>2, ReaddirContinues
  <2>3. ASSUME NEW h, Closedir(h)
        PROVE  Calm \/ \E g \in DirHandles : Ended(g)
    BY <2>3, ClosedirEnds
  <2> QED BY <1>2, <2>1, <2>2, <2>3, Zenon DEF DirRequest
<1>3. CASE FileRequest
  BY <1>3 DEF FileRequest, Open, Create, Close, Read, Write, Refuse, Calm, tables
<1>4. CASE NameRequest
  BY <1>4 DEF NameRequest, Delete, Mkdir, Rmdir, Setattr, Rename, OnPath, Refuse, Calm,
              tables
<1>5. CASE Host \/ (\E op \in Reads : Ask(op)) \/ UNCHANGED vars
  BY <1>5 DEF Host, HostPut, HostRemove, HostEdit, Writeback, HostStep, Ask, Calm, tables,
              guest, vars
<1> QED BY <1>1, <1>2, <1>3, <1>4, <1>5 DEF Next, Request, SessionStep

-----------------------------------------------------------------------------
(* The order of an enumeration *)

Ordered(names, s) ==
  /\ Increasing(names)
  /\ s.cookie <= Len(names)
  /\ Increasing(s.seen)
  /\ s.seen # <<>> => s.cookie > 0 /\ s.seen[Len(s.seen)] = names[s.cookie]

ListInv == \A h \in DirHandles : Ordered(dirs[h].names, scan[h])

LEMMA NoScanOrdered ==
  ASSUME NEW names \in Seq(Names), Increasing(names)
  PROVE  Ordered(names, NoScan)
<1>1. NoScan.cookie = 0 /\ NoScan.seen = <<>>
  BY DEF NoScan
<1>2. Increasing(<<>>)
  BY DEF Increasing
<1> QED BY <1>1, <1>2 DEF Ordered

\* The names of a page follow those given before: it starts after the cookie,
\* where the last of them stands.
LEMMA PageOrdered ==
  ASSUME TypeOK, NEW h \in DirHandles, NEW batch \in BOOLEAN, NEW from,
         from \in [cookie : Nat, seen : Seq(Names), done : BOOLEAN],
         Ordered(dirs[h].names, from), Page(h, from.cookie, batch) # {},
         NEW sent \in InOrder(Page(h, from.cookie, batch))
  PROVE  Ordered(dirs[h].names, Given(h, from, sent))
<1> DEFINE names == dirs[h].names
           page == Page(h, from.cookie, batch)
           seen == from.seen
           given == [k \in DOMAIN sent |-> names[sent[k]]]
           c == sent[Len(sent)]
<1>1. names \in Seq(Names) /\ seen \in Seq(Names) /\ from.cookie \in Nat
  BY DEF TypeOK, TablesTypeOK
<1>2. /\ IsFiniteSet(page) /\ page \subseteq 1..Len(names)
      /\ \A k \in page : k \in Nat /\ k > from.cookie
  BY <1>1, PageType
<1>3. /\ sent \in Seq(page) /\ Increasing(sent)
      /\ Len(sent) \in DOMAIN sent /\ DOMAIN sent = 1..Len(sent)
  <2>1. page \in SUBSET Nat /\ page # {} /\ sent \in InOrder(page)
    BY <1>2
  <2> HIDE DEF page
  <2>2. sent \in Seq(page) /\ DOMAIN sent = 1..Len(sent)
    BY <1>2, <2>1, InOrderType
  <2> QED BY <1>2, <2>1, <2>2, InOrderCovers
<1>4. \A k \in DOMAIN sent : sent[k] \in 1..Len(names) /\ sent[k] > from.cookie
  <2> HIDE DEF page
  <2>1. \A k \in DOMAIN sent : sent[k] \in page
    BY <1>3
  <2> QED BY <1>2, <2>1
<1>5. given \in Seq(Names) /\ Len(given) = Len(sent)
  <2>1. \A k \in DOMAIN sent : names[sent[k]] \in Names
    BY <1>1, <1>4
  <2>2. Len(sent) \in Nat
    BY <1>3
  <2> QED BY <1>3, <2>1, <2>2
<1>6. c \in 1..Len(names) /\ c > 0 /\ given[Len(given)] = names[c]
  BY <1>3, <1>4, <1>5
<1>7. \A j, k \in 1..Len(names) : j < k => names[j] < names[k]
  BY <1>1 DEF Ordered, Increasing
<1>8. \A j, k \in 1..Len(sent) : j < k => given[j] < given[k]
  BY <1>3, <1>4, <1>7 DEF Increasing
<1> DEFINE all == seen \o given
<1> HIDE DEF given, page
<1>9. /\ all \in Seq(Names) /\ Len(all) = Len(seen) + Len(sent)
      /\ \A k \in 1..Len(seen) : all[k] = seen[k]
      /\ \A k \in (Len(seen) + 1)..(Len(seen) + Len(sent)) :
            all[k] = given[k - Len(seen)]
  BY <1>1, <1>5
<1>10. Len(seen) \in Nat /\ Len(sent) \in Nat /\ Len(sent) > 0
  BY <1>1, <1>3
<1>11. ASSUME NEW j \in 1..Len(all), NEW k \in 1..Len(all), j < k
       PROVE  all[j] < all[k]
  <2>1. CASE k <= Len(seen)
    <3>1. j \in DOMAIN seen /\ k \in DOMAIN seen
      BY <1>1, <1>10, <1>11, <2>1
    <3> QED BY <1>9, <1>11, <3>1, <1>1 DEF Ordered, Increasing
  <2>2. CASE j > Len(seen)
    <3>1. /\ j - Len(seen) \in 1..Len(sent) /\ k - Len(seen) \in 1..Len(sent)
          /\ j - Len(seen) < k - Len(seen)
          /\ j \in (Len(seen) + 1)..(Len(seen) + Len(sent))
          /\ k \in (Len(seen) + 1)..(Len(seen) + Len(sent))
      BY <1>9, <1>10, <1>11, <2>2
    <3> QED BY <1>8, <1>9, <3>1
  <2>3. CASE j <= Len(seen) /\ k > Len(seen)
    <3>1. /\ k - Len(seen) \in 1..Len(sent) /\ j \in 1..Len(seen)
          /\ k \in (Len(seen) + 1)..(Len(seen) + Len(sent))
      BY <1>9, <1>10, <1>11, <2>3
    <3>2. seen # <<>> /\ Len(seen) \in 1..Len(seen)
      BY <1>1, <1>10, <3>1
    <3>3. from.cookie \in 1..Len(names) /\ seen[Len(seen)] = names[from.cookie]
      BY <1>1, <3>2 DEF Ordered
    <3>4. /\ all[j] \in Nat /\ all[k] \in Nat /\ seen[Len(seen)] \in Nat
          /\ all[j] = seen[j]
      <4>1. all[j] \in Names /\ all[k] \in Names /\ seen[Len(seen)] \in Names
        BY <1>1, <1>9, <3>2
      <4> QED BY <1>9, <3>1, <4>1, NamesAssumption
    <3>5. seen[j] <= seen[Len(seen)]
      <4>1. j = Len(seen) \/ j < Len(seen)
        BY <1>10, <3>1
      <4>2. j < Len(seen) => seen[j] < seen[Len(seen)]
        BY <1>1, <3>1, <3>2 DEF Ordered, Increasing
      <4> QED BY <3>4, <4>1, <4>2
    <3>6. all[k] = names[sent[k - Len(seen)]]
      BY <1>3, <1>9, <3>1 DEF given
    <3>7. names[from.cookie] < names[sent[k - Len(seen)]]
      BY <1>3, <1>4, <1>7, <3>1, <3>3
    <3>8. seen[Len(seen)] < all[k]
      BY <3>3, <3>6, <3>7, Zenon
    <3> HIDE DEF all, seen
    <3> QED BY <3>4, <3>5, <3>8
  <2> QED BY <1>10, <1>11, <2>1, <2>2, <2>3
<1>12. Increasing(all)
  BY <1>9, <1>11 DEF Increasing
<1>13. all[Len(all)] = names[c]
  <2>1. /\ Len(all) \in (Len(seen) + 1)..(Len(seen) + Len(sent))
        /\ Len(all) - Len(seen) = Len(given)
    BY <1>5, <1>9, <1>10
  <2> QED BY <1>6, <1>9, <2>1
<1> DEFINE s == Given(h, from, sent)
<1>14. s.cookie = c /\ s.seen = all
  BY DEF Given, given
<1>15. Increasing(names)
  BY DEF Ordered
<1> HIDE DEF s, all
<1> QED BY <1>1, <1>6, <1>12, <1>13, <1>14, <1>15 DEF Ordered, s

LEMMA InitListed == Init => ListInv
<1> SUFFICES ASSUME Init PROVE ListInv
  OBVIOUS
<1>1. \A h \in DirHandles : dirs[h].names = <<>> /\ scan[h] = NoScan
  BY DEF Init, FreeDir
<1>2. <<>> \in Seq(Names) /\ Increasing(<<>>)
  BY DEF Increasing
<1>3. Ordered(<<>>, NoScan)
  BY <1>2, NoScanOrdered
<1> QED BY <1>1, <1>3 DEF ListInv

LEMMA StepListed == TypeOK /\ ListInv /\ [Next]_vars => ListInv'
<1> SUFFICES ASSUME TypeOK, ListInv, [Next]_vars PROVE ListInv'
  OBVIOUS
<1>1. \A h \in DirHandles : dirs[h].names \in Seq(Names) /\ Ordered(dirs[h].names, scan[h])
  BY DEF TypeOK, TablesTypeOK, ListInv
<1>2. \A h \in DirHandles : dirs'[h].names \in Seq(Names)
  BY StepType DEF TypeOK, TablesTypeOK
<1>3. <<>> \in Seq(Names) /\ Increasing(<<>>)
  BY DEF Increasing
<1> SUFFICES ASSUME NEW g \in DirHandles PROVE Ordered(dirs'[g].names, scan'[g])
  BY DEF ListInv
<1>4. CASE Calm
  BY <1>1, <1>4 DEF Calm
<1>5. CASE Forgotten
  <2>1. dirs'[g].names \in {dirs[g].names, <<>>} /\ scan'[g] = NoScan
    BY <1>5 DEF Forgotten
  <2>2. Increasing(dirs[g].names)
    BY <1>1 DEF Ordered
  <2> QED BY <1>1, <1>3, <2>1, <2>2, NoScanOrdered
<1>6. ASSUME NEW h \in DirHandles, Begun(h) \/ Continued(h) \/ Ended(h)
      PROVE  Ordered(dirs'[g].names, scan'[g])
  <2>1. CASE g # h
    <3>1. dirs'[g] = dirs[g] /\ scan'[g] = scan[g]
      BY <1>6, <2>1 DEF Begun, Continued, Ended, ReadOn, TypeOK, TablesTypeOK, GuestTypeOK
    <3> QED BY <1>1, <3>1
  <2>2. CASE g = h /\ Begun(h)
    <3>1. PICK row : Increasing(row.names) /\ dirs' = [dirs EXCEPT ![h] = row]
      BY <2>2 DEF Begun
    <3>2. dirs'[h] = row /\ scan'[h] = NoScan
      BY <2>2, <3>1 DEF Begun, TypeOK, TablesTypeOK, GuestTypeOK
    <3> QED BY <1>2, <2>2, <3>1, <3>2, NoScanOrdered
  <2>3. CASE g = h /\ Continued(h)
    <3>1. PICK batch \in BOOLEAN, from \in {NoScan, scan[h]} : ReadOn(h, from, batch)
      BY <2>3 DEF Continued
    <3>2. from \in [cookie : Nat, seen : Seq(Names), done : BOOLEAN]
      <4>1. NoScan \in [cookie : Nat, seen : Seq(Names), done : BOOLEAN]
        BY DEF NoScan
      <4>2. scan[h] \in [cookie : Nat, seen : Seq(Names), done : BOOLEAN]
        BY DEF TypeOK, GuestTypeOK
      <4> QED BY <3>1, <4>1, <4>2
    <3>3. Ordered(dirs[h].names, from)
      <4>1. Increasing(dirs[h].names)
        BY <1>1 DEF Ordered
      <4> QED BY <1>1, <4>1, NoScanOrdered
    <3>4. dirs'[h] = dirs[h]
      BY <2>3 DEF Continued
    <3>5. CASE scan' = [scan EXCEPT ![h] = [from EXCEPT !.done = TRUE]]
      <4>1. scan'[h] = [from EXCEPT !.done = TRUE]
        BY <3>5 DEF TypeOK, GuestTypeOK
      <4>2. scan'[h].cookie = from.cookie /\ scan'[h].seen = from.seen
        BY <3>2, <4>1
      <4> QED BY <2>3, <3>3, <3>4, <4>2 DEF Ordered
    <3>6. ASSUME Page(h, from.cookie, batch) # {},
                 NEW sent \in InOrder(Page(h, from.cookie, batch)),
                 scan' = [scan EXCEPT ![h] = Given(h, from, sent)]
          PROVE  Ordered(dirs'[g].names, scan'[g])
      <4>1. scan'[h] = Given(h, from, sent)
        BY <3>6 DEF TypeOK, GuestTypeOK
      <4>2. Ordered(dirs[h].names, Given(h, from, sent))
        BY <3>2, <3>3, <3>6, PageOrdered
      <4> QED BY <2>3, <3>4, <4>1, <4>2
    <3> QED BY <3>1, <3>5, <3>6 DEF ReadOn
  <2>4. CASE g = h /\ Ended(h)
    <3>1. dirs'[h].names = <<>> /\ scan'[h] = NoScan
      BY <2>4 DEF Ended, TypeOK, TablesTypeOK, GuestTypeOK
    <3> QED BY <1>3, <2>4, <3>1, NoScanOrdered
  <2> QED BY <1>6, <2>1, <2>2, <2>3, <2>4
<1> QED BY <1>4, <1>5, <1>6, StepEnumerates

\* An enumeration gives the names of its directory in strict order, none twice,
\* and its cookie stands on the last one given, however READDIR, READDIR_BATCH,
\* restarts and the steps of other programs are mixed.
THEOREM NamesComeInOrder == Spec => []ScanInOrder
<1>1. ListInv => ScanInOrder
  BY DEF ListInv, Ordered, Increasing, ScanInOrder
<1> QED BY <1>1, InitType, StepType, InitListed, StepListed, PTL DEF Spec

-----------------------------------------------------------------------------
(* What an enumeration leaves out *)

\* The entries of h that were there all the time are on its list, are there
\* now, and have been given as far as the cookie, or all when it is done.
OwedFound(h) ==
  \A n \in steady[h] : DirOf(h) /\ n \in Listed(h) /\ Stats(dirs[h].path, n)

OwedGiven(h) ==
  /\ \A k \in 1..scan[h].cookie :
        dirs[h].names[k] \in steady[h] => dirs[h].names[k] \in Members(scan[h].seen)
  /\ scan[h].done => steady[h] \subseteq Members(scan[h].seen)

OwedInv == \A h \in DirHandles : OwedFound(h) /\ OwedGiven(h)

LEMMA WatchSteady ==
  ASSUME Watch, NEW h \in DirHandles
  PROVE  steady'[h] = {n \in IF ~DirOf(h) /\ DirOf(h)' THEN Listed(h)' ELSE steady[h] :
                         DirOf(h)' /\ Stats(dirs[h].path, n)'}
  BY DEF Watch

LEMMA NewScanOwes ==
  ASSUME NEW h \in DirHandles, scan'[h] = NoScan
  PROVE  OwedGiven(h)'
  BY DEF NoScan, OwedGiven

\* A slot that stays in use keeps its list.
LEMMA SlotKeepsList ==
  ASSUME TypeOK, [Next]_vars, NEW g \in DirHandles, DirOf(g), DirOf(g)'
  PROVE  dirs'[g] = dirs[g]
<1>1. dirs[g].used /\ dirs'[g].used
  BY DEF DirOf
<1>2. CASE Calm
  BY <1>2 DEF Calm
<1>3. CASE Forgotten
  BY <1>1, <1>3 DEF Forgotten
<1>4. ASSUME NEW h \in DirHandles, Begun(h)
      PROVE  dirs'[g] = dirs[g]
  BY <1>1, <1>4 DEF Begun, TypeOK, TablesTypeOK
<1>5. ASSUME NEW h \in DirHandles, Continued(h)
      PROVE  dirs'[g] = dirs[g]
  BY <1>5 DEF Continued
<1>6. ASSUME NEW h \in DirHandles, Ended(h)
      PROVE  dirs'[g] = dirs[g]
  BY <1>1, <1>6 DEF Ended, TypeOK, TablesTypeOK
<1> QED BY <1>2, <1>3, <1>4, <1>5, <1>6, StepEnumerates

LEMMA OwedStaysFound ==
  ASSUME TypeOK, Next, Watch, NEW g \in DirHandles, OwedFound(g)
  PROVE  OwedFound(g)'
<1> SUFFICES ASSUME NEW n \in steady'[g]
             PROVE  DirOf(g)' /\ n \in Listed(g)' /\ Stats(dirs[g].path, n)'
  BY DEF OwedFound
<1>1. /\ DirOf(g)' /\ Stats(dirs[g].path, n)'
      /\ n \in IF ~DirOf(g) /\ DirOf(g)' THEN Listed(g)' ELSE steady[g]
  BY WatchSteady
<1>2. CASE DirOf(g)
  <2>1. n \in Listed(g)
    BY <1>1, <1>2 DEF OwedFound
  <2>2. dirs'[g] = dirs[g]
    BY <1>1, <1>2, SlotKeepsList
  <2> QED BY <1>1, <2>1, <2>2 DEF Listed
<1>3. CASE ~DirOf(g)
  BY <1>1, <1>3
<1> QED BY <1>2, <1>3

\* A page gives every entry up to its end that is owed.
LEMMA PageGives ==
  ASSUME TypeOK, NEW h \in DirHandles, OwedFound(h), OwedGiven(h),
         steady'[h] \subseteq steady[h],
         NEW batch \in BOOLEAN, NEW from \in {NoScan, scan[h]},
         UNCHANGED dirs, ReadOn(h, from, batch)
  PROVE  OwedGiven(h)'
<1> DEFINE names == dirs[h].names
           page == Page(h, from.cookie, batch)
           live == Live(h, from.cookie)
<1>1. from \in [cookie : Nat, seen : Seq(Names), done : BOOLEAN]
  <2>1. NoScan \in [cookie : Nat, seen : Seq(Names), done : BOOLEAN]
    BY DEF NoScan
  <2>2. scan[h] \in [cookie : Nat, seen : Seq(Names), done : BOOLEAN]
    BY DEF TypeOK, GuestTypeOK
  <2> QED BY <2>1, <2>2
<1>2. names \in Seq(Names) /\ Len(names) \in Nat /\ DOMAIN names = 1..Len(names)
  BY DEF TypeOK, TablesTypeOK
\* What was given before.
<1>3. ASSUME NEW k \in 1..from.cookie, names[k] \in steady[h]
      PROVE  names[k] \in Members(from.seen)
  BY <1>3 DEF OwedGiven, NoScan
\* What is owed and not given yet is live.
<1>4. ASSUME NEW k \in 1..Len(names), k > from.cookie, names[k] \in steady[h]
      PROVE  k \in live
  BY <1>1, <1>2, <1>4 DEF Live, OwedFound
<1>5. /\ page \subseteq live
      /\ live # {} => page # {}
      /\ \A k \in page, j \in live : j <= k => j \in page
  BY <1>1, PageFirst
<1>6. /\ IsFiniteSet(page) /\ page \subseteq 1..Len(names)
      /\ \A k \in page : k \in Nat /\ k > from.cookie
  BY <1>1, <1>2, PageType
<1>7. CASE page = {} /\ scan' = [scan EXCEPT ![h] = [from EXCEPT !.done = TRUE]]
  <2>1. scan'[h] = [from EXCEPT !.done = TRUE]
    BY <1>7 DEF TypeOK, GuestTypeOK
  <2>2. scan'[h].cookie = from.cookie /\ scan'[h].seen = from.seen
    BY <1>1, <2>1
  <2>3. ASSUME NEW n \in steady'[h] PROVE n \in Members(from.seen)
    <3>1. n \in steady[h]
      OBVIOUS
    <3>2. PICK k \in 1..Len(names) : names[k] = n
      BY <1>2, <3>1 DEF OwedFound, Listed
    <3>3. ~(k > from.cookie)
      <4> HIDE DEF page, live
      <4> QED BY <1>4, <1>5, <1>7, <3>1, <3>2
    <3>4. k \in 1..from.cookie
      BY <1>1, <1>2, <3>3
    <3> QED BY <1>3, <3>1, <3>2, <3>4
  <2>4. dirs'[h].names = names
    OBVIOUS
  <2> QED BY <1>3, <2>2, <2>3, <2>4 DEF OwedGiven
<1>8. ASSUME page # {}, NEW sent \in InOrder(page),
             scan' = [scan EXCEPT ![h] = Given(h, from, sent)]
      PROVE  OwedGiven(h)'
  <2> DEFINE given == [k \in DOMAIN sent |-> names[sent[k]]]
             c == sent[Len(sent)]
  <2>1. scan'[h] = Given(h, from, sent)
    BY <1>8 DEF TypeOK, GuestTypeOK
  <2>2. scan'[h].cookie = c /\ scan'[h].seen = from.seen \o given /\ scan'[h].done = FALSE
    BY <2>1 DEF Given
  <2>3. page \in SUBSET Nat
    BY <1>6
  <2> HIDE DEF page
  <2>4. /\ Members(sent) = page /\ Len(sent) \in DOMAIN sent
        /\ \A x \in page : x <= c
    BY <1>6, <1>8, <2>3, InOrderCovers
  <2>5. sent \in Seq(page)
    BY <1>6, <1>8, InOrderType
  <2>6. c \in page /\ c \in 1..Len(names)
    BY <1>6, <2>4 DEF Members
  <2>7. \A k \in DOMAIN sent : names[sent[k]] \in Names
    <3>1. \A k \in DOMAIN sent : sent[k] \in page
      BY <2>5
    <3>2. \A k \in DOMAIN sent : sent[k] \in 1..Len(names)
      BY <1>6, <3>1
    <3> QED BY <1>2, <3>2
  <2>8. given \in Seq(Names) /\ DOMAIN given = DOMAIN sent
    <3>1. Len(sent) \in Nat /\ DOMAIN sent = 1..Len(sent)
      BY <2>5
    <3> QED BY <2>7, <3>1
  <2>9. ASSUME NEW k \in page PROVE names[k] \in Members(given)
    BY <2>4 DEF Members
  <2> HIDE DEF given
  <2>10. /\ Members(from.seen) \subseteq Members(from.seen \o given)
         /\ Members(given) \subseteq Members(from.seen \o given)
    <3>1. from.seen \in Seq(Names)
      BY <1>1
    <3>2. /\ Len(from.seen \o given) = Len(from.seen) + Len(given)
          /\ \A i \in 1..Len(from.seen) : (from.seen \o given)[i] = from.seen[i]
          /\ \A i \in 1..Len(given) : (from.seen \o given)[Len(from.seen) + i] = given[i]
          /\ DOMAIN (from.seen \o given) = 1..(Len(from.seen) + Len(given))
          /\ DOMAIN from.seen = 1..Len(from.seen) /\ DOMAIN given = 1..Len(given)
          /\ Len(from.seen) \in Nat /\ Len(given) \in Nat
      BY <2>8, <3>1
    <3>3. \A i \in 1..Len(from.seen) : i \in DOMAIN (from.seen \o given)
      BY <3>2
    <3>4. \A i \in 1..Len(given) : Len(from.seen) + i \in DOMAIN (from.seen \o given)
      BY <3>2
    <3>5. \A i \in DOMAIN from.seen : from.seen[i] \in Members(from.seen \o given)
      BY <3>2, <3>3 DEF Members
    <3>6. \A i \in DOMAIN given : given[i] \in Members(from.seen \o given)
      BY <3>2, <3>4 DEF Members
    <3> QED BY <3>5, <3>6 DEF Members
  <2>11. ASSUME NEW k \in 1..c, names[k] \in steady'[h]
         PROVE  names[k] \in Members(from.seen \o given)
    <3>1. names[k] \in steady[h] /\ k \in 1..Len(names) /\ c \in Nat /\ k <= c
      BY <2>3, <2>6, <2>11
    <3>2. CASE k <= from.cookie
      <4>1. k \in 1..from.cookie
        BY <1>1, <3>2
      <4> QED BY <1>3, <2>10, <3>1, <4>1
    <3>3. CASE ~(k <= from.cookie)
      <4>1. k > from.cookie
        BY <1>1, <3>3
      <4>2. k \in live
        BY <1>4, <3>1, <4>1
      <4>3. k \in page
        <5> HIDE DEF live, c
        <5> QED BY <1>5, <2>6, <3>1, <4>2
      <4> QED BY <2>9, <2>10, <4>3
    <3> QED BY <3>2, <3>3
  <2>12. dirs'[h].names = names
    OBVIOUS
  <2> HIDE DEF c
  <2> QED BY <2>2, <2>11, <2>12 DEF OwedGiven
<1> QED BY <1>7, <1>8 DEF ReadOn

LEMMA InitOwed == ScanInit => OwedInv
<1> SUFFICES ASSUME ScanInit PROVE OwedInv
  OBVIOUS
<1>1. \A h \in DirHandles : scan[h] = NoScan /\ steady[h] = {}
  BY DEF ScanInit, Init, HistoryInit
<1> QED BY <1>1 DEF OwedInv, OwedFound, OwedGiven

LEMMA StepOwed == TypeOK /\ OwedInv /\ [ScanNext]_<<vars, history>> => OwedInv'
<1> SUFFICES ASSUME TypeOK, OwedInv, [ScanNext]_<<vars, history>> PROVE OwedInv'
  OBVIOUS
<1>0. ASSUME UNCHANGED <<vars, history>> PROVE OwedInv'
  <2>1. dirs' = dirs /\ scan' = scan /\ entry' = entry /\ steady' = steady
    BY <1>0 DEF vars, history, folder, tables, guest
  <2>2. \A h, n : Stats(dirs[h].path, n)' <=> Stats(dirs[h].path, n)
    BY <2>1 DEF Stats, At, Exists
  <2> QED BY <2>1, <2>2 DEF OwedInv, OwedFound, OwedGiven, DirOf, Listed
<1> SUFFICES ASSUME ScanNext PROVE OwedInv'
  BY <1>0
<1> SUFFICES ASSUME NEW g \in DirHandles PROVE OwedFound(g)' /\ OwedGiven(g)'
  BY DEF OwedInv
<1>1. Next /\ Watch /\ OwedFound(g) /\ OwedGiven(g)
  BY DEF ScanNext, OwedInv
<1>2. OwedFound(g)'
  BY <1>1, OwedStaysFound
\* The list owes less with every step of an enumeration that goes on.
<1>3. DirOf(g) \/ ~DirOf(g)' => steady'[g] \subseteq steady[g]
  BY <1>1, WatchSteady
<1>4. CASE dirs' = dirs /\ scan'[g] = scan[g]
  <2>1. steady'[g] \subseteq steady[g]
    BY <1>3, <1>4 DEF DirOf
  <2> QED BY <1>1, <1>2, <1>4, <2>1 DEF OwedGiven
<1>5. CASE Forgotten
  BY <1>2, <1>5, NewScanOwes DEF Forgotten
<1>6. ASSUME NEW h \in DirHandles, Begun(h) \/ Continued(h) \/ Ended(h)
      PROVE  OwedGiven(g)'
  <2>1. CASE g # h
    <3>1. dirs'[g] = dirs[g] /\ scan'[g] = scan[g]
      BY <1>6, <2>1 DEF Begun, Continued, Ended, ReadOn, TypeOK, TablesTypeOK, GuestTypeOK
    <3>2. steady'[g] \subseteq steady[g]
      BY <1>3, <3>1 DEF DirOf
    <3> QED BY <1>1, <3>1, <3>2 DEF OwedGiven
  <2>2. CASE g = h /\ (Begun(h) \/ Ended(h))
    <3>1. scan'[g] = NoScan
      BY <2>2 DEF Begun, Ended, TypeOK, GuestTypeOK
    <3> QED BY <3>1, NewScanOwes
  <2>3. CASE g = h /\ Continued(h)
    <3>1. DirOf(h) /\ dirs' = dirs
      BY <2>3 DEF Continued, DirOf
    <3>2. steady'[h] \subseteq steady[h]
      BY <1>3, <2>3, <3>1
    <3>3. PICK batch \in BOOLEAN, from \in {NoScan, scan[h]} : ReadOn(h, from, batch)
      BY <2>3 DEF Continued
    <3> QED BY <1>1, <2>3, <3>1, <3>2, <3>3, PageGives
  <2> QED BY <1>6, <2>1, <2>2, <2>3
<1> QED BY <1>1, <1>2, <1>4, <1>5, <1>6, StepEnumerates DEF Calm

\* A listing that ended left out no entry that could be found the whole time,
\* whatever other programs added, removed or put back while the guest paged
\* through it, and however many entries a page holds.
THEOREM NothingIsLeftOut == ScanSpec => []ScanComplete
<1>1. ScanInit => TypeOK /\ OwedInv
  BY InitType, InitOwed DEF ScanInit
<1>2. TypeOK /\ [ScanNext]_<<vars, history>> => TypeOK'
  <2>1. [ScanNext]_<<vars, history>> => [Next]_vars
    BY DEF ScanNext
  <2> QED BY <2>1, StepType
<1>3. OwedInv => ScanComplete
  BY DEF OwedInv, OwedGiven, ScanComplete, Members
<1> QED BY <1>1, <1>2, <1>3, StepOwed, PTL DEF ScanSpec
=============================================================================
