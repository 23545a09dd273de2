----------------------------- MODULE HostFolder -----------------------------
(***************************************************************************)
(* The folder hostfsd serves, as a POSIX filesystem sees it, and           *)
(* resolve_path(), which turns the guest's spelling of a path into an      *)
(* object in it.                                                           *)
(*                                                                         *)
(* Objects are inodes, so that an open file keeps its identity when its    *)
(* name is deleted, renamed or given to another file.  A name is a number: *)
(* the order of the numbers is strcmp order, and two names with the same   *)
(* Fold differ only in the case of ASCII letters.  A guest path has at     *)
(* most two components (the bound on depth); <<>> is the root itself.      *)
(* Symbolic links are not in this module.                                  *)
(***************************************************************************)
EXTENDS Naturals, Sequences, FiniteSets

CONSTANTS
  Names,        (* Every name an entry of the folder may have.             *)
  GuestNames,   (* The names component_ok() accepts.                       *)
  Fold,         (* Fold[n]: the name n in ASCII lower case.                *)
  Inos,         (* Inode numbers: the size of the host's disk.             *)
  Root,         (* The inode of the served folder.                         *)
  Nil           (* No inode.                                               *)

ASSUME NamesAssumption ==
  /\ Names \subseteq Nat
  /\ IsFiniteSet(Names)
  /\ GuestNames \subseteq Names
  /\ Fold \in [Names -> Nat]

\* A fold changes letters only, so it never turns an acceptable component into
\* one that component_ok() refuses.
ASSUME FoldAssumption ==
  \A m, n \in Names : Fold[m] = Fold[n] /\ m \in GuestNames => n \in GuestNames

ASSUME InosAssumption ==
  /\ Inos \subseteq Nat
  /\ Root \in Inos
  /\ Nil \in Nat \ Inos

VARIABLES
  kind,         (* kind[i]: "file" or "dir", when inode i is in use.       *)
  ro,           (* ro[i]: the owner has no write permission on i.          *)
  entry         (* entry[d][n]: the inode named n in directory d, or Nil.  *)

folder == <<kind, ro, entry>>

FolderTypeOK ==
  /\ kind \in [Inos -> {"file", "dir"}]
  /\ ro \in [Inos -> BOOLEAN]
  /\ entry \in [Inos -> [Names -> Inos \cup {Nil}]]

\* x is the least element of S: how every "first free" search of the code picks.
IsLeast(x, S) == x \in S /\ \A y \in S : x <= y

Exists(d, n) == entry[d][n] # Nil

Linked(i) == \E d \in Inos, n \in Names : entry[d][n] = i

EmptyDir(i) == \A n \in Names : ~Exists(i, n)

NoEntries == [n \in Names |-> Nil]

-----------------------------------------------------------------------------
(* resolve_path *)

\* A mutant: the guest's own spelling and no other.
Spellings_Exact(d, n) == {n}

\* The spellings under which component n is looked up in directory d: the
\* guest's own if it exists, else any entry that matches it ignoring case (the
\* first that readdir() hands over, whichever that is), else the guest's own.
Spellings(d, n) ==
  LET matches == {m \in Names : Exists(d, m) /\ Fold[m] = Fold[n]}
  IN  IF Exists(d, n) \/ matches = {} THEN {n} ELSE matches

\* A resolved path: the inode of the parent (Nil if the parent does not
\* resolve, which is EPTHNF whatever the host called it), the leaf's on-disk
\* spelling, and the host path, which OPENDIR keeps.
Target(d, n, p) == [dir |-> d, leaf |-> n, path |-> p]

Components(p) == {p[k] : k \in 1..Len(p)}

\* Every target the guest path p, one or two components, may resolve to.
\* A component that component_ok() refuses makes the whole path EPTHNF.
Resolve(p) ==
  IF ~(Components(p) \subseteq GuestNames) THEN {Target(Nil, p[1], p)}
  ELSE IF Len(p) = 1
  THEN {Target(Root, m, <<m>>) : m \in Spellings(Root, p[1])}
  ELSE UNION { {Target(entry[Root][m], k, <<m, k>>) :
                  k \in IF Exists(Root, m) THEN Spellings(entry[Root][m], p[2])
                                           ELSE {p[2]}} :
               m \in Spellings(Root, p[1]) }

\* The object a target names, Nil if there is none.
Object(t) == entry[t.dir][t.leaf]

\* The object at a host path kept from earlier: stat() walks it again, in
\* whatever the folder has become by then.
At(p) ==
  CASE Len(p) = 0 -> Root
    [] Len(p) = 1 -> entry[Root][p[1]]
    [] Len(p) = 2 -> IF Exists(Root, p[1]) THEN entry[entry[Root][p[1]]][p[2]]
                     ELSE Nil

\* stat(path/name) succeeds.
Stats(p, n) == At(p) # Nil /\ Exists(At(p), n)

-----------------------------------------------------------------------------
(* What the host answers, as errno_to_gemdos() reports it to the guest.     *)

Statuses == {"E_OK", "EFILNF", "EPTHNF", "ENHNDL", "EACCDN", "EIHNDL",
             "EDRIVE", "ENMFIL"}

\* The parent of t is missing, or is not a directory.
ParentError(t) == t.dir = Nil \/ kind[t.dir] # "dir"

\* The errors every call that names an existing object shares.
LookupError(t) ==
  IF ParentError(t) THEN "EPTHNF"
  ELSE IF Object(t) = Nil THEN "EFILNF" ELSE "E_OK"

\* open() without O_CREAT, and the refusal of a directory it opened.
OpenError(t, mode) ==
  IF LookupError(t) # "E_OK" THEN LookupError(t)
  ELSE IF kind[Object(t)] = "dir" \/ (ro[Object(t)] /\ mode # "r") THEN "EACCDN"
  ELSE "E_OK"

\* open() with O_CREAT and O_TRUNC; full: the disk has no inode left.
CreateError(t, full) ==
  IF ParentError(t) THEN "EPTHNF"
  ELSE IF Object(t) = Nil
  THEN IF ro[t.dir] \/ full THEN "EACCDN" ELSE "E_OK"
  ELSE IF kind[Object(t)] = "dir" \/ ro[Object(t)] THEN "EACCDN" ELSE "E_OK"

\* unlink()
DeleteError(t) ==
  IF LookupError(t) # "E_OK" THEN LookupError(t)
  ELSE IF ro[t.dir] \/ kind[Object(t)] = "dir" THEN "EACCDN" ELSE "E_OK"

\* mkdir()
MkdirError(t, full) ==
  IF ParentError(t) THEN "EPTHNF"
  ELSE IF Object(t) # Nil \/ ro[t.dir] \/ full THEN "EACCDN" ELSE "E_OK"

\* rmdir()
RmdirError(t) ==
  IF LookupError(t) # "E_OK" THEN LookupError(t)
  ELSE IF ro[t.dir] THEN "EACCDN"
  ELSE IF kind[Object(t)] = "file" THEN "EPTHNF"
  ELSE IF ~EmptyDir(Object(t)) THEN "EACCDN" ELSE "E_OK"

\* rename() from t to u: into itself, onto a directory that is not empty, or
\* between a file and a directory are the host's refusals; a directory that
\* changes parents must be writable itself.
RenameError(t, u) ==
  IF ParentError(t) \/ ParentError(u) THEN "EPTHNF"
  ELSE IF Object(t) = Nil THEN "EFILNF"
  ELSE IF Object(u) = Object(t) THEN "E_OK"
  ELSE IF \/ ro[t.dir] \/ ro[u.dir] \/ u.dir = Object(t)
          \/ kind[Object(t)] = "dir" /\ ro[Object(t)] /\ t.dir # u.dir
  THEN "EACCDN"
  ELSE IF Object(u) = Nil THEN "E_OK"
  ELSE IF kind[Object(t)] = "file"
  THEN IF kind[Object(u)] = "dir" THEN "EACCDN" ELSE "E_OK"
  ELSE IF kind[Object(u)] = "file" THEN "EPTHNF"
  ELSE IF EmptyDir(Object(u)) THEN "E_OK" ELSE "EACCDN"

\* opendir()
OpendirError(i) ==
  IF i = Nil THEN "EFILNF" ELSE IF kind[i] = "file" THEN "EPTHNF" ELSE "E_OK"

-----------------------------------------------------------------------------
(* The changes those calls make.                                            *)

Link(t, i) == entry' = [entry EXCEPT ![t.dir][t.leaf] = i]

Unlink(t) == Link(t, Nil)

\* A new inode i of kind k, named by t.
Make(t, i, k, readonly) ==
  /\ kind' = [kind EXCEPT ![i] = k]
  /\ ro' = [ro EXCEPT ![i] = readonly]
  /\ entry' = [entry EXCEPT ![i] = NoEntries, ![t.dir][t.leaf] = i]

\* Renaming an object to itself changes nothing, whatever the spelling asked for.
Move(t, u) ==
  /\ entry' = IF Object(u) = Object(t) THEN entry
              ELSE [entry EXCEPT ![u.dir][u.leaf] = Object(t), ![t.dir][t.leaf] = Nil]
  /\ UNCHANGED <<kind, ro>>
=============================================================================
