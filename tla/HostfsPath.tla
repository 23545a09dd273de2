----------------------------- MODULE HostfsPath -----------------------------
(***************************************************************************)
(* The border of the folder hostfsd serves: resolve_path(), which joins a  *)
(* guest's path component by component in the spelling the disk has, and   *)
(* the writable pass over the folder, both through under_root().           *)
(*                                                                         *)
(* A host tree has directories, files and links; a link leads anywhere, or *)
(* nowhere.  realpath() gives an object's place in the tree, written as    *)
(* the text of its path, which is what under_root() compares.              *)
(***************************************************************************)
EXTENDS Naturals, Sequences, FiniteSets

CONSTANTS
  Chars,        (* Characters, strings of length one.                      *)
  Lower,        (* ascii_lower().                                          *)
  Bad,          (* Control characters, and : \ * ? " < > |.                *)
  Devices,      (* The DOS devices' names, in lower case.                  *)
  MaxName,      (* HOSTFS_MAX_NAME.                                        *)
  MaxPath,      (* HOSTFS_MAX_PATH.                                        *)
  MaxDepth,     (* How deep the writable pass goes (32).                   *)
  Dirs, Files, Links,
  Folder,         (* The directory served.                                   *)
  NoNode,
  Trees,        (* The trees to look at; see TreesAssumption.              *)
  Requests      (* The guest's paths: sequences of components.             *)

Nodes == Dirs \cup Files \cup Links
Marks == Bad \cup {".", " "}

\* Letters have two cases; marks, and whatever is refused, have not.
ASSUME CharsAssumption ==
  /\ Lower \in [Chars -> Chars]
  /\ \A c \in Chars, m \in Marks : Lower[c] = m <=> c = m
  /\ Devices \subseteq Seq(Chars \ Marks)
  /\ {MaxName, MaxPath, MaxDepth} \subseteq Nat

\* A path goes up to the one object without a name, the root, and a name has
\* no separator in it.  The folder served is not the root, whose own text ends
\* in the separator: under_root() lets nothing in it pass.
ASSUME TreesAssumption ==
  /\ Folder \in Dirs /\ NoNode \notin Nodes
  /\ Dirs \cap Links = {} /\ Files \cap (Dirs \cup Links) = {}
  /\ IsFiniteSet(Links) /\ "/" \notin Chars
  /\ Trees \subseteq [parent : [Nodes -> Dirs \cup {NoNode}],
                      name   : [Nodes -> Seq(Chars)],
                      target : [Links -> Nodes \cup {NoNode}]]
  /\ \A t \in Trees, x, y \in Nodes :
       t.parent[x] = t.parent[y] /\ t.name[x] = t.name[y] => x = y
  /\ \A t \in Trees, x \in Nodes : t.parent[x] = NoNode <=> t.name[x] = <<>>
  /\ \A t \in Trees : t.parent[Folder] # NoNode
  /\ \A t \in Trees, X \in SUBSET Nodes : X # {} => \E x \in X : t.parent[x] \notin X
  /\ Requests \subseteq Seq(Seq(Chars))

VARIABLES
  follows,      (* lstat() is stat(), as it is on Windows.                 *)
  tree,         (* The host's files.                                       *)
  doing,        (* "walk", "idle", "join", "answered" or "refused".        *)
  ahead,        (* make_writable(): directories and depths to come to.     *)
  touched,      (* What clear_readonly() was called for.                   *)
  request,      (* rel.                                                    *)
  joined,       (* The components of it that are joined, as they are.      *)
  above, at,    (* What the parent of the last one, and it, name.          *)
  outcome       (* The object resolve_path() answers with: dir and leaf.   *)

border == <<follows, tree, doing, ahead, touched, request, joined, above, at, outcome>>

-----------------------------------------------------------------------------
(* Names *)

\* The stem, up to the first dot, is a device's name.
IsDosDevice(c) ==
  \E d \in Devices :
    /\ Len(d) <= Len(c)
    /\ \A i \in 1..Len(d) : Lower[c[i]] = d[i]
    /\ Len(d) = Len(c) \/ c[Len(d) + 1] = "."

ComponentOk(c) ==
  /\ Len(c) \in 1..MaxName
  /\ c[Len(c)] \notin {".", " "}
  /\ \A i \in 1..Len(c) : c[i] \notin Bad
  /\ ~IsDosDevice(c)

NameEqFold(a, b) ==
  /\ Len(a) = Len(b)
  /\ \A i \in 1..Len(a) : Lower[a[i]] = Lower[b[i]]

\* rellen: the components, and the separators between them.
RelLen(p) ==
  LET sum[k \in 0..Len(p)] == IF k = 0 THEN 0 ELSE sum[k - 1] + Len(p[k]) + 1
  IN  sum[Len(p)] - 1

-----------------------------------------------------------------------------
(* The host's tree *)

Entries(d) == {x \in Nodes : tree.parent[x] = d}
Entry(d, n) == {x \in Entries(d) : tree.name[x] = n}

\* Where x leads to: links may follow each other, but not for ever.
Real(x) ==
  LET hop[k \in 0..Cardinality(Links)] ==
        IF k = 0 THEN x
        ELSE IF hop[k - 1] \in Links THEN tree.target[hop[k - 1]] ELSE hop[k - 1]
      end == hop[Cardinality(Links)]
  IN  IF end \in Links THEN NoNode ELSE end

\* The text of a canonical path.
Text[x \in Nodes] ==
  IF tree.parent[x] = NoNode THEN <<>>
  ELSE Text[tree.parent[x]] \o <<"/">> \o tree.name[x]

\* A mutant: the text is compared without the separator.
UnderRoot_Prefix(x) ==
  /\ x # NoNode
  /\ Len(Text[x]) >= Len(Text[Folder])
  /\ SubSeq(Text[x], 1, Len(Text[Folder])) = Text[Folder]

UnderRoot(x) ==
  /\ x # NoNode
  /\ LET n == Len(Text[Folder])
     IN  \/ Text[x] = Text[Folder]
         \/ /\ Len(Text[x]) > n
            /\ SubSeq(Text[x], 1, n) = Text[Folder]
            /\ Text[x][n + 1] = "/"

-----------------------------------------------------------------------------
(* make_writable() *)

\* One directory: each entry is resolved before it is changed or descended
\* into; lstat() keeps the pass out of links, where it does not follow them.
Descend(d, depth) ==
  LET inside == {x \in Entries(d) : UnderRoot(Real(x))}
      dirs == {x \in inside : x \in Dirs \/ (follows /\ Real(x) \in Dirs)}
  IN  /\ doing = "walk"
      /\ <<d, depth>> \in ahead
      /\ ahead' = (ahead \ {<<d, depth>>}) \cup
                   (IF depth > MaxDepth THEN {} ELSE {Real(x) : x \in dirs} \X {depth + 1})
      /\ touched' = IF depth > MaxDepth THEN touched
                    ELSE touched \cup {d} \cup {Real(x) : x \in inside \ dirs}
      /\ UNCHANGED <<follows, tree, doing, request, joined, above, at, outcome>>

PassEnds ==
  /\ doing = "walk" /\ ahead = {}
  /\ doing' = "idle"
  /\ UNCHANGED <<follows, tree, ahead, touched, request, joined, above, at, outcome>>

-----------------------------------------------------------------------------
(* resolve_path() *)

\* The empty path is the root itself.
Resolves(p) ==
  /\ doing = "idle"
  /\ request' = p
  /\ IF p = <<>> THEN doing' = "answered" /\ outcome' = [dir |-> Folder, leaf |-> <<>>]
     ELSE /\ doing' = IF RelLen(p) <= MaxPath THEN "join" ELSE "refused"
          /\ UNCHANGED outcome
  /\ UNCHANGED <<follows, tree, ahead, touched, joined, above, at>>

\* A mutant: the guest's own spelling and no other.
OnDisk_Exact(d, c) == {c}

\* The spellings of component c in directory d: an exact hit, whatever it is;
\* else, inside the folder only, whichever match readdir() hands over first;
\* else what the guest sent.
OnDisk(d, c) ==
  LET matches == {tree.name[x] : x \in {y \in Entries(d) : NameEqFold(tree.name[y], c)}}
  IN  IF d \in Dirs /\ Entry(d, c) = {} /\ UnderRoot(d) /\ matches # {} THEN matches
      ELSE {c}

\* A name on a host is not empty and not longer than MaxName; the entry joined
\* next is named by leaf, or there is none.
Join ==
  LET c == request[Len(joined) + 1]
      d == Real(at)
  IN  /\ doing = "join" /\ Len(joined) < Len(request)
      /\ IF ~ComponentOk(c) THEN doing' = "refused" /\ UNCHANGED <<joined, above, at>>
         ELSE \E n \in OnDisk(d, c) :
                /\ joined' = Append(joined, n)
                /\ above' = at
                /\ at' = IF d \in Dirs /\ Entry(d, n) # {}
                         THEN CHOOSE x \in Entry(d, n) : TRUE ELSE NoNode
                /\ UNCHANGED doing
      /\ UNCHANGED <<follows, tree, ahead, touched, request, outcome>>

\* The resolved parent has to be inside, and so has the leaf if it resolves.
Check ==
  /\ doing = "join" /\ Len(joined) = Len(request)
  /\ IF UnderRoot(Real(above)) /\ (Real(at) # NoNode => UnderRoot(Real(at)))
     THEN doing' = "answered" /\ outcome' = [dir |-> Real(above), leaf |-> joined[Len(joined)]]
     ELSE doing' = "refused" /\ UNCHANGED outcome
  /\ UNCHANGED <<follows, tree, ahead, touched, request, joined, above, at>>

BorderInit ==
  /\ follows \in BOOLEAN
  /\ tree \in Trees
  /\ doing = "walk"
  /\ ahead = {<<Folder, 0>>}
  /\ touched = {}
  /\ request = <<>>
  /\ joined = <<>>
  /\ above = NoNode
  /\ at = Folder
  /\ outcome = [dir |-> NoNode, leaf |-> <<>>]

BorderNext ==
  \/ \E d \in Dirs, depth \in 0..MaxDepth + 1 : Descend(d, depth)
  \/ PassEnds
  \/ \E p \in Requests : Resolves(p)
  \/ Join
  \/ Check

BorderSpec == BorderInit /\ [][BorderNext]_border

-----------------------------------------------------------------------------
(* Properties *)

\* What the host's tree, and not the text of a path, says is in the folder.
Inside[x \in Nodes] ==
  x = Folder \/ (tree.parent[x] # NoNode /\ Inside[tree.parent[x]])

InFolder(x) == x # NoNode /\ Inside[x]

\* Neither an answer of resolve_path(), nor what it leads to, nor anything the
\* writable pass changes is outside the folder, whatever links there are.
Contained ==
  /\ doing = "answered" =>
       /\ InFolder(outcome.dir)
       /\ \A x \in Entry(outcome.dir, outcome.leaf) : Real(x) # NoNode => InFolder(Real(x))
  /\ \A x \in touched : InFolder(x)

\* What the guest's path names when case does not matter.
Named ==
  LET found[k \in 0..Len(request)] ==
        IF k = 0 THEN {Folder}
        ELSE {x \in Nodes : \E y \in found[k - 1] :
                /\ tree.parent[x] = Real(y)
                /\ NameEqFold(tree.name[x], request[k])}
  IN  found

Unambiguous ==
  \A x, y \in Nodes :
    tree.parent[x] = tree.parent[y] /\ NameEqFold(tree.name[x], tree.name[y]) => x = y

\* The border refuses nothing that is inside: where no two names differ in case
\* only, a path of acceptable components that never leaves the folder reaches
\* the object it names in any spelling; and the pass reaches every object.
Reaches ==
  /\ doing \in {"answered", "refused"} /\ Unambiguous /\ request # <<>> =>
       \A x \in Named[Len(request)] :
         /\ \A k \in 1..Len(request) : ComponentOk(request[k])
         /\ RelLen(request) <= MaxPath
         /\ \A k \in 1..Len(request) - 1 : \A y \in Named[k] : InFolder(Real(y))
         /\ Real(x) # NoNode => InFolder(Real(x))
         => doing = "answered" /\ Entry(outcome.dir, outcome.leaf) = {x}
  /\ doing # "walk" => {x \in Dirs \cup Files : InFolder(x)} \subseteq touched
=============================================================================
