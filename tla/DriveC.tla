------------------------------- MODULE DriveC -------------------------------
(***************************************************************************)
(* Drive C of the native launcher (tools/shinogi-launcher.c): laid down    *)
(* from the bundle with cp -a when there is nothing in it, or it cannot be *)
(* read; the user's from then on.  And SHINOGI.INI in it, which setres.prg *)
(* in the guest (tools/guest/setres.c) writes and the next launch reads.   *)
(*                                                                         *)
(* Launches may be killed, and run at the same time; cp is a process of    *)
(* its own and goes on without its launcher.  A file of a directory in the *)
(* tree is one of the tree; SHINOGI_RES and SHINOGI_HOSTFS are left out.   *)
(***************************************************************************)
EXTENDS Naturals, Sequences, FiniteSets

CONSTANTS
  Launchers,
  Shipped,      (* The files of the bundle's tree.                         *)
  Custom, Ini,  (* CUSTOM.IMG and SHINOGI.INI.                             *)
  Sizes,        (* Sizes a launcher accepts.                               *)
  Default,      (* 1024x768.                                               *)
  TooLarge,     (* A res line with a size it does not.                     *)
  Comment,      (* The comment setres writes.                              *)
  Settings,     (* Any other line.                                         *)
  Texts,        (* What the user makes of SHINOGI.INI.                     *)
  NoSize,
  Keep          (* How many lines setres keeps (64).                       *)

ASSUME DriveAssumption ==
  /\ Custom \notin Shipped /\ Ini \notin Shipped /\ Custom # Ini
  /\ Default \in Sizes /\ NoSize \notin Sizes
  /\ Sizes \cap ({TooLarge, Comment} \cup Settings) = {} /\ TooLarge \notin {Comment} \cup Settings

  /\ Texts \subseteq Seq(Sizes \cup {TooLarge} \cup Settings)
  /\ Keep \in Nat

FilesOfC == Shipped \cup {Custom, Ini}

VARIABLES
  bundled,      (* The bundle has a tree.                                  *)
  there,        (* The folder exists.                                      *)
  drive,        (* drive[n]: the file n of it.                             *)
  ini,          (* The lines of SHINOGI.INI.                               *)
  place,        (* Where main() of launcher l is.                          *)
  cp,           (* Its cp: "none", "runs", or "fails" if an error was met. *)
  left,         (* What that has not come to yet.                          *)
  size,         (* rw and rh.                                              *)
  store,        (* What setres is about to write, for which launch's guest.*)
  chosen,       (* History: the size last stored, until somebody edits.    *)
  had,          (* History: the settings that store found.                 *)
  kept,         (* History: files the user has that no cp was to write.    *)
  relaid        (* History: those of them that a launch lays the tree over *)
                (* all the same, since it could not read the folder.       *)

folder == <<bundled, there, drive, ini>>
launchers == <<place, cp, left, size>>
edits == <<store, chosen, had, kept, relaid>>
driveVars == <<folder, launchers, edits>>

\* "cut": cp has not finished it; "own": the user's, or the guest's.
Contents == {"none", "pristine", "cut", "own"}

LaunchSteps == {"off", "lay", "copy", "size", "firmware", "runs"}

NoStore == [by |-> "none", text |-> <<>>, size |-> NoSize]

DriveTypeOK ==
  /\ bundled \in BOOLEAN /\ there \in BOOLEAN
  /\ drive \in [FilesOfC -> Contents]
  /\ ini \in Seq(Sizes \cup {TooLarge, Comment} \cup Settings)
  /\ place \in [Launchers -> LaunchSteps]
  /\ cp \in [Launchers -> {"none", "runs", "fails"}]
  /\ left \in [Launchers -> SUBSET Shipped]
  /\ size \in [Launchers -> Sizes]
  /\ store.by \in Launchers \cup {"none"}
  /\ chosen \in Sizes \cup {NoSize}
  /\ had \subseteq Settings
  /\ kept \subseteq FilesOfC /\ relaid \subseteq kept \cap Shipped

-----------------------------------------------------------------------------
(* SHINOGI.INI *)

IsRes(x) == x \in Sizes \cup {TooLarge}

\* What main() of the launcher makes of it: the first res line counts, if its
\* size is accepted.
ReadSize(f) ==
  LET res == {i \in 1..Len(f) : IsRes(f[i])}
      first == f[CHOOSE i \in res : \A j \in res : i <= j]
  IN  IF res # {} /\ first \in Sizes THEN first ELSE Default

\* A mutant: the line is added to what is there.
Stored_Appends(f, s) == f \o <<Comment, s>>

\* The lines that store() of setres keeps: the first Keep of another setting.
KeptLines(f) ==
  LET keep[i \in 0..Len(f)] ==
        IF i = 0 THEN <<>>
        ELSE LET before == keep[i - 1]
             IN  IF IsRes(f[i]) \/ Len(before) = Keep THEN before ELSE Append(before, f[i])
  IN  keep[Len(f)]

\* What it makes of the file.
Stored(f, s) == <<Comment, s>> \o KeptLines(f)

-----------------------------------------------------------------------------
(* main() of the launcher *)

Goes(l, step) == place' = [place EXCEPT ![l] = step]

\* A mutant: the tree is laid down wherever a file of it is missing.
NothingIn_NotWhole == \E n \in Shipped : drive[n] = "none"

\* What dir_is_empty_or_absent() finds in a folder that it can read.
NothingIn == \A n \in FilesOfC : drive[n] = "none"

\* It takes a folder for empty, whatever is in it, when opendir() fails (no
\* permission to read it, no memory, an error of the file system) or readdir()
\* does at once: mkdir() and cp, which need not read it, may do their work.
Unread(l) ==
  /\ there /\ ~NothingIn
  /\ Goes(l, "lay")
  /\ relaid' = relaid \cup (kept \cap Shipped)

Looks(l) ==
  /\ place[l] = "off" /\ cp[l] = "none"
  /\ \/ Goes(l, IF NothingIn THEN "lay" ELSE "size") /\ UNCHANGED relaid
     \/ Unread(l)
  /\ UNCHANGED <<folder, cp, left, size, store, chosen, had, kept>>

\* mkdir(), whose failure is not looked at, and fork(), if there is a tree.
Lays(l) ==
  /\ place[l] = "lay"
  /\ there' \in {there, TRUE}
  /\ \/ /\ bundled /\ Goes(l, "copy")
        /\ cp' = [cp EXCEPT ![l] = "runs"]
        /\ left' = [left EXCEPT ![l] = Shipped]
     \/ bundled /\ Goes(l, "off") /\ UNCHANGED <<cp, left>>
     \/ ~bundled /\ Goes(l, "size") /\ UNCHANGED <<cp, left>>
  /\ UNCHANGED <<bundled, drive, ini, size, edits>>

\* cp -a comes to a file: it replaces what is there, or fails at it and goes on.
Copies(l, n) ==
  /\ cp[l] # "none" /\ n \in left[l]
  /\ left' = [left EXCEPT ![l] = @ \ {n}]
  /\ \/ there /\ drive' = [drive EXCEPT ![n] = "pristine"] /\ UNCHANGED cp
     \/ there /\ drive' = [drive EXCEPT ![n] = "cut"] /\ cp' = [cp EXCEPT ![l] = "fails"]
     \/ UNCHANGED drive /\ cp' = [cp EXCEPT ![l] = "fails"]
  /\ UNCHANGED <<bundled, there, ini, place, size, edits>>

\* It ends, or is killed; waitpid() of its launcher, if that is still there.
CopyEnds(l) ==
  /\ cp[l] # "none"
  /\ cp' = [cp EXCEPT ![l] = "none"]
  /\ left' = [left EXCEPT ![l] = {}]
  /\ IF place[l] = "copy"
     THEN Goes(l, IF cp[l] = "runs" /\ left[l] = {} THEN "size" ELSE "off")
     ELSE UNCHANGED place
  /\ UNCHANGED <<folder, size, edits>>

LooksUpSize(l) ==
  /\ place[l] = "size"
  /\ size' = [size EXCEPT ![l] = ReadSize(ini)]
  /\ Goes(l, "firmware")
  /\ UNCHANGED <<folder, cp, left, edits>>

\* CUSTOM.IMG, or else an image of the bundle's, if it has one.
FindsFirmware(l) ==
  /\ place[l] = "firmware"
  /\ \/ Goes(l, "runs") /\ UNCHANGED size
     \/ drive[Custom] = "none" /\ Goes(l, "off") /\ size' = [size EXCEPT ![l] = Default]
  /\ UNCHANGED <<folder, cp, left, edits>>

\* The guest is shut down, or the launcher is killed wherever it is.
Ends(l) ==
  /\ place[l] # "off"
  /\ Goes(l, "off")
  /\ size' = [size EXCEPT ![l] = Default]
  /\ store' = IF store.by = l THEN NoStore ELSE store
  /\ UNCHANGED <<folder, cp, left, chosen, had, kept, relaid>>

-----------------------------------------------------------------------------
(* setres, in the guest of a launch, and the user *)

\* It has read the file, and opened it for writing, which empties it.
Chooses(l, s) ==
  /\ place[l] = "runs" /\ store = NoStore /\ there
  /\ store' = [by |-> l, text |-> Stored(ini, s), size |-> s]
  /\ drive' = [drive EXCEPT ![Ini] = "own"]
  /\ ini' = <<>>
  /\ chosen' = NoSize
  /\ had' = {ini[i] : i \in 1..Len(ini)} \cap Settings
  /\ UNCHANGED <<bundled, there, launchers, kept, relaid>>

\* fclose(), which may fail.
Writes ==
  /\ store # NoStore
  /\ store' = NoStore
  /\ \/ /\ drive[Ini] = "own"
        /\ ini' = store.text
        /\ chosen' = store.size
     \/ UNCHANGED <<ini, chosen>>
  /\ UNCHANGED <<bundled, there, drive, launchers, had, kept, relaid>>

\* A launch has taken the folder for empty and is about to fill it, or is doing
\* so and has not come to n.
Endangered(n) == n \in Shipped /\ \E l \in Launchers : place[l] = "lay" \/ n \in left[l]

\* The user, or a program in the guest.
Edits(n) ==
  /\ there /\ n # Ini
  /\ drive' = [drive EXCEPT ![n] = "own"]
  /\ IF Endangered(n) THEN UNCHANGED <<kept, relaid>>
     ELSE kept' = kept \cup {n} /\ relaid' = relaid \ {n}
  /\ UNCHANGED <<bundled, there, ini, launchers, store, chosen, had>>

EditsIni(text) ==
  /\ there /\ store = NoStore
  /\ drive' = [drive EXCEPT ![Ini] = "own"]
  /\ ini' = text
  /\ chosen' = NoSize
  /\ kept' = kept \cup {Ini}
  /\ UNCHANGED <<bundled, there, launchers, store, had, relaid>>

Deletes(n) ==
  /\ drive[n] # "none"
  /\ drive' = [drive EXCEPT ![n] = "none"]
  /\ kept' = kept \ {n} /\ relaid' = relaid \ {n}
  /\ IF n = Ini THEN ini' = <<>> /\ chosen' = NoSize ELSE UNCHANGED <<ini, chosen>>
  /\ UNCHANGED <<bundled, there, launchers, store, had>>

\* "a guest that wrecks its own C: is one deleted folder away from working again"
DeletesFolder ==
  /\ there
  /\ there' = FALSE
  /\ drive' = [n \in FilesOfC |-> "none"]
  /\ ini' = <<>>
  /\ kept' = {} /\ relaid' = {}
  /\ chosen' = NoSize
  /\ UNCHANGED <<bundled, launchers, store, had>>

\* Nothing, or the empty folder an older build made.
DriveInit ==
  /\ bundled \in BOOLEAN /\ there \in BOOLEAN
  /\ drive = [n \in FilesOfC |-> "none"]
  /\ ini = <<>>
  /\ place = [l \in Launchers |-> "off"]
  /\ cp = [l \in Launchers |-> "none"]
  /\ left = [l \in Launchers |-> {}]
  /\ size = [l \in Launchers |-> Default]
  /\ store = NoStore
  /\ chosen = NoSize
  /\ had = {}
  /\ kept = {} /\ relaid = {}

LaunchRuns(l) ==
  \/ Looks(l) \/ Lays(l) \/ (\E n \in Shipped : Copies(l, n)) \/ CopyEnds(l)
  \/ LooksUpSize(l) \/ FindsFirmware(l) \/ Ends(l)

SetRes == (\E l \in Launchers, s \in Sizes : Chooses(l, s)) \/ Writes

User ==
  \/ \E n \in FilesOfC : Edits(n) \/ Deletes(n)
  \/ \E text \in Texts : EditsIni(text)
  \/ DeletesFolder

DriveNext == (\E l \in Launchers : LaunchRuns(l)) \/ SetRes \/ User

DriveSpec == DriveInit /\ [][DriveNext]_driveVars

-----------------------------------------------------------------------------
(* Properties *)

\* "a drive C with files in it belongs to the user, and re-laying the tree
\* over it would overwrite their edited configs": what the user, or a guest,
\* has made of a file stays, however launches and the copies they leave
\* behind interleave.  Two cases are not covered: a file that a copy under way
\* had not come to when it was edited; and one of the tree's that was there
\* when a launch could not read the folder, which the code lays the tree over
\* against its own comment.  No launch touches the user's other files.
UsersFilesKept == \A n \in kept \ relaid : drive[n] = "own"

\* "This takes effect the NEXT time shinogi starts": the size that setres has
\* stored is the size of every launch, whatever was in the file before.
ChosenSizeTakesEffect ==
  [][\A l \in Launchers :
       place[l] = "size" /\ place'[l] = "firmware" /\ chosen # NoSize => size'[l] = chosen]_driveVars

\* A claim of setres that does not hold: "a future setting written by
\* something else must survive being edited here".
SettingsSurvive ==
  chosen # NoSize => had \subseteq {ini[i] : i \in 1..Len(ini)}
=============================================================================
