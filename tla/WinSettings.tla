---------------------------- MODULE WinSettings ----------------------------
(***************************************************************************)
(* The settings of the Windows edition (tools/win/settings.c, drives.c,    *)
(* resolution.c and the settings part of network.c): a file of keys, read  *)
(* and written one at a time by any number of launchers and Settings       *)
(* dialogs, and SHINOGI.INI in drive C, replaced as a whole.               *)
(*                                                                         *)
(* A path names an object, or nothing, and the user moves objects about.   *)
(* Read-only flags, the display mode, the MAC and the addresses of a       *)
(* static LAN are left out: keys like the others that nothing is checked   *)
(* against.                                                                *)
(***************************************************************************)
EXTENDS Naturals, Sequences, FiniteSets

CONSTANTS
  Procs,        (* Processes that run WinMain().                           *)
  Folders,      (* The slots of drives_load(): folder drives,              *)
  Images,       (* and raw images.                                         *)
  SlotOrder,    (* Both, in a sequence.                                    *)
  Reserved,     (* U:, a slot that has to be empty.                        *)
  Paths,        (* Full paths.                                             *)
  NoPath,       (* The empty path.                                         *)
  Dirs, Raws,   (* Objects: folders, and files that are usable images.     *)
  Nothing,
  Scenes,       (* What the paths name, from one time to another.          *)
  Eths, Taps,   (* GUIDs of Ethernet adapters and of TAP adapters.         *)
  NoGuid,
  Sizes,        (* Sizes shinogi_parse_resolution() accepts.               *)
  Default,      (* 1024x768.                                               *)
  Bad,          (* The value of a res line it does not accept.             *)
  Words,        (* What other lines of SHINOGI.INI say.                    *)
  Inis,         (* Contents of SHINOGI.INI to start with.                  *)
  MaxActs,      (* Bound: how much the users do.                           *)
  Entered       (* What users enter in the dialog: all but "tap".          *)

Slots == Folders \cup Images
Keys == Slots \cup {"c", "size", "eth", "tap", "lan"}

Value(k) ==
  IF k \in Slots THEN Paths \cup {NoPath}
  ELSE CASE k = "c" -> Paths
         [] k = "size" -> Sizes
         [] k = "eth" -> Eths \cup {NoGuid}
         [] k = "tap" -> Taps \cup {NoGuid}
         [] k = "lan" -> BOOLEAN

\* SHINOGI.INI, as fgets() gives it: pieces that start a line or go on with
\* one that was too long.
Pieces == [start : BOOLEAN, text : Words \cup Sizes \cup {Bad}]

IniFiles == {f \in Seq(Pieces) : f = <<>> \/ f[1].start}

ASSUME SettingsAssumption ==
  /\ Reserved \in Folders /\ Folders \cap Images = {}
  /\ {"c", "size", "eth", "tap", "lan"} \cap Slots = {}
  /\ SlotOrder \in Seq(Slots) /\ \A s \in Slots : \E i \in 1..Len(SlotOrder) : SlotOrder[i] = s
  /\ Paths # {} /\ NoPath \notin Paths /\ NoGuid \notin Eths \cup Taps
  /\ Nothing \notin Dirs \cup Raws /\ Dirs \cap Raws = {}
  /\ Scenes # {} /\ Scenes \subseteq [Paths -> Dirs \cup Raws \cup {Nothing}]
  /\ Default \in Sizes /\ Bad \notin Sizes /\ Words \cap (Sizes \cup {Bad}) = {}
  /\ Inis \subseteq IniFiles
  /\ \A e \in Entered, k \in Keys \ {"tap"} : e[k] \in Value(k)

\* The order of settings_load() and that of the saving, in which Mode is last.
LoadOrder == <<"c", "size">> \o SlotOrder \o <<"lan", "eth", "tap">>
SaveOrder == <<"size">> \o SlotOrder \o <<"c", "eth", "tap", "lan">>

VARIABLES
  file,         (* settings.ini; its "size" is not used.                   *)
  ini,          (* ini[d]: SHINOGI.INI in the folder d, <<>> if none.      *)
  scene,        (* What each path names now.                               *)
  machine,      (* The adapters of the managed bridge, in the registry.    *)
  run,          (* Where process p is.                                     *)
  next,         (* Where it goes after the dialog.                         *)
  step,         (* The key it has come to.                                 *)
  draft,        (* Its Settings.                                           *)
  acts,         (* How many things the users have done.                    *)
  seen          (* History: the scene it last found its drives right in.   *)

settings == <<file, ini, scene, machine, run, next, step, draft, acts, seen>>

Stages == {"off", "load", "folder", "drives", "dialog", "save", "ready", "runs"}

SettingsTypeOK ==
  /\ \A k \in Keys : file[k] \in Value(k)
  /\ ini \in [Dirs -> IniFiles]
  /\ scene \in Scenes
  /\ machine \in [eth : Eths \cup {NoGuid}, tap : Taps \cup {NoGuid}]
  /\ run \in [Procs -> Stages]
  /\ next \in [Procs -> {"off", "drives", "ready"}]
  /\ step \in [Procs -> 1..Len(SaveOrder)]
  /\ \A p \in Procs, k \in Keys : draft[p][k] \in Value(k)
  /\ seen \in [Procs -> Scenes]

-----------------------------------------------------------------------------
(* SHINOGI.INI.  What makes a piece a res line is its text alone.           *)

IsRes(x) == x.text \in Sizes \cup {Bad}

Res(size) == [start |-> TRUE, text |-> size]

\* shinogi_read_resolution()
ReadSize(f) ==
  LET good == {i \in 1..Len(f) : f[i].start /\ f[i].text \in Sizes}
  IN  IF good = {} THEN Default
      ELSE f[CHOOSE i \in good : \A j \in good : i <= j].text

\* A mutant: every piece is looked at by itself.
Skips_ByPiece(f) == [i \in 1..Len(f) |-> IsRes(f[i])]

\* The pieces of the lines that are not kept.
Skips(f) ==
  LET skip[i \in 1..Len(f)] == IF f[i].start THEN IsRes(f[i]) ELSE skip[i - 1]
  IN  skip

\* shinogi_write_resolution(): one res line, where the first was, or at the end.
WriteSize(f, size) ==
  LET skip == Skips(f)
      out[i \in 0..Len(f)] ==
        IF i = 0 THEN <<>>
        ELSE IF ~skip[i] THEN Append(out[i - 1], f[i])
        ELSE IF \E j \in 1..i - 1 : skip[j] THEN out[i - 1]
        ELSE Append(out[i - 1], Res(size))
  IN  IF \E j \in 1..Len(f) : skip[j] THEN out[Len(f)] ELSE Append(out[Len(f)], Res(size))

-----------------------------------------------------------------------------
(* What is valid *)

\* GetFileInformationByHandle(), which two paths to one object agree on.
Identity(path) == IF path = NoPath THEN Nothing ELSE scene[path]

FolderValid(d) == Identity(d["c"]) \in Dirs

\* A mutant: the paths are compared, and not what they name.
DrivesValid_ByPath(d) ==
  \A i \in {s \in Slots : d[s] # NoPath} :
    /\ i # Reserved
    /\ Identity(d[i]) \in IF i \in Folders THEN Dirs ELSE Raws
    /\ d[i] # d["c"]
    /\ \A j \in Slots \ {i} : d[j] # d[i]

\* drives_valid(): the slots in use are what they should be, and one object is
\* not served twice.
DrivesValid(d) ==
  \A i \in {s \in Slots : d[s] # NoPath} :
    /\ i # Reserved
    /\ Identity(d[i]) \in IF i \in Folders THEN Dirs ELSE Raws
    /\ Identity(d[i]) # Identity(d["c"])
    /\ \A j \in Slots \ {i} : Identity(d[j]) # Identity(d[i])

\* network_config_valid(), and what follows from it for the keys modelled.
NetworkValid(d) == d["lan"] => d["eth"] # NoGuid

-----------------------------------------------------------------------------
(* WinMain() *)

Acts == acts < MaxActs /\ acts' = acts + 1

Goes(p, place) == run' = [run EXCEPT ![p] = place]

Fresh ==
  [k \in Keys |->
     IF k \in Slots THEN NoPath
     ELSE CASE k = "c" -> CHOOSE path \in Paths : TRUE
            [] k = "size" -> Default
            [] k = "lan" -> FALSE
            [] OTHER -> NoGuid]

\* The process ends, or is killed, and what it had read goes with it.
Quits(p) ==
  /\ run' = [run EXCEPT ![p] = "off"]
  /\ next' = [next EXCEPT ![p] = "off"]
  /\ step' = [step EXCEPT ![p] = 1]
  /\ draft' = [draft EXCEPT ![p] = Fresh]
  /\ seen' = [seen EXCEPT ![p] = CHOOSE sc \in Scenes : TRUE]

\* The Settings entry of the menu, or a launch.
Opens(p, after) ==
  /\ run[p] = "off"
  /\ Acts
  /\ Goes(p, "load")
  /\ next' = [next EXCEPT ![p] = after]
  /\ step' = [step EXCEPT ![p] = 1]
  /\ UNCHANGED <<file, ini, scene, machine, draft, seen>>

\* settings_load(), key by key; the size is that of the drive C just read.
LoadsKey(p) ==
  LET k == LoadOrder[step[p]]
      d == Identity(draft[p]["c"])
      value == IF k # "size" THEN file[k]
               ELSE IF d \in Dirs THEN ReadSize(ini[d]) ELSE Default
  IN  /\ run[p] = "load"
      /\ draft' = [draft EXCEPT ![p][k] = value]
      /\ IF step[p] < Len(LoadOrder)
         THEN step' = [step EXCEPT ![p] = @ + 1] /\ UNCHANGED run
         ELSE /\ UNCHANGED step
              /\ Goes(p, IF next[p] = "off" THEN "dialog" ELSE "folder")
      /\ UNCHANGED <<file, ini, scene, machine, acts, next, seen>>

\* A launch looks at drive C, then at the others; each may open the dialog.
ChecksFolder(p) ==
  /\ run[p] = "folder"
  /\ Goes(p, IF FolderValid(draft[p]) THEN "drives" ELSE "dialog")
  /\ next' = [next EXCEPT ![p] = "drives"]
  /\ UNCHANGED <<file, ini, scene, machine, acts, step, draft, seen>>

ChecksDrives(p) ==
  /\ run[p] = "drives"
  /\ next' = [next EXCEPT ![p] = "ready"]
  /\ IF DrivesValid(draft[p])
     THEN Goes(p, "ready") /\ seen' = [seen EXCEPT ![p] = scene]
     ELSE Goes(p, "dialog") /\ UNCHANGED seen
  /\ UNCHANGED <<file, ini, scene, machine, acts, step, draft>>

\* network_prepare(): LAN only on the bridge that is set up, if it works.
ChecksLan(p) ==
  /\ run[p] = "ready"
  /\ \/ Quits(p)
     \/ /\ NetworkValid(draft[p])
        /\ draft[p]["lan"] => machine = [eth |-> draft[p]["eth"], tap |-> draft[p]["tap"]]
        /\ Goes(p, "runs")
        /\ UNCHANGED <<next, step, draft, seen>>
  /\ UNCHANGED <<file, ini, scene, machine, acts>>

-----------------------------------------------------------------------------
(* dialog_proc() *)

\* "Set up LAN" or "Remove", which may fail half-way: what the registry has of
\* the adapters afterwards, and the TAP adapter taken from it if it did not fail.
SetsUpLan(p) ==
  /\ run[p] = "dialog"
  /\ Acts
  /\ machine' \in [eth : {machine.eth, NoGuid} \cup (IF machine.eth = NoGuid THEN Eths ELSE {}),
                   tap : Taps \cup {NoGuid}]
  /\ draft' \in {draft, [draft EXCEPT ![p]["tap"] = machine'.tap]}
  /\ UNCHANGED <<file, ini, scene, run, next, step, seen>>

\* IDOK: everything is looked at before anything is written; a warning leaves
\* the dialog as it is.
Confirms(p, e) ==
  LET d == [k \in Keys |-> IF k = "tap" THEN draft[p][k] ELSE e[k]]
  IN  /\ run[p] = "dialog"
      /\ Acts
      /\ FolderValid(d) /\ NetworkValid(d) /\ DrivesValid(d)
      /\ draft' = [draft EXCEPT ![p] = d]
      /\ seen' = [seen EXCEPT ![p] = scene]
      /\ Goes(p, "save")
      /\ step' = [step EXCEPT ![p] = 1]
      /\ UNCHANGED <<file, ini, scene, machine, next>>

\* A key is written, or cannot be, which leaves the dialog open.
SavesKey(p) ==
  LET k == SaveOrder[step[p]]
      d == Identity(draft[p]["c"])
  IN  /\ run[p] = "save"
      /\ \/ /\ IF k = "size"
               THEN /\ d \in Dirs
                    /\ ini' = [ini EXCEPT ![d] = WriteSize(ini[d], draft[p][k])]
                    /\ UNCHANGED file
               ELSE file' = [file EXCEPT ![k] = draft[p][k]] /\ UNCHANGED ini
            /\ IF step[p] < Len(SaveOrder)
               THEN step' = [step EXCEPT ![p] = @ + 1] /\ UNCHANGED <<run, next, draft, seen>>
               ELSE IF next[p] = "off" THEN Quits(p)
               ELSE Goes(p, next[p]) /\ UNCHANGED <<next, step, draft, seen>>
         \/ Goes(p, "dialog") /\ UNCHANGED <<file, ini, next, step, draft, seen>>
      /\ UNCHANGED <<scene, machine, acts>>

\* Cancel, the end of a launch, or a kill at any point.
Leaves(p) ==
  /\ run[p] # "off"
  /\ Quits(p)
  /\ UNCHANGED <<file, ini, scene, machine, acts>>

\* The user moves folders and images about.
Rearranges ==
  /\ Acts
  /\ scene' \in Scenes \ {scene}
  /\ UNCHANGED <<file, ini, machine, run, next, step, draft, seen>>

\* There may be an old manual entry at U:.
SettingsInit ==
  /\ \E path \in {NoPath, Fresh["c"]} : file = [Fresh EXCEPT ![Reserved] = path]
  /\ ini \in [Dirs -> Inis]
  /\ scene \in Scenes
  /\ machine = [eth |-> NoGuid, tap |-> NoGuid]
  /\ run = [p \in Procs |-> "off"]
  /\ next = [p \in Procs |-> "off"]
  /\ step = [p \in Procs |-> 1]
  /\ draft = [p \in Procs |-> Fresh]
  /\ acts = 0
  /\ seen = [p \in Procs |-> CHOOSE sc \in Scenes : TRUE]

Dialog(p) == SetsUpLan(p) \/ (\E e \in Entered : Confirms(p, e)) \/ SavesKey(p)

WinMain(p) ==
  \/ \E after \in {"off", "drives"} : Opens(p, after)
  \/ LoadsKey(p) \/ ChecksFolder(p) \/ ChecksDrives(p) \/ ChecksLan(p) \/ Leaves(p)

SettingsNext == (\E p \in Procs : WinMain(p) \/ Dialog(p)) \/ Rearranges

SettingsSpec == SettingsInit /\ [][SettingsNext]_settings

-----------------------------------------------------------------------------
(* Properties *)

\* However saves and loads of several processes interleave, and wherever they
\* are cut short: a launch goes on only with drives that were in order as it
\* found them, no object behind two of them, and nothing at U:.
NoObjectTwice ==
  \A p \in Procs :
    LET used == {s \in Slots : draft[p][s] # NoPath}
        named == [s \in used \cup {"c"} |-> seen[p][draft[p][s]]]
    IN  run[p] \in {"ready", "runs"} =>
          /\ Reserved \notin used
          /\ \A s, t \in used \cup {"c"} : named[s] = named[t] => s = t
          /\ \A s \in used : named[s] \in IF s \in Images THEN Raws ELSE Dirs

\* The pieces of f that are not of a res line.
OfRes(f, i) ==
  \E j \in 1..i : f[j].start /\ IsRes(f[j]) /\ \A k \in j + 1..i : ~f[k].start

Others(f) ==
  LET kept[i \in 0..Len(f)] ==
        IF i = 0 THEN <<>>
        ELSE IF OfRes(f, i) THEN kept[i - 1]
        ELSE Append(kept[i - 1], f[i])
  IN  kept[Len(f)]

\* A save keeps every line of SHINOGI.INI that is not the size's, however long,
\* and the size it saves is the one every later launch reads.
IniKept ==
  [][\A d \in Dirs : ini'[d] # ini[d] =>
       /\ Others(ini'[d]) = Others(ini[d])
       /\ \E p \in Procs : run[p] = "save" /\ ReadSize(ini'[d]) = draft[p]["size"]]_settings
=============================================================================
