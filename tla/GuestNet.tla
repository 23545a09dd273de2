------------------------------ MODULE GuestNet ------------------------------
(***************************************************************************)
(* prepare_guest() of tools/win/network.c: before each boot the Windows    *)
(* launcher brings the guest's network scripts on drive C in line with the *)
(* settings.  MINT.CNF holds the two lines of the Internet-only setup, or  *)
(* a hook that runs SHNNET.SH; SHNNET.BAK is the MINT.CNF of before the    *)
(* hook.  Any write may fail and the launcher may be killed between any    *)
(* two; the user, the guest and the installer change the same files        *)
(* between two preparations.                                               *)
(*                                                                         *)
(* A managed SHNNET.SH is the network it sets up.  A MINT.CNF is a text of *)
(* one of three sorts, by what network_boot_hook() makes of it.            *)
(***************************************************************************)
CONSTANTS
  NAT,          (* The Internet-only network.                              *)
  Lans,         (* LAN settings.                                           *)
  Legacy,       (* Texts with the two lines of NAT and no line of the hook. *)
  Hooked,       (* Texts with the line of the hook and not those two.      *)
  Custom,       (* Every other text: network_boot_hook() refuses it.       *)
  HookOf,       (* HookOf[t]: t with the hook for the two lines.           *)
  Mentioning,   (* Texts not in Hooked in which strstr() finds the hook.   *)
  Edited,       (* Scripts under our heading that are not as we write them. *)
  Foreign,      (* Scripts without our heading.                            *)
  NoFile,       (* There is no such file.                                  *)
  Odd,          (* A file that cannot be read, or is not whole.            *)
  Own, Broken   (* A network of the user's own, and no network.            *)

Nets == {NAT} \cup Lans
Texts == Legacy \cup Hooked \cup Custom

ASSUME TextsAssumption ==
  /\ HookOf \in [Legacy -> Hooked]
  /\ Mentioning \subseteq Legacy \cup Custom
  /\ Legacy \cap (Hooked \cup Custom) = {}
  /\ Hooked \cap Custom = {}
  /\ {NoFile, Odd} \cap Texts = {}

ASSUME ScriptsAssumption ==
  /\ Edited \cap Foreign = {}
  /\ (Edited \cup Foreign) \cap (Nets \cup {NoFile, Odd}) = {}
  /\ {NoFile, Odd} \cap Nets = {}
  /\ NoFile # Odd
  /\ {Own, Broken} \cap Nets = {}

VARIABLES
  config,       (* MINT.CNF.                                               *)
  backup,       (* SHNNET.BAK.                                             *)
  script,       (* SHNNET.SH.                                              *)
  users,        (* The MINT.CNF the user, or the installer, last wrote.    *)
  pc,           (* Where the launcher is.                                  *)
  want,         (* The network of the settings it has loaded.              *)
  old,          (* The MINT.CNF it has read.                               *)
  oldScript     (* The SHNNET.SH it has read, NoFile if none.              *)

disk == <<config, backup, script>>
vars == <<disk, users, pc, want, old, oldScript>>

Places == {"idle", "look", "script", "backup", "write", "config", "undo", "boot"}

Files == Texts \cup {NoFile, Odd}
Managed == Nets \cup Edited
Scripts == Managed \cup Foreign \cup {NoFile, Odd}

\* A mutant: the hook is put in whatever MINT.CNF holds already.
Changed_Always == TRUE

\* MINT.CNF needs the hook.
Changed == old \in Legacy

\* Types; and only a MINT.CNF with the two lines is ever backed up or replaced.
TypeOK ==
  /\ config \in Files /\ backup \in Files /\ users \in Files /\ old \in Files
  /\ script \in Scripts /\ oldScript \in Managed \cup {NoFile}
  /\ pc \in Places
  /\ want \in Nets
  /\ pc \in {"backup", "config", "undo"} => old \in Legacy

\* The network a guest that boots now will have.
Net ==
  CASE config \in Legacy -> NAT
    [] config \in Hooked /\ script \in Nets -> script
    [] config \in Hooked /\ script \in {NoFile, Odd} -> Broken
    [] OTHER -> Own

-----------------------------------------------------------------------------
(* prepare_guest() *)

Begin ==
  /\ pc = "idle"
  /\ pc' = "look"
  /\ want' \in Nets
  /\ UNCHANGED <<disk, users, old, oldScript>>

\* The exits before anything is written: settings or a LAN that are not valid,
\* paths too long, no memory, files that cannot be read or are not ours.
GiveUp ==
  /\ pc \in {"look", "script", "backup"}
  /\ pc' = "idle"
  /\ UNCHANGED <<disk, users, want, old, oldScript>>

\* Internet-only, and no hook in MINT.CNF, or no MINT.CNF: nothing to do.
\* Otherwise MINT.CNF must be one that the hook fits.
Look ==
  /\ pc = "look"
  /\ \/ /\ want = NAT /\ config \in (Legacy \cup Custom \cup {NoFile}) \ Mentioning
        /\ pc' = "boot"
        /\ UNCHANGED old
     \/ /\ want # NAT \/ config \in Hooked \cup Mentioning
        /\ config \in Legacy \cup Hooked
        /\ old' = config
        /\ pc' = "script"
  /\ UNCHANGED <<disk, users, want, oldScript>>

\* A mutant: a script without our heading is taken for ours.
ReadScript_AnyScript ==
  /\ pc = "script" /\ script # Odd
  /\ oldScript' = IF script \in Foreign THEN NoFile ELSE script
  /\ pc' = IF Changed THEN "backup" ELSE "write"
  /\ UNCHANGED <<disk, users, want, old>>

\* A script that is there must carry our heading.
ReadScript ==
  /\ pc = "script" /\ script \in Managed \cup {NoFile}
  /\ oldScript' = script
  /\ pc' = IF Changed THEN "backup" ELSE "write"
  /\ UNCHANGED <<disk, users, want, old>>

\* A mutant: a backup that exists is as good as any.
Backup_AnyExisting ==
  /\ pc = "backup"
  /\ backup' = IF backup = NoFile THEN config ELSE backup
  /\ pc' = "write"
  /\ UNCHANGED <<config, script, users, want, old, oldScript>>

\* CopyFileA(), which does not replace; a backup that is there must match.
Backup ==
  /\ pc = "backup"
  /\ \/ backup = NoFile /\ backup' = config
     \/ backup = old /\ UNCHANGED backup
  /\ pc' = "write"
  /\ UNCHANGED <<config, script, users, want, old, oldScript>>

Written == IF Changed THEN "config" ELSE "boot"

\* Mutants: a script of ours is left as it is; a script is written in place,
\* and what a failed write leaves is not whole.
WriteScript_OnlyMissing ==
  /\ pc = "write"
  /\ script' = IF oldScript = NoFile THEN want ELSE script
  /\ pc' = Written
  /\ UNCHANGED <<config, backup, users, want, old, oldScript>>
WriteScript_InPlace ==
  /\ pc = "write"
  /\ \/ script' = want /\ pc' = Written
     \/ script' = Odd /\ pc' = "idle"
  /\ UNCHANGED <<config, backup, users, want, old, oldScript>>

\* write_atomic() of SHNNET.SH, unless it is right already.  A failure leaves
\* it as it was, and MINT.CNF is not touched.
WriteScript ==
  /\ pc = "write"
  /\ \/ script' = (IF oldScript = want THEN script ELSE want) /\ pc' = Written
     \/ oldScript # want /\ UNCHANGED script /\ pc' = "idle"
  /\ UNCHANGED <<config, backup, users, want, old, oldScript>>

\* write_atomic() of MINT.CNF.
WriteConfig ==
  /\ pc = "config"
  /\ \/ config' = HookOf[old] /\ pc' = "boot"
     \/ UNCHANGED config /\ pc' = "undo"
  /\ UNCHANGED <<backup, script, users, want, old, oldScript>>

\* The old script comes back, or what was none goes, and either may fail.
Undo ==
  /\ pc = "undo"
  /\ script' \in {script, oldScript}
  /\ pc' = "idle"
  /\ UNCHANGED <<config, backup, users, want, old, oldScript>>

-----------------------------------------------------------------------------
(* The rest of the machine *)

\* The guest, whose launcher waits for it, ends.
GuestEnds ==
  /\ pc = "boot"
  /\ pc' = "idle"
  /\ UNCHANGED <<disk, users, want, old, oldScript>>

\* The launcher is killed.  write_atomic() replaces a file in one step, as far
\* as other processes see; it does not flush the new text first, so a machine
\* that goes down is not meant.  CopyFileA() may leave part of a file.
Crash ==
  /\ pc # "idle"
  /\ pc' = "idle"
  /\ backup' \in {backup} \cup IF pc = "backup" /\ backup = NoFile THEN {Odd} ELSE {}
  /\ UNCHANGED <<config, script, users, want, old, oldScript>>

\* The user, a guest that runs, or the installer.  Nobody edits in the instant
\* of a preparation.  Who changes the backup has seen MINT.CNF as it is.
UserEdits ==
  /\ pc \in {"idle", "boot"}
  /\ \/ /\ config' \in Files
        /\ users' = config'
        /\ UNCHANGED <<backup, script>>
     \/ /\ script' \in Scripts
        /\ UNCHANGED <<config, backup, users>>
     \/ /\ backup' \in Files
        /\ users' = config
        /\ UNCHANGED <<config, script>>
  /\ UNCHANGED <<pc, want, old, oldScript>>

-----------------------------------------------------------------------------
\* A drive C as an Internet-only install left it, or without MiNT.
Init ==
  /\ config \in Legacy \cup {NoFile}
  /\ backup = NoFile
  /\ script = NoFile
  /\ users = config
  /\ pc = "idle"
  /\ want = NAT
  /\ old = NoFile
  /\ oldScript = NoFile

Prepare ==
  Begin \/ GiveUp \/ Look \/ ReadScript \/ Backup \/ WriteScript \/ WriteConfig \/ Undo

Next == Prepare \/ GuestEnds \/ Crash \/ UserEdits

Spec == Init /\ [][Next]_vars

-----------------------------------------------------------------------------
(* Properties *)

\* The user's MINT.CNF is never lost: it is there, or the hook is in it and the
\* backup is what it was, whatever failed, whenever the launcher was killed and
\* whichever backup was left by an earlier time.
UserTextKept ==
  \/ config = users
  \/ users \in Legacy /\ config = HookOf[users] /\ backup = users

\* A guest is started only on the network of the settings, or, with the
\* Internet-only ones, on what a MINT.CNF of the user's own sets up.
BootAsSelected ==
  [][pc' = "boot" /\ pc # "boot" =>
       Net' = want \/ (want = NAT /\ config' \notin Legacy \cup Hooked)]_vars

\* Whatever fails and whenever the launcher goes, a guest booted afterwards has
\* the network of before or the one of the settings: never a hook without its
\* script, or half a script.
NetAtomic == [][UserEdits \/ Net' = Net \/ Net' = want]_vars

\* A script, a backup and a MINT.CNF that are not the launcher's own stay as
\* they are: "It has not been changed".
OthersUntouched ==
  [][UserEdits \/ /\ script \notin Managed \cup {NoFile} => script' = script
                  /\ backup # NoFile => backup' = backup
                  /\ config \notin Legacy => config' = config]_vars
=============================================================================
