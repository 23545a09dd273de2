----------------------------- MODULE TapInstall -----------------------------
(***************************************************************************)
(* The set-up of the virtual network adapter on Windows: Install-AtariTap  *)
(* (tools/win/tap-adapter.ps1), under a mutex of the machine, and          *)
(* install-tap.exe, which it starts, gives 90 seconds and reads one line   *)
(* from.  The only record of which device is a product's own is what the   *)
(* script writes to the registry after the program has ended.              *)
(*                                                                         *)
(* The adapter behind a device, its GUID and its name are left out: the    *)
(* record changes in them only.                                            *)
(***************************************************************************)
EXTENDS Naturals

CONSTANTS
  Ids,          (* Device instance ids; each a GUID of its own.            *)
  Products,     (* "Shinogi" and "ARAnyM".                                 *)
  NoId,
  MaxBoots      (* Bound: how often Windows is restarted.                  *)

ASSUME IdsAssumption == NoId \notin Ids /\ MaxBoots \in Nat \ {0}

VARIABLES
  nodes,        (* The products' devices Windows has.                      *)
  going,        (* Those of them a restart removes.                        *)
  boot,         (* Get-AtariBootId: which start of Windows this is.        *)
  saved,        (* saved[p]: the record of product p; its id may be NoId.  *)
  setup,        (* "idle", "ensure" or "install", whoever has the mutex.   *)
  product,      (* The product it is for.                                  *)
  program,      (* Where install-tap.exe is; see Steps.                    *)
  own,          (* result.instance.                                        *)
  restart,      (* result.reboot_required.                                 *)
  line,         (* The id and the restart of its last line, and its code.  *)
  lost          (* History: identities no setup knows any more.    *)

installing == <<program, own, restart, line>>
tap == <<nodes, going, boot, saved, setup, product, installing, lost>>

Steps == {"none", "start", "stage", "register", "install", "verify", "undo", "ended"}

\* "cut": 258, a program that was killed or has not printed its result.
Codes == {"ok", "failed", "cut"}

None == [id |-> NoId, restart |-> 0, recovery |-> FALSE]
NoLine == [id |-> NoId, restart |-> FALSE, code |-> "cut"]

TapTypeOK ==
  /\ going \subseteq nodes /\ nodes \subseteq Ids /\ lost \subseteq Ids
  /\ boot \in 1..MaxBoots
  /\ saved \in [Products -> [id : Ids \cup {NoId}, restart : 0..MaxBoots, recovery : BOOLEAN]]
  /\ setup \in {"idle", "ensure", "install"}
  /\ product \in Products
  /\ program \in Steps
  /\ own \in Ids \cup {NoId}
  /\ restart \in BOOLEAN
  /\ line \in [id : Ids \cup {NoId}, restart : BOOLEAN, code : Codes]

-----------------------------------------------------------------------------
(* The script *)

Enters(p) ==
  /\ setup = "idle"
  /\ setup' = "ensure" /\ product' = p
  /\ UNCHANGED <<nodes, going, boot, saved, installing, lost>>

\* Ensure-AtariTap with a record: it returns or throws, and changes nothing,
\* while a restart is due or the device is there; and for a device that was
\* set up well, whether it is still there or not.
Settled ==
  /\ setup = "ensure" /\ saved[product] # None
  /\ \/ ~saved[product].recovery
     \/ saved[product].restart = boot
     \/ saved[product].id \in nodes
  /\ setup' = "idle"
  /\ UNCHANGED <<nodes, going, boot, saved, product, installing, lost>>

\* Clear-AtariTapRecovery, and Ensure-AtariTap over again.
Recovered ==
  /\ setup = "ensure" /\ saved[product].recovery
  /\ saved[product].restart # boot
  /\ saved[product].id \notin nodes
  /\ saved' = [saved EXCEPT ![product] = None]
  /\ UNCHANGED <<nodes, going, boot, setup, product, installing, lost>>

\* The boot id, the driver in use, the package: any of them may throw.
Refuses ==
  /\ setup = "ensure"
  /\ setup' = "idle"
  /\ UNCHANGED <<nodes, going, boot, saved, product, installing, lost>>

Starts ==
  /\ setup = "ensure" /\ saved[product] = None
  /\ setup' = "install"
  /\ program' = "start"
  /\ own' = NoId
  /\ restart' = FALSE
  /\ line' = NoLine
  /\ UNCHANGED <<nodes, going, boot, saved, product, lost>>

\* 90 seconds are over: it is killed, wherever it is.
TimesOut ==
  /\ setup = "install" /\ program # "ended"
  /\ program' = "ended"
  /\ UNCHANGED <<nodes, going, boot, saved, setup, product, own, restart, line, lost>>

\* Save-AtariTapState with the id of the last line, if there is one; what
\* follows a success saves it once more, with the GUID.
Records ==
  /\ setup = "install" /\ program = "ended"
  /\ setup' = "idle"
  /\ saved' = IF line.id = NoId THEN saved
              ELSE [saved EXCEPT ![product] =
                      [id |-> line.id, restart |-> IF line.restart THEN boot ELSE 0,
                       recovery |-> line.code # "ok"]]
  /\ UNCHANGED <<nodes, going, boot, product, installing, lost>>

-----------------------------------------------------------------------------
(* install-tap.exe *)

Running(step) == setup = "install" /\ program = step

\* print_result() at the end of wmain(), and its exit.
Ends(id, needsRestart, code) ==
  /\ program' = "ended"
  /\ line' = [id |-> id, restart |-> needsRestart, code |-> code]

\* A new identity, which is printed before anything is changed.
Publish ==
  /\ Running("start")
  /\ \E i \in Ids \ (nodes \cup lost \cup {saved[p].id : p \in Products}) :
       own' = i /\ line' = [id |-> i, restart |-> FALSE, code |-> "cut"]
  /\ program' = "stage"
  /\ UNCHANGED <<nodes, going, boot, saved, setup, product, restart, lost>>

\* Up to the selection of the driver nothing of the machine's changes but its
\* store of drivers.
Stage ==
  /\ Running("stage")
  /\ program' = "register"
  /\ UNCHANGED <<nodes, going, boot, saved, setup, product, own, restart, line, lost>>

\* No administrator, not the driver's INF, no identity, no driver: nothing to
\* undo, and no identity in the result.
FailsEarly ==
  /\ Running("start") \/ Running("stage")
  /\ own' = NoId
  /\ Ends(NoId, FALSE, "failed")
  /\ UNCHANGED <<nodes, going, boot, saved, setup, product, restart, lost>>

\* DIF_REGISTERDEVICE, which may have registered the device when it fails.
Register ==
  /\ Running("register")
  /\ \/ program' = "install" /\ nodes' = nodes \cup {own}
     \/ program' = "undo" /\ nodes' \in {nodes, nodes \cup {own}}
  /\ UNCHANGED <<going, boot, saved, setup, product, own, restart, line, lost>>

\* DiInstallDevice, and the restart flags after it.
InstallDriver ==
  /\ Running("install")
  /\ restart' \in BOOLEAN
  /\ program' \in {"verify", "undo"}
  /\ UNCHANGED <<nodes, going, boot, saved, setup, product, own, line, lost>>

\* The adapter's GUID, looked for until it is there, unless a restart is due.
Verify ==
  /\ Running("verify")
  /\ \/ Ends(own, restart, "ok")
     \/ ~restart /\ program' = "undo" /\ UNCHANGED line
  /\ UNCHANGED <<nodes, going, boot, saved, setup, product, own, restart, lost>>

\* A mutant: a removal that waits for a restart is taken for one that is done.
RollBack_Restart ==
  /\ Running("undo")
  /\ UNCHANGED <<boot, saved, setup, product, own, restart, lost>>
  /\ \/ nodes' = nodes \ {own} /\ going' = going \ {own} /\ Ends(NoId, restart, "failed")
     \/ own \in nodes /\ going' = going \cup {own} /\ UNCHANGED nodes /\ Ends(NoId, TRUE, "failed")
     \/ UNCHANGED <<nodes, going>> /\ Ends(own, restart, "failed")

\* DIF_REMOVE: the device is gone; or its restart flags cannot be read, or say
\* that it goes with a restart; or it stays.
RollBack ==
  /\ Running("undo")
  /\ UNCHANGED <<boot, saved, setup, product, own, restart, lost>>
  /\ \/ /\ nodes' = nodes \ {own} /\ going' = going \ {own}
        /\ \E id \in {own, NoId} : Ends(id, restart, "failed")
     \/ /\ own \in nodes /\ going' = going \cup {own} /\ UNCHANGED nodes
        /\ \E r \in {restart, TRUE} : Ends(own, r, "failed")
     \/ UNCHANGED <<nodes, going>> /\ Ends(own, restart, "failed")

-----------------------------------------------------------------------------
(* What happens to them *)

\* What only this setup knows of: the identity its program has printed.
Pending == IF setup = "install" THEN {own} \ {NoId} ELSE {}

\* The script is stopped: its program goes on without it.
Interrupted ==
  /\ setup # "idle"
  /\ setup' = "idle"
  /\ lost' = lost \cup Pending
  /\ UNCHANGED <<nodes, going, boot, saved, product, installing>>

\* The program ends between the 90 seconds and Kill(), which then throws.
KillFails ==
  /\ setup = "install" /\ program = "ended"
  /\ setup' = "idle"
  /\ lost' = lost \cup Pending
  /\ UNCHANGED <<nodes, going, boot, saved, product, installing>>

\* The script is stopped with the first values of the record written, the id
\* among them.
RecordsHalf ==
  /\ setup = "install" /\ program = "ended" /\ line.id # NoId
  /\ setup' = "idle"
  /\ saved' = [saved EXCEPT ![product] = [id |-> line.id, restart |-> 0, recovery |-> FALSE]]
  /\ UNCHANGED <<nodes, going, boot, product, installing, lost>>

\* A program nobody waits for registers its device, or removes it.
GoesOn(i) ==
  /\ i \in lost
  /\ \/ nodes' = nodes \cup {i} /\ UNCHANGED going
     \/ nodes' = nodes \ {i} /\ going' = going \ {i}
  /\ UNCHANGED <<boot, saved, setup, product, installing, lost>>

Restarts ==
  /\ boot < MaxBoots
  /\ boot' = boot + 1
  /\ nodes' = nodes \ going
  /\ going' = {}
  /\ setup' = "idle"
  /\ lost' = lost \cup Pending
  /\ UNCHANGED <<saved, product, installing>>

\* The user removes a device in Device Manager.
Uninstalls(i) ==
  /\ i \in nodes
  /\ \/ nodes' = nodes \ {i} /\ going' = going \ {i}
     \/ going' = going \cup {i} /\ UNCHANGED nodes
  /\ UNCHANGED <<boot, saved, setup, product, installing, lost>>

TapInit ==
  /\ nodes = {} /\ going = {} /\ lost = {}
  /\ boot = 1
  /\ saved = [p \in Products |-> None]
  /\ setup = "idle"
  /\ product \in Products
  /\ program = "none" /\ own = NoId /\ restart = FALSE /\ line = NoLine

Script ==
  \/ \E p \in Products : Enters(p)
  \/ Settled \/ Recovered \/ Refuses \/ Starts \/ TimesOut \/ KillFails \/ Records

Program == Publish \/ Stage \/ FailsEarly \/ Register \/ InstallDriver \/ Verify \/ RollBack

Outside ==
  \/ Interrupted \/ RecordsHalf \/ Restarts
  \/ \E i \in Ids : GoesOn(i) \/ Uninstalls(i)

TapNext == Script \/ Program \/ Outside

TapSpec == TapInit /\ [][TapNext]_tap

-----------------------------------------------------------------------------
(* Properties *)

\* "no second device was created", and none is forgotten: every device of a
\* product's is the one its record names or the one the running setup is
\* about to record, through failures of every step, removals that wait for a
\* restart and a program that is killed.  The exception is what a setup takes
\* with it that is interrupted, or whose Kill() comes too late.
EveryDeviceOwned ==
  nodes \ lost \subseteq {saved[p].id : p \in Products} \cup Pending
=============================================================================
