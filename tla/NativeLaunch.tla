---------------------------- MODULE NativeLaunch ----------------------------
(***************************************************************************)
(* The native launcher (tools/shinogi-launcher.c) with the helper it forks *)
(* and the emulator it becomes: fork shinogi-hostfsd --once, wait for its  *)
(* ready file, exec QEMU, which is the helper's client.                    *)
(*                                                                         *)
(* Nobody is left to look after the helper once the launcher has become    *)
(* QEMU: what ends it is the end of its one session.                       *)
(***************************************************************************)
EXTENDS HostfsLink

CONSTANT MaxPolls  (* How often the launcher looks for the ready file (200). *)

ASSUME LaunchAssumption == Once /\ MaxPolls \in Nat

VARIABLES
  launcher,     (* Where the process of the launcher is; see Stages.       *)
  polls,        (* waited.                                                 *)
  ready         (* The ready file exists.                                  *)

launch == <<launcher, polls, ready>>
allvars == <<vars, launch>>

\* "qemu": the launcher has become QEMU; "joined": that has connected to the
\* helper; "closed": it has exited.  "failed": main() returned before there
\* was a QEMU.
Stages == {"start", "waiting", "exec", "qemu", "joined", "closed", "failed"}

LaunchTypeOK ==
  /\ TypeOK
  /\ launcher \in Stages
  /\ polls \in 0..MaxPolls
  /\ ready \in BOOLEAN

-----------------------------------------------------------------------------
\* kill() of the helper, and with it of a connection it may have.
KillHelper ==
  /\ state' = "gone"
  /\ client' = "none"
  /\ Reset
  /\ UNCHANGED clients

\* Mutants: the ready file of an earlier process with the same pid is left, or
\* the helper that is too slow is.
Prepare_StaleReady ==
  /\ launcher = "start"
  /\ launcher' = "waiting"
  /\ UNCHANGED <<vars, polls, ready>>

\* unlink() and fork(), which may fail.
Prepare ==
  /\ launcher = "start"
  /\ ready' = FALSE
  /\ \/ launcher' = "waiting" /\ UNCHANGED vars
     \/ launcher' = "failed" /\ KillHelper
  /\ UNCHANGED polls

\* stat() of the ready file, then waitpid() without blocking.
SeesReady ==
  /\ launcher = "waiting" /\ ready
  /\ launcher' = "exec"
  /\ UNCHANGED <<vars, polls, ready>>

SeesHelperDead ==
  /\ launcher = "waiting" /\ ~ready /\ state = "gone"
  /\ launcher' = "failed"
  /\ UNCHANGED <<vars, polls, ready>>

PollsAgain ==
  /\ launcher = "waiting" /\ ~ready /\ state # "gone"
  /\ polls < MaxPolls
  /\ polls' = polls + 1
  /\ UNCHANGED <<vars, launcher, ready>>

GivesUp_NoKill ==
  /\ launcher = "waiting" /\ ~ready /\ state # "gone"
  /\ polls = MaxPolls
  /\ launcher' = "failed"
  /\ UNCHANGED <<vars, polls, ready>>

GivesUp ==
  /\ launcher = "waiting" /\ ~ready /\ state # "gone"
  /\ polls = MaxPolls
  /\ launcher' = "failed"
  /\ KillHelper
  /\ UNCHANGED <<polls, ready>>

\* execlp(): the launcher is QEMU now, or goes on to clean up.
Exec ==
  /\ launcher = "exec"
  /\ \/ launcher' = "qemu" /\ UNCHANGED <<vars, ready>>
     \/ launcher' = "failed" /\ KillHelper /\ ready' = FALSE
  /\ UNCHANGED polls

-----------------------------------------------------------------------------
(* QEMU, and the guest's driver behind it *)

\* Its one connection, by the chardev's option, and the driver's requests.
QemuRuns ==
  /\ \/ launcher = "qemu" /\ ClientConnects /\ launcher' = "joined"
     \/ launcher = "joined" /\ ClientSends /\ UNCHANGED launcher
  /\ UNCHANGED <<polls, ready>>

\* QEMU exits: a bad option, a display that does not open, the window closed,
\* the guest halted; connected or not.
QemuExits ==
  /\ launcher \in {"qemu", "joined"}
  /\ launcher' = "closed"
  /\ IF client = "open" THEN ClientCloses ELSE UNCHANGED vars
  /\ UNCHANGED <<polls, ready>>

\* Another program connects to the socket and goes, having sent nothing.  It
\* leaves one place of MaxClients to QEMU.
Probe ==
  /\ client = "none" /\ state \notin {"starting", "gone"}
  /\ clients + 1 < MaxClients
  /\ client' = "closed"
  /\ clients' = clients + 1
  /\ UNCHANGED <<state, conn, launch>>

-----------------------------------------------------------------------------
\* signal_ready() follows listener_open() at once; its fopen() may fail, and
\* nobody is told.
HelperRuns ==
  /\ launcher \in {"waiting", "exec", "qemu", "joined", "closed"}
  /\ Helper
  /\ ready' \in {ready, ready \/ (state = "starting" /\ state' = "accepting")}
  /\ UNCHANGED <<launcher, polls>>

\* A ready file may have been left by an earlier process of the same pid.
LaunchInit ==
  /\ Init
  /\ launcher = "start"
  /\ polls = 0
  /\ ready \in BOOLEAN

Launch == Prepare \/ SeesReady \/ SeesHelperDead \/ PollsAgain \/ GivesUp \/ Exec

LaunchNext == Launch \/ QemuRuns \/ QemuExits \/ Probe \/ HelperRuns

LaunchSpec == LaunchInit /\ [][LaunchNext]_allvars

\* The processes run; QEMU ends or not as it likes.
FairLaunchSpec == LaunchSpec /\ WF_allvars(Launch) /\ WF_allvars(HelperRuns)

-----------------------------------------------------------------------------
(* Properties *)

\* QEMU never runs before the helper has got as far as listening: a stale
\* ready file, a slow helper or one that dies do not start it early.
QemuComesSecond == launcher \in {"qemu", "joined", "closed"} => state # "starting" /\ ready

\* A launch that failed, at whatever point, leaves no helper behind.
FailedLaunchLeavesNothing == launcher = "failed" => state = "gone"

\* --once "must not be spent on a connection that carried nothing": a helper
\* that listens ends, unless the launcher kills it, only after a session that
\* brought a header.
OnceIsSpentOnASession ==
  [][state' = "gone" /\ state \notin {"starting", "gone"} /\ launcher' # "failed" => served > 0]_allvars

\* A helper that had a session ends with the emulator, in the middle of
\* whatever it was doing.
SpentHelperEnds == launcher = "closed" /\ served > 0 ~> state = "gone"

\* A claim of the launcher's comment that does not hold as it stands: the
\* helper goes when QEMU does.  "It ends itself when the emulator disconnects, so nothing has to survive
\* QEMU in order to reap it."
HelperEndsWithEmulator == launcher = "closed" ~> state = "gone"
=============================================================================
