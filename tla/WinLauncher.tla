---------------------------- MODULE WinLauncher -----------------------------
(***************************************************************************)
(* The Windows launcher, tools/win/shinogi-launcher.c, from the point where *)
(* the settings are in order: a helper for each folder drive, one after the *)
(* other, each waited for by its ready file; QEMU with a socket for each;  *)
(* and the end of it all.  stop_edition(), which the installer runs, ends  *)
(* every process of the edition that it finds.                             *)
(*                                                                         *)
(* The ready files are in the log folder of the edition: every launch of   *)
(* the edition uses the same ones.  Nothing stops a second launch.  A      *)
(* launcher and a QEMU may be killed at any moment; a helper that listens  *)
(* goes by stop_helper(), by the installer or after its session, and is    *)
(* taken not to be killed, as nobody would start another.                  *)
(***************************************************************************)
EXTENDS Integers, FiniteSetsExt

CONSTANTS
  Launches,     (* Runs of shinogi.exe of one edition, numbered as begun.  *)
  Drives,       (* Letters of folder drives, as d of WinMain().            *)
  Folders,      (* Folders[l]: those with a folder in the settings l reads. *)
  C,            (* Of which this is drive C, always served.                *)
  MaxAtStop,    (* Bound: launches begun when stop_edition() looks.        *)
  Nobody

ASSUME LauncherAssumption ==
  /\ Launches \subseteq Nat /\ MaxAtStop \in Nat
  /\ Drives \subseteq Nat /\ IsFiniteSet(Drives)
  /\ Folders \in [Launches -> {W \in SUBSET Drives : C \in W}]
  /\ C \in Drives /\ \A d \in Drives : C <= d
  /\ Nobody \notin Launches

Helpers == Launches \X Drives

VARIABLES
  pc,           (* Where a launch is.                                      *)
  at,           (* d, the drive it is at.                                  *)
  port,         (* Whose helper it was told the port of, for each drive.   *)
  helper,       (* What a helper does.                                     *)
  client,       (* The launch whose QEMU a helper serves.                  *)
  ready,        (* hostfs-d.ready: whose helper wrote it.                  *)
  qemu,         (* The QEMU of a launch.                                   *)
  stop,         (* stop_edition().                                         *)
  snapshot,     (* The processes it found.                                 *)
  todo,         (* Those it has not come to.                               *)
  ok,           (* None of them refused to end.                            *)
  heard,        (* For properties: who waited when a ready file was written. *)
  rivals        (* For properties: launches that met another of the edition. *)

launchVars == <<pc, at, port>>
helperVars == <<helper, client, ready>>
stopVars == <<stop, snapshot, todo, ok>>
vars == <<launchVars, helperVars, qemu, stopVars, heard, rivals>>

Places == {"off", "clear", "spawn", "wait", "boot", "running", "stop", "ended", "killed"}
Processes == ({"launcher", "qemu"} \X Launches) \cup ({"helper"} \X Launches \X Drives)

TypeOK ==
  /\ pc \in [Launches -> Places]
  /\ at \in [Launches -> Drives]
  /\ port \in [Launches -> [Drives -> Launches \cup {Nobody}]]
  /\ helper \in [Helpers -> {"none", "starting", "listening"}]
  /\ client \in [Helpers -> Launches \cup {Nobody}]
  /\ ready \in [Drives -> Launches \cup {Nobody}]
  /\ qemu \in [Launches -> {"none", "started", "joined", "gone"}]
  /\ stop \in {"idle", "stopping", "stopped", "refused"}
  /\ snapshot \subseteq Processes /\ todo \subseteq snapshot
  /\ ok \in BOOLEAN
  /\ heard \in [Drives -> SUBSET Launches]
  /\ rivals \subseteq Launches
  /\ \A h \in Helpers : client[h] # Nobody => helper[h] = "listening"

-----------------------------------------------------------------------------
Active(l) == pc[l] \notin {"off", "ended", "killed"}
Runs(h) == helper[h] \in {"starting", "listening"}
Open(l) == qemu[l] \in {"started", "joined"}

Live == ({"launcher"} \X {l \in Launches : Active(l)})
   \cup ({"qemu"} \X {l \in Launches : Open(l)})
   \cup {<<"helper", h[1], h[2]>> : h \in {g \in Helpers : Runs(g)}}

Later(l) == {d \in Folders[l] : d > at[l]}

\* A mutant: the loop leaves the last drive out.
NextDrive_OneShort(l) ==
  IF Cardinality(Later(l)) > 1
  THEN at' = [at EXCEPT ![l] = Min(Later(l))] /\ pc' = [pc EXCEPT ![l] = "clear"]
  ELSE pc' = [pc EXCEPT ![l] = "boot"] /\ UNCHANGED at

\* The loop over the drives goes on, or is done.
NextDrive(l) ==
  IF Later(l) # {}
  THEN at' = [at EXCEPT ![l] = Min(Later(l))] /\ pc' = [pc EXCEPT ![l] = "clear"]
  ELSE pc' = [pc EXCEPT ![l] = "boot"] /\ UNCHANGED at

\* TerminateProcess() of a helper; whatever it served is cut off.
End(h) ==
  /\ helper' = [helper EXCEPT ![h] = "none"]
  /\ client' = [client EXCEPT ![h] = Nobody]

\* The loop over helpers[] at the end of WinMain(), and at drive_failure.
ToStop(l) ==
  /\ pc' = [pc EXCEPT ![l] = "stop"]
  /\ at' = [at EXCEPT ![l] = C]

-----------------------------------------------------------------------------
(* WinMain() and start_helper() *)

Rival(k) == Active(k) \/ \E d \in Drives : helper[<<k, d>>] = "starting"

\* WinMain() with settings that are valid.
Start(l) ==
  /\ pc[l] = "off" /\ \A k \in Launches : k < l => pc[k] # "off"
  /\ pc' = [pc EXCEPT ![l] = "clear"]
  /\ LET others == {k \in Launches : Rival(k)}
     IN  rivals' = rivals \cup others \cup IF others = {} THEN {} ELSE {l}
  /\ UNCHANGED <<at, port, helperVars, qemu, stopVars, heard>>

\* A mutant: a leftover ready file stays.
ClearReady_Leftover(l) ==
  /\ pc[l] = "clear"
  /\ pc' = [pc EXCEPT ![l] = "spawn"]
  /\ UNCHANGED <<at, port, helperVars, qemu, stopVars, heard, rivals>>

\* DeleteFileA() of a leftover ready file.
ClearReady(l) ==
  /\ pc[l] = "clear"
  /\ pc' = [pc EXCEPT ![l] = "spawn"]
  /\ ready' = [ready EXCEPT ![at[l]] = Nobody]
  /\ heard' = [heard EXCEPT ![at[l]] = {}]
  /\ UNCHANGED <<at, port, helper, client, qemu, stopVars, rivals>>

\* CreateProcessA() of the helper, which may fail.
Spawn(l) ==
  /\ pc[l] = "spawn"
  /\ \/ /\ helper' = [helper EXCEPT ![<<l, at[l]>>] = "starting"]
        /\ pc' = [pc EXCEPT ![l] = "wait"]
        /\ UNCHANGED at
     \/ ToStop(l) /\ UNCHANGED helper
  /\ UNCHANGED <<port, client, ready, qemu, stopVars, heard, rivals>>

\* The ready file has a port.
SeesPort(l) ==
  /\ pc[l] = "wait" /\ ready[at[l]] # Nobody
  /\ port' = [port EXCEPT ![l][at[l]] = ready[at[l]]]
  /\ NextDrive(l)
  /\ UNCHANGED <<helperVars, qemu, stopVars, heard, rivals>>

\* There is none, and the helper has exited.
SeesHelperDead(l) ==
  /\ pc[l] = "wait" /\ ready[at[l]] = Nobody /\ ~Runs(<<l, at[l]>>)
  /\ ToStop(l)
  /\ UNCHANGED <<port, helperVars, qemu, stopVars, heard, rivals>>

\* Mutants: a helper that is too slow is left, or waited for without end.
GivesUp_LeavesHelper(l) ==
  /\ pc[l] = "wait" /\ ready[at[l]] = Nobody /\ Runs(<<l, at[l]>>)
  /\ ToStop(l)
  /\ UNCHANGED <<port, helperVars, qemu, stopVars, heard, rivals>>
GivesUp_Never(l) == FALSE /\ UNCHANGED vars

\* There is none within READY_TIMEOUT_MS.
GivesUp(l) ==
  /\ pc[l] = "wait" /\ ready[at[l]] = Nobody /\ Runs(<<l, at[l]>>)
  /\ End(<<l, at[l]>>)
  /\ ToStop(l)
  /\ UNCHANGED <<port, ready, qemu, stopVars, heard, rivals>>

\* run_qemu(), unless the options are too long or QEMU cannot be started.
RunQemu(l) ==
  /\ pc[l] = "boot"
  /\ \/ /\ qemu' = [qemu EXCEPT ![l] = "started"]
        /\ pc' = [pc EXCEPT ![l] = "running"]
        /\ UNCHANGED at
     \/ ToStop(l) /\ UNCHANGED qemu
  /\ UNCHANGED <<port, helperVars, stopVars, heard, rivals>>

\* window_controls_wait() returns.
SeesQemuEnd(l) ==
  /\ pc[l] = "running" /\ qemu[l] = "gone"
  /\ ToStop(l)
  /\ UNCHANGED <<port, helperVars, qemu, stopVars, heard, rivals>>

\* stop_helper() for drive at[l], if there is a helper, and the next.
StopHelper(l) ==
  /\ pc[l] = "stop"
  /\ IF port[l][at[l]] = Nobody
     THEN UNCHANGED <<helperVars, heard>>
     ELSE /\ IF Runs(<<l, at[l]>>) THEN End(<<l, at[l]>>) ELSE UNCHANGED <<helper, client>>
          /\ ready' = [ready EXCEPT ![at[l]] = Nobody]
          /\ heard' = [heard EXCEPT ![at[l]] = {}]
  /\ IF Later(l) = {}
     THEN pc' = [pc EXCEPT ![l] = "ended"] /\ UNCHANGED at
     ELSE at' = [at EXCEPT ![l] = Min(Later(l))] /\ UNCHANGED pc
  /\ UNCHANGED <<port, qemu, stopVars, rivals>>

-----------------------------------------------------------------------------
(* shinogi-hostfsd --once and QEMU *)

\* It listens, and writes its port to the ready file, if it can.
Announce(k, d) ==
  /\ helper[<<k, d>>] = "starting"
  /\ helper' = [helper EXCEPT ![<<k, d>>] = "listening"]
  /\ \/ /\ ready' = [ready EXCEPT ![d] = k]
        /\ heard' = [heard EXCEPT ![d] = {l \in Launches : pc[l] \in {"spawn", "wait"} /\ at[l] = d}]
     \/ UNCHANGED <<ready, heard>>
  /\ UNCHANGED <<launchVars, client, qemu, stopVars, rivals>>

\* The folder cannot be served, or there is no socket.
HelperFails(h) ==
  /\ helper[h] = "starting"
  /\ End(h)
  /\ UNCHANGED <<launchVars, ready, qemu, stopVars, heard, rivals>>

\* It exits after a session, and accepts again after one that carried nothing.
SessionOver(k, d) ==
  /\ client[<<k, d>>] # Nobody /\ qemu[client[<<k, d>>]] = "gone"
  /\ \/ End(<<k, d>>)
     \/ LET queue == {l \in Launches : qemu[l] = "joined" /\ port[l][d] = k}
        IN  /\ \E l \in (IF queue = {} THEN {Nobody} ELSE queue) :
                 client' = [client EXCEPT ![<<k, d>>] = l]
            /\ UNCHANGED helper
  /\ UNCHANGED <<launchVars, ready, qemu, stopVars, heard, rivals>>

\* QEMU connects every chardev or exits.  A helper that is busy lets it queue.
QemuJoins(l) ==
  /\ qemu[l] = "started"
  /\ LET mine == {<<port[l][d], d>> : d \in {e \in Drives : port[l][e] # Nobody}}
     IN  IF \A h \in mine : helper[h] = "listening"
         THEN /\ qemu' = [qemu EXCEPT ![l] = "joined"]
              /\ client' = [h \in Helpers |-> IF h \in mine /\ client[h] = Nobody
                                              THEN l ELSE client[h]]
         ELSE qemu' = [qemu EXCEPT ![l] = "gone"] /\ UNCHANGED client
  /\ UNCHANGED <<launchVars, helper, ready, stopVars, heard, rivals>>

\* The window is closed, the guest halts.
QemuEnds(l) ==
  /\ Open(l)
  /\ qemu' = [qemu EXCEPT ![l] = "gone"]
  /\ UNCHANGED <<launchVars, helperVars, stopVars, heard, rivals>>

\* The user, or the end of the Windows session, kills a launcher.
Kill(l) ==
  /\ Active(l)
  /\ pc' = [pc EXCEPT ![l] = "killed"]
  /\ UNCHANGED <<at, port, helperVars, qemu, stopVars, heard, rivals>>

-----------------------------------------------------------------------------
(* stop_edition() *)

\* CreateToolhelp32Snapshot().
Snapshot ==
  /\ stop = "idle"
  /\ Cardinality({l \in Launches : pc[l] # "off"}) <= MaxAtStop
  /\ stop' = "stopping"
  /\ snapshot' = Live /\ todo' = Live
  /\ UNCHANGED <<launchVars, helperVars, qemu, ok, heard, rivals>>

\* TerminateProcess() of what still runs, and a wait for its end.
Terminate(p) ==
  \/ /\ p[1] = "launcher"
     /\ pc' = [pc EXCEPT ![p[2]] = "killed"]
     /\ UNCHANGED <<helper, client, qemu>>
  \/ /\ p[1] = "qemu"
     /\ qemu' = [qemu EXCEPT ![p[2]] = "gone"]
     /\ UNCHANGED <<pc, helper, client>>
  \/ /\ p[1] = "helper"
     /\ End(<<p[2], p[3]>>)
     /\ UNCHANGED <<pc, qemu>>

\* A mutant: a process that does not end is not told of.
StopOne_Silent(p) ==
  /\ stop = "stopping" /\ p \in todo
  /\ todo' = todo \ {p}
  /\ \/ p \in Live /\ Terminate(p)
     \/ UNCHANGED <<pc, helper, client, qemu>>
  /\ UNCHANGED <<at, port, ready, stop, snapshot, ok, heard, rivals>>

\* The next process.  It ends, or does not, or is no more.
StopOne(p) ==
  /\ stop = "stopping" /\ p \in todo
  /\ todo' = todo \ {p}
  /\ \/ p \in Live /\ Terminate(p) /\ UNCHANGED ok
     \/ p \in Live /\ ok' = FALSE /\ UNCHANGED <<pc, helper, client, qemu>>
     \/ p \notin Live /\ UNCHANGED <<pc, helper, client, qemu, ok>>
  /\ UNCHANGED <<at, port, ready, stop, snapshot, heard, rivals>>

Stopped ==
  /\ stop = "stopping" /\ todo = {}
  /\ stop' = IF ok THEN "stopped" ELSE "refused"
  /\ UNCHANGED <<launchVars, helperVars, qemu, snapshot, todo, ok, heard, rivals>>

-----------------------------------------------------------------------------
Init ==
  /\ pc = [l \in Launches |-> "off"]
  /\ at = [l \in Launches |-> C]
  /\ port = [l \in Launches |-> [d \in Drives |-> Nobody]]
  /\ helper = [h \in Helpers |-> "none"]
  /\ client = [h \in Helpers |-> Nobody]
  /\ ready = [d \in Drives |-> Nobody]
  /\ qemu = [l \in Launches |-> "none"]
  /\ stop = "idle" /\ snapshot = {} /\ todo = {} /\ ok = TRUE
  /\ heard = [d \in Drives |-> {}]
  /\ rivals = {}

Launcher(l) ==
  ClearReady(l) \/ Spawn(l) \/ SeesPort(l) \/ SeesHelperDead(l) \/ GivesUp(l) \/ RunQemu(l)
    \/ SeesQemuEnd(l) \/ StopHelper(l)

Helper == \E k \in Launches, d \in Drives :
            Announce(k, d) \/ HelperFails(<<k, d>>) \/ SessionOver(k, d)

Installer == Snapshot \/ Stopped \/ \E p \in todo : StopOne(p)

Next ==
  \/ \E l \in Launches : Start(l) \/ Launcher(l) \/ QemuJoins(l) \/ QemuEnds(l) \/ Kill(l)
  \/ Helper
  \/ Installer

Spec == Init /\ [][Next]_vars

\* A launcher waits for its helper no longer than READY_TIMEOUT_MS, and for
\* the user only at a message box, which is answered.
FairSpec == Spec /\ \A l \in Launches : WF_vars(Launcher(l))

-----------------------------------------------------------------------------
(* Properties *)

\* "A leftover ready file from a previous run would be believed": a port is
\* taken only from a file written after the launch had cleared it away.
LeftoverNotBelieved ==
  [][\A l \in Launches, d \in Drives :
       port'[l][d] # port[l][d] => l \in heard[d]]_vars

\* The guest of a launch that met no other of its edition has every drive of
\* the settings, each from the helper that was started for it.
EveryDriveServed ==
  stop = "idle" =>
    \A l \in Launches \ rivals : qemu[l] = "joined" =>
      \A d \in Folders[l] : client[<<l, d>>] = l

\* A launch that comes to its end, after QEMU or at a drive that fails, leaves
\* no helper behind, which would keep the program files open.
EndsClean ==
  \A l \in Launches : pc[l] = "ended" => \A d \in Drives : ~Runs(<<l, d>>)

\* When stop_edition() says yes nothing lives of what it found.
StopIsComplete == stop = "stopped" => Live \cap snapshot = {}

\* A helper that never answers cannot hold a launch up for ever, and one whose
\* QEMU has gone ends.
LaunchSettles ==
  \A l \in Launches :
    /\ pc[l] = "clear" ~> pc[l] \in {"running", "ended", "killed"}
    /\ qemu[l] = "gone" ~> pc[l] \in {"ended", "killed"}
=============================================================================
