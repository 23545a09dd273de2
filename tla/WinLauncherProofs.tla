------------------------- MODULE WinLauncherProofs --------------------------
(* Theorems about WinLauncher, for any number of launches and drives.  A    *)
(* helper that runs is one its launcher still knows of (Tracked), unless    *)
(* the launcher was killed; and nothing that has ended runs again.          *)
EXTENDS WinLauncher, TLAPS, WellFoundedInduction

\* The least of the drives is there.
LEMMA LeastDrive ==
  ASSUME NEW S \in SUBSET Drives, S # {}
  PROVE  Min(S) \in S /\ \A d \in S : Min(S) <= d
<1> DEFINE Less == OpToRel(<, Nat)
<1>1. S \subseteq Nat
  BY LauncherAssumption
<1>2. \A x, y \in Nat : x < y => <<x, y>> \in Less
  BY DEF OpToRel
<1>3. IsWellFoundedOn(Less, Nat)
  BY NatLessThanWellFounded
<1> HIDE DEF Less
<1>4. PICK x \in S : \A y \in S : ~(<<y, x>> \in Less)
  BY <1>1, <1>3, WFMin
<1>5. ASSUME NEW y \in S PROVE x <= y
  <2>1. x \in Nat /\ y \in Nat
    BY <1>1
  <2>2. ~(y < x)
    BY <1>2, <1>4, <2>1
  <2> QED BY <2>1, <2>2
<1> QED BY <1>1, <1>5 DEF Min

\* Where the loop goes from a drive, or that it is done.
LEMMA LaterDrive ==
  ASSUME NEW l \in Launches, at[l] \in Drives, Later(l) # {}
  PROVE  /\ Min(Later(l)) \in Folders[l] /\ Min(Later(l)) \in Drives
         /\ Min(Later(l)) > at[l]
         /\ \A d \in Folders[l] : d > at[l] => Min(Later(l)) <= d
<1>1. Later(l) \in SUBSET Drives
  BY LauncherAssumption DEF Later
<1> QED BY <1>1, LeastDrive DEF Later

-----------------------------------------------------------------------------
\* A drive that has its port is a folder's, and the loop is past it.
PortsTaken ==
  \A l \in Launches, d \in Drives :
    /\ at[l] \in Folders[l]
    /\ port[l][d] # Nobody => /\ d \in Folders[l] /\ pc[l] # "off"
                              /\ pc[l] \in {"clear", "spawn", "wait"} => d < at[l]

\* A helper that runs is waited for, or has its place in helpers[] and the
\* loop at the end has not come to it, or its launcher was killed.
Tracked ==
  \A l \in Launches, d \in Drives : Runs(<<l, d>>) =>
    \/ pc[l] = "killed"
    \/ pc[l] = "wait" /\ d = at[l]
    \/ /\ port[l][d] # Nobody
       /\ \/ pc[l] \in {"clear", "spawn", "wait", "boot", "running"}
          \/ pc[l] = "stop" /\ at[l] <= d

\* Whoever waits for a ready file that is there was waiting when it was written.
Fresh ==
  \A l \in Launches : pc[l] \in {"spawn", "wait"} /\ ready[at[l]] # Nobody => l \in heard[at[l]]

\* What has ended is not started again: of what the snapshot holds, the start
\* is past.
Past ==
  \A l \in Launches :
    /\ qemu[l] # "none" => pc[l] \in {"running", "stop", "ended", "killed"}
    /\ <<"launcher", l>> \in snapshot => pc[l] # "off"
    /\ <<"qemu", l>> \in snapshot => qemu[l] # "none"
    /\ \A d \in Drives : <<"helper", l, d>> \in snapshot =>
         /\ pc[l] # "off"
         /\ pc[l] \in {"clear", "spawn"} => d < at[l]
         /\ pc[l] = "wait" => d <= at[l]

\* What lives of the snapshot is still to be ended, unless it refused.
Ending ==
  /\ stop = "stopping" /\ ok => Live \cap snapshot \subseteq todo
  /\ stop = "stopped" => Live \cap snapshot = {}

IInv == TypeOK /\ PortsTaken /\ Tracked /\ Fresh /\ Past /\ Ending

-----------------------------------------------------------------------------
(* Types *)

LEMMA NextDriveTypes ==
  ASSUME TypeOK, NEW l \in Launches, NextDrive(l)
  PROVE  at' \in [Launches -> Drives] /\ pc' \in [Launches -> Places]
<1>1. CASE Later(l) # {}
  BY <1>1, LaterDrive DEF NextDrive, TypeOK, Places
<1>2. CASE Later(l) = {}
  BY <1>2 DEF NextDrive, TypeOK, Places
<1> QED BY <1>1, <1>2

LEMMA EndTypes ==
  ASSUME TypeOK, NEW h \in Helpers, End(h)
  PROVE  /\ helper' \in [Helpers -> {"none", "starting", "listening"}]
         /\ client' \in [Helpers -> Launches \cup {Nobody}]
         /\ \A g \in Helpers : client'[g] # Nobody => helper'[g] = "listening"
  BY DEF End, TypeOK

LEMMA ToStopTypes ==
  ASSUME TypeOK, NEW l \in Launches, ToStop(l)
  PROVE  at' \in [Launches -> Drives] /\ pc' \in [Launches -> Places]
  BY LauncherAssumption DEF ToStop, TypeOK, Places

LEMMA HelperOf == \A l \in Launches, d \in Drives : <<l, d>> \in Helpers
  BY DEF Helpers

LEMMA LiveTypes == Live \subseteq Processes
  BY DEF Live, Processes, Helpers

LEMMA InitTypes == Init => TypeOK
  BY LauncherAssumption DEF Init, TypeOK, Places, Helpers

LEMMA LauncherTypes ==
  ASSUME TypeOK, Tracked, PortsTaken, NEW l \in Launches, Start(l) \/ Launcher(l) \/ Kill(l)
  PROVE  TypeOK'
<1> USE HelperOf DEF stopVars, helperVars
<1>1. CASE Start(l)
  <2>1. rivals' \subseteq Launches
    BY <1>1 DEF Start, TypeOK
  <2> QED BY <1>1, <2>1 DEF Start, TypeOK, Places
<1>2. CASE ClearReady(l)
  BY <1>2 DEF ClearReady, TypeOK, Places
<1>3. CASE Spawn(l)
  <2>1. helper' \in [Helpers -> {"none", "starting", "listening"}]
    BY <1>3 DEF Spawn, TypeOK
  <2>2. at' \in [Launches -> Drives] /\ pc' \in [Launches -> Places]
    BY <1>3, ToStopTypes DEF Spawn, TypeOK, Places
  <2>3. helper[<<l, at[l]>>] = "none"
    <3>1. at[l] \in Drives /\ at[l] \in Nat /\ pc[l] = "spawn"
      BY <1>3, LauncherAssumption DEF Spawn, TypeOK
    <3>2. ~Runs(<<l, at[l]>>)
      BY <3>1 DEF Tracked, PortsTaken
    <3> QED BY <3>1, <3>2 DEF Runs, TypeOK
  <2>4. \A h \in Helpers : client[h] # Nobody => helper'[h] = "listening"
    BY <1>3, <2>3 DEF Spawn, TypeOK
  <2> QED BY <1>3, <2>1, <2>2, <2>4 DEF Spawn, TypeOK
<1>4. CASE SeesPort(l)
  <2>1. port' \in [Launches -> [Drives -> Launches \cup {Nobody}]]
    BY <1>4 DEF SeesPort, TypeOK
  <2> QED BY <1>4, <2>1, NextDriveTypes DEF SeesPort, TypeOK
<1>5. CASE SeesHelperDead(l)
  BY <1>5, ToStopTypes DEF SeesHelperDead, TypeOK
<1>6. CASE GivesUp(l)
  <2>1. <<l, at[l]>> \in Helpers
    BY DEF TypeOK
  <2> QED BY <1>6, <2>1, ToStopTypes, EndTypes DEF GivesUp, TypeOK
<1>7. CASE RunQemu(l)
  <2>1. CASE ToStop(l)
    BY <1>7, <2>1, ToStopTypes DEF RunQemu, TypeOK
  <2>2. CASE /\ qemu' = [qemu EXCEPT ![l] = "started"]
             /\ pc' = [pc EXCEPT ![l] = "running"]
             /\ UNCHANGED at
    BY <1>7, <2>2 DEF RunQemu, TypeOK, Places
  <2> QED BY <1>7, <2>1, <2>2 DEF RunQemu
<1>8. CASE SeesQemuEnd(l)
  BY <1>8, ToStopTypes DEF SeesQemuEnd, TypeOK
<1>9. CASE StopHelper(l)
  <2>1. <<l, at[l]>> \in Helpers
    BY DEF TypeOK
  <2>2. at' \in [Launches -> Drives] /\ pc' \in [Launches -> Places]
    BY <1>9, LaterDrive DEF StopHelper, TypeOK, Places
  <2>3. /\ helper' \in [Helpers -> {"none", "starting", "listening"}]
        /\ client' \in [Helpers -> Launches \cup {Nobody}]
        /\ \A g \in Helpers : client'[g] # Nobody => helper'[g] = "listening"
    BY <1>9, <2>1, EndTypes DEF StopHelper, TypeOK
  <2>4. /\ ready' \in [Drives -> Launches \cup {Nobody}]
        /\ heard' \in [Drives -> SUBSET Launches]
    BY <1>9 DEF StopHelper, TypeOK
  <2> QED BY <1>9, <2>2, <2>3, <2>4 DEF StopHelper, TypeOK
<1>10. CASE Kill(l)
  BY <1>10 DEF Kill, TypeOK, Places
<1> QED BY <1>1, <1>2, <1>3, <1>4, <1>5, <1>6, <1>7, <1>8, <1>9, <1>10 DEF Launcher

LEMMA WorldTypes ==
  ASSUME TypeOK, (\E l \in Launches : QemuJoins(l) \/ QemuEnds(l)) \/ Helper
  PROVE  TypeOK'
<1> USE HelperOf DEF stopVars, launchVars
<1>1. ASSUME NEW l \in Launches, QemuJoins(l) PROVE TypeOK'
  <2>1. CASE UNCHANGED client
    BY <1>1, <2>1 DEF QemuJoins, TypeOK
  <2>2. CASE ~UNCHANGED client
    <3> DEFINE mine == {<<port[l][d], d>> : d \in {e \in Drives : port[l][e] # Nobody}}
    <3>1. /\ \A h \in mine : helper[h] = "listening"
          /\ client' = [h \in Helpers |-> IF h \in mine /\ client[h] = Nobody THEN l ELSE client[h]]
      BY <1>1, <2>2 DEF QemuJoins
    <3>2. /\ client' \in [Helpers -> Launches \cup {Nobody}]
          /\ \A h \in Helpers : client'[h] # Nobody => helper[h] = "listening"
      BY <3>1 DEF TypeOK
    <3> QED BY <1>1, <3>2 DEF QemuJoins, TypeOK
  <2> QED BY <2>1, <2>2
<1>2. ASSUME NEW l \in Launches, QemuEnds(l) PROVE TypeOK'
  BY <1>2 DEF QemuEnds, TypeOK, helperVars
<1>3. ASSUME NEW k \in Launches, NEW d \in Drives, Announce(k, d) PROVE TypeOK'
  <2> DEFINE waiting == {l \in Launches : pc[l] \in {"spawn", "wait"} /\ at[l] = d}
  <2>1. /\ helper' = [helper EXCEPT ![<<k, d>>] = "listening"]
        /\ UNCHANGED <<launchVars, client, qemu, stopVars, rivals>>
        /\ \/ ready' = [ready EXCEPT ![d] = k] /\ heard' = [heard EXCEPT ![d] = waiting]
           \/ UNCHANGED <<ready, heard>>
    BY <1>3 DEF Announce
  <2>2. waiting \in SUBSET Launches
    OBVIOUS
  <2>3. /\ ready' \in [Drives -> Launches \cup {Nobody}]
        /\ heard' \in [Drives -> SUBSET Launches]
    <3> HIDE DEF waiting
    <3>1. CASE UNCHANGED <<ready, heard>>
      BY <3>1 DEF TypeOK
    <3>2. CASE ready' = [ready EXCEPT ![d] = k] /\ heard' = [heard EXCEPT ![d] = waiting]
      BY <3>2, <2>2 DEF TypeOK
    <3> QED BY <2>1, <3>1, <3>2
  <2> HIDE DEF waiting
  <2>4. /\ helper' \in [Helpers -> {"none", "starting", "listening"}]
        /\ \A h \in Helpers : client[h] # Nobody => helper'[h] = "listening"
    BY <2>1 DEF TypeOK
  <2> QED BY <2>1, <2>3, <2>4 DEF TypeOK
<1>4. ASSUME NEW h \in Helpers, HelperFails(h) PROVE TypeOK'
  BY <1>4, EndTypes DEF HelperFails, TypeOK
<1>5. ASSUME NEW k \in Launches, NEW d \in Drives, SessionOver(k, d) PROVE TypeOK'
  <2>1. CASE End(<<k, d>>)
    BY <1>5, <2>1, EndTypes DEF SessionOver, TypeOK
  <2>2. CASE UNCHANGED helper
    <3>1. PICK m \in Launches \cup {Nobody} : client' = [client EXCEPT ![<<k, d>>] = m]
      BY <1>5, <2>2 DEF SessionOver, End, TypeOK
    <3>2. /\ client' \in [Helpers -> Launches \cup {Nobody}]
          /\ \A g \in Helpers : client'[g] # Nobody => helper[g] = "listening"
      BY <1>5, <3>1 DEF SessionOver, TypeOK
    <3> QED BY <1>5, <2>2, <3>2 DEF SessionOver, TypeOK
  <2> QED BY <1>5, <2>1, <2>2 DEF SessionOver
<1> QED BY <1>1, <1>2, <1>3, <1>4, <1>5 DEF Helper

LEMMA InstallerTypes == ASSUME TypeOK, Installer PROVE TypeOK'
<1> USE DEF launchVars, helperVars
<1>1. CASE Snapshot
  BY <1>1, LiveTypes DEF Snapshot, TypeOK
<1>2. CASE Stopped
  BY <1>2 DEF Stopped, TypeOK
<1>3. ASSUME NEW p \in todo, StopOne(p) PROVE TypeOK'
  <2>1. CASE UNCHANGED <<pc, helper, client, qemu>>
    BY <1>3, <2>1 DEF StopOne, TypeOK
  <2>2. CASE p \in Live /\ Terminate(p)
    <3>1. ASSUME NEW l \in Launches, p = <<"launcher", l>> PROVE TypeOK'
      <4>1. pc' = [pc EXCEPT ![l] = "killed"] /\ UNCHANGED <<helper, client, qemu>>
        BY <2>2, <3>1 DEF Terminate
      <4>2. /\ UNCHANGED <<at, port, ready, stop, snapshot, heard, rivals>>
            /\ todo' \subseteq todo /\ ok' \in {ok, FALSE}
        BY <1>3 DEF StopOne
      <4> QED BY <4>1, <4>2 DEF TypeOK, Places
    <3>2. ASSUME NEW l \in Launches, p = <<"qemu", l>> PROVE TypeOK'
      BY <1>3, <2>2, <3>2 DEF StopOne, Terminate, TypeOK
    <3>3. ASSUME NEW l \in Launches, NEW d \in Drives, p = <<"helper", l, d>> PROVE TypeOK'
      <4>1. End(<<l, d>>) /\ UNCHANGED <<pc, qemu>>
        BY <2>2, <3>3 DEF Terminate
      <4> QED BY <1>3, <2>2, <4>1, HelperOf, EndTypes DEF StopOne, TypeOK
    <3> QED BY <2>2, <3>1, <3>2, <3>3 DEF Live, Helpers
  <2> QED BY <1>3, <2>1, <2>2 DEF StopOne
<1> QED BY <1>1, <1>2, <1>3 DEF Installer

LEMMA StepTypes == ASSUME IInv, [Next]_vars PROVE TypeOK'
<1>1. CASE UNCHANGED vars
  BY <1>1 DEF vars, launchVars, helperVars, stopVars, TypeOK, IInv
<1> QED BY <1>1, LauncherTypes, WorldTypes, InstallerTypes DEF Next, IInv

-----------------------------------------------------------------------------
(* The steps *)

LEMMA NumbersOf == ASSUME TypeOK PROVE /\ Drives \subseteq Nat
                                       /\ \A l \in Launches : at[l] \in Drives /\ C \in Folders[l]
  BY LauncherAssumption DEF TypeOK

\* The loop goes up.
LEMMA LoopGoesUp ==
  ASSUME TypeOK, NEW l \in Launches, NextDrive(l)
  PROVE  \/ \E e \in Folders[l] : /\ e \in Drives /\ e > at[l]
                                  /\ at' = [at EXCEPT ![l] = e] /\ pc' = [pc EXCEPT ![l] = "clear"]
         \/ UNCHANGED at /\ pc' = [pc EXCEPT ![l] = "boot"]
  BY LaterDrive DEF NextDrive, TypeOK

\* Nothing but the launcher changes where it is, except to kill it.
LEMMA OthersKill ==
  ASSUME TypeOK, Next, ~\E l \in Launches : Start(l) \/ Launcher(l)
  PROVE  /\ UNCHANGED <<at, port>>
         /\ \A l \in Launches : UNCHANGED pc[l] \/ (pc[l] # "off" /\ pc'[l] = "killed")
<1> USE DEF launchVars
<1>1. CASE Helper
  BY <1>1 DEF Helper, Announce, HelperFails, SessionOver
<1>2. CASE Installer
  <2>1. CASE Snapshot \/ Stopped
    BY <2>1 DEF Snapshot, Stopped
  <2>2. ASSUME NEW p \in todo, StopOne(p)
        PROVE  /\ UNCHANGED <<at, port>>
               /\ \A l \in Launches : UNCHANGED pc[l] \/ (pc[l] # "off" /\ pc'[l] = "killed")
    <3>1. CASE UNCHANGED pc
      BY <2>2, <3>1 DEF StopOne
    <3>2. CASE p \in Live /\ p[1] = "launcher" /\ pc' = [pc EXCEPT ![p[2]] = "killed"]
      <4>1. \A l \in Launches : l = p[2] => pc[l] # "off"
        BY <3>2 DEF Live, Active, Helpers
      <4> QED BY <2>2, <3>2, <4>1 DEF StopOne, TypeOK
    <3> QED BY <2>2, <3>1, <3>2 DEF StopOne, Terminate
  <2> QED BY <1>2, <2>1, <2>2 DEF Installer
<1>3. ASSUME NEW l \in Launches, QemuJoins(l) \/ QemuEnds(l) \/ Kill(l)
      PROVE  /\ UNCHANGED <<at, port>>
             /\ \A m \in Launches : UNCHANGED pc[m] \/ (pc[m] # "off" /\ pc'[m] = "killed")
  BY <1>3 DEF QemuJoins, QemuEnds, Kill, Active, TypeOK
<1> QED BY <1>1, <1>2, <1>3 DEF Next

LEMMA StepPorts == ASSUME IInv, [Next]_vars PROVE PortsTaken'
<1> USE NumbersOf DEF IInv
<1>1. CASE \E l \in Launches : Start(l) \/ Launcher(l)
  <2> PICK l \in Launches : Start(l) \/ Launcher(l)
    BY <1>1
  <2>1. CASE SeesPort(l)
    <3>1. CASE UNCHANGED at /\ pc' = [pc EXCEPT ![l] = "boot"]
      BY <2>1, <3>1 DEF SeesPort, PortsTaken, TypeOK
    <3>2. ASSUME NEW e \in Folders[l], e \in Drives, e > at[l],
                 at' = [at EXCEPT ![l] = e], pc' = [pc EXCEPT ![l] = "clear"]
          PROVE  PortsTaken'
      BY <2>1, <3>2 DEF SeesPort, PortsTaken, TypeOK
    <3> QED BY <2>1, <3>1, <3>2, LoopGoesUp DEF SeesPort
  <2>2. CASE StopHelper(l)
    <3>1. /\ pc[l] = "stop" /\ UNCHANGED port
          /\ \/ at' = at /\ pc' = [pc EXCEPT ![l] = "ended"]
             \/ pc' = pc /\ Later(l) # {} /\ at' = [at EXCEPT ![l] = Min(Later(l))]
      BY <2>2 DEF StopHelper
    <3>2. CASE at' = at /\ pc' = [pc EXCEPT ![l] = "ended"]
      BY <3>1, <3>2 DEF PortsTaken, TypeOK
    <3>3. CASE pc' = pc /\ Later(l) # {} /\ at' = [at EXCEPT ![l] = Min(Later(l))]
      <4>1. Min(Later(l)) \in Folders[l]
        BY <3>3, LaterDrive DEF TypeOK
      <4> QED BY <3>1, <3>3, <4>1 DEF PortsTaken, TypeOK
    <3> QED BY <3>1, <3>2, <3>3
  <2>3. CASE Start(l)
    <3>1. /\ pc[l] = "off" /\ pc' = [pc EXCEPT ![l] = "clear"]
          /\ UNCHANGED <<at, port>>
      BY <2>3 DEF Start
    <3> QED BY <3>1 DEF PortsTaken, TypeOK
  <2>5. CASE ClearReady(l)
    <3>1. /\ pc[l] = "clear" /\ pc' = [pc EXCEPT ![l] = "spawn"]
          /\ UNCHANGED <<at, port>>
      BY <2>5 DEF ClearReady
    <3> QED BY <3>1 DEF PortsTaken, TypeOK
  <2>4. CASE Spawn(l) \/ SeesHelperDead(l) \/ GivesUp(l) \/ RunQemu(l) \/ SeesQemuEnd(l)
    <3>1. UNCHANGED port /\ pc[l] # "off"
      BY <2>4 DEF Spawn, SeesHelperDead, GivesUp, RunQemu, SeesQemuEnd
    <3>2. \/ ToStop(l)
          \/ UNCHANGED at /\ pc' = [pc EXCEPT ![l] = "running"]
          \/ UNCHANGED at /\ pc[l] = "spawn" /\ pc' = [pc EXCEPT ![l] = "wait"]
      BY <2>4 DEF Spawn, SeesHelperDead, GivesUp, RunQemu, SeesQemuEnd
    <3> QED BY <3>1, <3>2 DEF ToStop, PortsTaken, TypeOK
  <2> QED BY <2>1, <2>2, <2>3, <2>4, <2>5 DEF Launcher
<1>2. CASE Next /\ ~\E l \in Launches : Start(l) \/ Launcher(l)
  BY <1>2, OthersKill DEF PortsTaken
<1>3. CASE UNCHANGED vars
  BY <1>3 DEF vars, launchVars, PortsTaken
<1> QED BY <1>1, <1>2, <1>3 DEF Next

LEMMA StepFresh == ASSUME IInv, [Next]_vars PROVE Fresh'
<1> USE NumbersOf DEF IInv, helperVars, launchVars, stopVars
<1>1. ASSUME NEW l \in Launches, ClearReady(l) PROVE Fresh'
  BY <1>1 DEF ClearReady, Fresh, TypeOK
<1>2. ASSUME NEW l \in Launches, StopHelper(l) PROVE Fresh'
  <2>1. \A m \in Launches : pc'[m] \in {"spawn", "wait"} => UNCHANGED <<pc[m], at[m]>>
    BY <1>2 DEF StopHelper, TypeOK
  <2> QED BY <1>2, <2>1 DEF StopHelper, Fresh, TypeOK
<1>3. ASSUME NEW k \in Launches, NEW d \in Drives, Announce(k, d) PROVE Fresh'
  BY <1>3 DEF Announce, Fresh, TypeOK
<1>4. CASE /\ UNCHANGED <<ready, heard>>
           /\ \A m \in Launches : pc'[m] \in {"spawn", "wait"} =>
                pc[m] \in {"spawn", "wait"} /\ UNCHANGED at[m]
  BY <1>4 DEF Fresh
<1>5. ASSUME NEW l \in Launches, Spawn(l) \/ SeesHelperDead(l) \/ GivesUp(l) \/ RunQemu(l)
                                 \/ SeesQemuEnd(l) \/ Start(l)
      PROVE  Fresh'
  BY <1>5, <1>4 DEF Spawn, SeesHelperDead, GivesUp, RunQemu, SeesQemuEnd, Start, ToStop, TypeOK
<1>6. ASSUME NEW l \in Launches, SeesPort(l) PROVE Fresh'
  BY <1>6, <1>4, LoopGoesUp DEF SeesPort, TypeOK
<1>7. CASE /\ Next /\ ~\E l \in Launches : Start(l) \/ Launcher(l)
           /\ ~\E k \in Launches, d \in Drives : Announce(k, d)
  <2>1. UNCHANGED <<ready, heard>>
    BY <1>7 DEF Next, Helper, HelperFails, SessionOver, Installer, Snapshot, StopOne, Stopped,
                QemuJoins, QemuEnds, Kill
  <2> QED BY <1>7, <2>1, <1>4, OthersKill
<1>8. CASE UNCHANGED vars
  BY <1>8, <1>4 DEF vars
<1> QED BY <1>1, <1>2, <1>3, <1>5, <1>6, <1>7, <1>8 DEF Launcher

\* A helper begins to run where its launcher starts it, and nowhere else.
LEMMA HelperBorn ==
  ASSUME TypeOK, Next, NEW m \in Launches, NEW d \in Drives, Runs(<<m, d>>)'
  PROVE  Runs(<<m, d>>) \/ (Spawn(m) /\ d = at[m] /\ pc'[m] = "wait" /\ UNCHANGED at)
<1> USE HelperOf DEF helperVars
<1>1. CASE UNCHANGED helper
  BY <1>1 DEF Runs
<1>2. ASSUME NEW h \in Helpers, helper' = [helper EXCEPT ![h] = "none"] PROVE Runs(<<m, d>>)
  BY <1>2 DEF Runs, TypeOK
<1>3. ASSUME NEW l \in Launches, Start(l) \/ Launcher(l) \/ QemuJoins(l) \/ QemuEnds(l) \/ Kill(l)
      PROVE  Runs(<<m, d>>) \/ (Spawn(m) /\ d = at[m] /\ pc'[m] = "wait" /\ UNCHANGED at)
  <2>1. CASE Spawn(l)
    <3>1. CASE UNCHANGED helper
      BY <3>1, <1>1
    <3>2. CASE /\ helper' = [helper EXCEPT ![<<l, at[l]>>] = "starting"]
               /\ pc' = [pc EXCEPT ![l] = "wait"] /\ UNCHANGED at
      BY <2>1, <3>2 DEF Runs, TypeOK
    <3> QED BY <2>1, <3>1, <3>2 DEF Spawn
  <2>2. CASE GivesUp(l) \/ StopHelper(l)
    <3>1. UNCHANGED helper \/ helper' = [helper EXCEPT ![<<l, at[l]>>] = "none"]
      BY <2>2 DEF GivesUp, StopHelper, End
    <3>2. <<l, at[l]>> \in Helpers
      BY DEF TypeOK
    <3> QED BY <3>1, <3>2, <1>1, <1>2
  <2>3. CASE ~(Spawn(l) \/ GivesUp(l) \/ StopHelper(l))
    <3>1. UNCHANGED helper
      BY <1>3, <2>3 DEF Start, Launcher, ClearReady, SeesPort, SeesHelperDead, RunQemu,
                        SeesQemuEnd, QemuJoins, QemuEnds, Kill
    <3> QED BY <3>1, <1>1
  <2> QED BY <2>1, <2>2, <2>3
<1>4. CASE Helper
  <2>1. ASSUME NEW k \in Launches, NEW e \in Drives, Announce(k, e) PROVE Runs(<<m, d>>)
    BY <2>1 DEF Announce, Runs, TypeOK
  <2>2. ASSUME NEW k \in Launches, NEW e \in Drives, HelperFails(<<k, e>>) \/ SessionOver(k, e),
               ~UNCHANGED helper
        PROVE  Runs(<<m, d>>)
    <3>1. helper' = [helper EXCEPT ![<<k, e>>] = "none"]
      BY <2>2 DEF HelperFails, SessionOver, End
    <3>2. <<k, e>> \in Helpers
      BY HelperOf
    <3> QED BY <3>1, <3>2, <1>2
  <2> QED BY <1>1, <1>4, <2>1, <2>2 DEF Helper
<1>5. CASE Installer
  <2>1. ASSUME NEW p \in todo, StopOne(p), ~UNCHANGED helper PROVE Runs(<<m, d>>)
    <3>1. p \in Live /\ p[1] = "helper" /\ End(<<p[2], p[3]>>)
      BY <2>1 DEF StopOne, Terminate
    <3>2. <<p[2], p[3]>> \in Helpers
      BY <3>1 DEF Live, Helpers
    <3> QED BY <3>1, <3>2, <1>2 DEF End
  <2>2. CASE Snapshot \/ Stopped
    BY <2>2, <1>1 DEF Snapshot, Stopped
  <2> QED BY <1>5, <1>1, <2>1, <2>2 DEF Installer
<1> QED BY <1>3, <1>4, <1>5 DEF Next

LEMMA StepTracked == ASSUME IInv, [Next]_vars PROVE Tracked'
<1> USE NumbersOf, HelperOf DEF IInv
<1> SUFFICES ASSUME Next, NEW m \in Launches, NEW d \in Drives, Runs(<<m, d>>)',
                    pc'[m] # "killed"
             PROVE  \/ pc'[m] = "wait" /\ d = at'[m]
                    \/ /\ port'[m][d] # Nobody
                       /\ \/ pc'[m] \in {"clear", "spawn", "wait", "boot", "running"}
                          \/ pc'[m] = "stop" /\ at'[m] <= d
  <2>1. CASE UNCHANGED vars
    BY <2>1 DEF vars, launchVars, helperVars, Tracked, Runs
  <2> QED BY <2>1 DEF Tracked
<1>1. CASE ~Runs(<<m, d>>)
  BY <1>1, HelperBorn
<1>2. CASE Runs(<<m, d>>) /\ UNCHANGED <<pc[m], at[m], port[m]>>
  BY <1>2 DEF Tracked
<1>3. CASE Runs(<<m, d>>) /\ ~\E l \in Launches : Start(l) \/ Launcher(l)
  BY <1>3, <1>2, OthersKill
<1>4. ASSUME NEW l \in Launches, l # m, Start(l) \/ Launcher(l)
      PROVE  UNCHANGED <<pc[m], at[m], port[m]>>
  BY <1>4 DEF Start, Launcher, ClearReady, Spawn, SeesPort, SeesHelperDead, GivesUp, RunQemu,
              SeesQemuEnd, StopHelper, NextDrive, ToStop, TypeOK
<1>5. CASE Runs(<<m, d>>) /\ (Start(m) \/ Launcher(m))
  <2> USE <1>5
  <2>1. CASE Start(m) \/ ClearReady(m)
    BY <2>1 DEF Start, ClearReady, Tracked, TypeOK
  <2>2. CASE SeesPort(m)
    <3>1. port'[m][d] # Nobody
      BY <2>2 DEF SeesPort, Tracked, TypeOK
    <3>2. pc'[m] \in {"clear", "boot"}
      BY <2>2, LoopGoesUp DEF SeesPort, TypeOK
    <3> QED BY <3>1, <3>2
  <2>3. CASE ToStop(m) /\ UNCHANGED port /\ pc[m] \notin {"stop", "killed"} /\ ~(pc[m] = "wait" /\ d = at[m])
    <3>1. port[m][d] # Nobody
      BY <2>3 DEF Tracked
    <3>2. pc'[m] = "stop" /\ at'[m] = C
      BY <2>3 DEF ToStop, TypeOK
    <3> QED BY <2>3, <3>1, <3>2, LauncherAssumption
  <2>4. CASE Spawn(m) \/ RunQemu(m) \/ SeesQemuEnd(m)
    <3>1. CASE ToStop(m)
      BY <2>4, <3>1, <2>3 DEF Spawn, RunQemu, SeesQemuEnd
    <3>2. CASE ~ToStop(m)
      BY <2>4, <3>2 DEF Spawn, RunQemu, SeesQemuEnd, Tracked, TypeOK
    <3> QED BY <3>1, <3>2
  <2>5. CASE SeesHelperDead(m) \/ GivesUp(m)
    <3>1. d # at[m]
      BY <2>5 DEF SeesHelperDead, GivesUp, End, Runs, TypeOK
    <3> QED BY <2>5, <3>1, <2>3 DEF SeesHelperDead, GivesUp
  <2>6. CASE StopHelper(m)
    <3>1. port[m][d] # Nobody /\ at[m] <= d /\ pc[m] = "stop"
      BY <2>6 DEF StopHelper, Tracked
    <3>2. d # at[m]
      BY <2>6, <3>1 DEF StopHelper, End, Runs, TypeOK
    <3>3. d \in Later(m)
      <4>1. d \in Folders[m]
        BY <3>1 DEF PortsTaken
      <4>2. d \in Nat /\ at[m] \in Nat
        OBVIOUS
      <4> QED BY <3>1, <3>2, <4>1, <4>2 DEF Later
    <3>4. at' = [at EXCEPT ![m] = Min(Later(m))] /\ UNCHANGED <<pc, port>>
      BY <2>6, <3>3 DEF StopHelper
    <3> QED BY <3>1, <3>3, <3>4, LaterDrive DEF Later, TypeOK
  <2> QED BY <2>1, <2>2, <2>4, <2>5, <2>6 DEF Launcher
<1> QED BY <1>1, <1>2, <1>3, <1>4, <1>5

\* A step of a launcher or of QEMU, by what it does to the places, the QEMUs
\* and the snapshot.
LEMMA LauncherWay ==
  ASSUME TypeOK, NEW l \in Launches, Start(l) \/ Launcher(l)
  PROVE  /\ UNCHANGED stopVars
         /\ \A m \in Launches \ {l} : UNCHANGED <<pc[m], at[m], qemu[m]>>
         /\ \/ RunQemu(l)
            \/ /\ UNCHANGED qemu
               /\ \/ pc[l] = "off" /\ pc'[l] = "clear"
                  \/ pc[l] = "clear" /\ pc'[l] = "spawn" /\ UNCHANGED at
                  \/ pc[l] = "spawn" /\ pc'[l] = "wait" /\ UNCHANGED at
                  \/ pc[l] \in {"spawn", "wait"} /\ pc'[l] = "stop"
                  \/ pc[l] = "wait" /\ pc'[l] = "clear" /\ at'[l] \in Drives /\ at'[l] > at[l]
                  \/ pc[l] = "wait" /\ pc'[l] = "boot"
                  \/ pc[l] \in {"running", "stop"} /\ pc'[l] \in {"stop", "ended"}
<1> USE DEF stopVars, TypeOK
<1>1. CASE Start(l) \/ ClearReady(l) \/ Spawn(l) \/ SeesHelperDead(l) \/ GivesUp(l) \/ SeesQemuEnd(l)
  BY <1>1 DEF Start, ClearReady, Spawn, SeesHelperDead, GivesUp, SeesQemuEnd, ToStop
<1>2. CASE RunQemu(l)
  BY <1>2 DEF RunQemu, ToStop
<1>3. CASE SeesPort(l)
  BY <1>3, LoopGoesUp DEF SeesPort
<1>4. CASE StopHelper(l)
  BY <1>4 DEF StopHelper
<1> QED BY <1>1, <1>2, <1>3, <1>4 DEF Launcher

\* A QEMU that was not started is not changed by anyone else.
LEMMA OthersQemu ==
  ASSUME TypeOK, Next, ~\E l \in Launches : Start(l) \/ Launcher(l)
  PROVE  \A m \in Launches : UNCHANGED qemu[m] \/ (Open(m) /\ qemu'[m] # "none")
<1>1. CASE UNCHANGED qemu
  BY <1>1
<1>2. ASSUME NEW l \in Launches, QemuJoins(l) \/ QemuEnds(l) \/ Kill(l)
      PROVE  \A m \in Launches : UNCHANGED qemu[m] \/ (Open(m) /\ qemu'[m] # "none")
  BY <1>2 DEF QemuJoins, QemuEnds, Kill, Open, TypeOK
<1>3. CASE Helper \/ Snapshot \/ Stopped
  BY <1>3, <1>1 DEF Helper, Announce, HelperFails, SessionOver, Snapshot, Stopped
<1>4. ASSUME NEW p \in todo, StopOne(p), ~UNCHANGED qemu
      PROVE  \A m \in Launches : UNCHANGED qemu[m] \/ (Open(m) /\ qemu'[m] # "none")
  <2>1. p \in Live /\ p[1] = "qemu" /\ qemu' = [qemu EXCEPT ![p[2]] = "gone"]
    BY <1>4 DEF StopOne, Terminate
  <2>2. p[2] \in Launches /\ Open(p[2])
    BY <2>1 DEF Live
  <2> QED BY <2>1, <2>2 DEF TypeOK
<1> QED BY <1>1, <1>2, <1>3, <1>4 DEF Next, Installer

\* The snapshot is taken once.
LEMMA SnapshotKept ==
  ASSUME TypeOK, [Next]_vars, ~Snapshot
  PROVE  UNCHANGED snapshot
<1> USE DEF stopVars
<1>1. CASE \E l \in Launches : Start(l) \/ Launcher(l)
  BY <1>1, LauncherWay
<1>2. CASE UNCHANGED vars
  BY <1>2 DEF vars
<1>3. CASE Next /\ ~\E l \in Launches : Start(l) \/ Launcher(l)
  BY <1>3 DEF Next, QemuJoins, QemuEnds, Kill, Helper, Announce, HelperFails, SessionOver,
              Installer, Stopped, StopOne
<1> QED BY <1>1, <1>2, <1>3

LEMMA StepPast == ASSUME IInv, [Next]_vars PROVE Past'
<1> USE NumbersOf DEF IInv
<1>1. CASE UNCHANGED vars
  BY <1>1 DEF vars, launchVars, stopVars, Past
<1>2. CASE Snapshot
  <2> SUFFICES ASSUME NEW l \in Launches
               PROVE  /\ <<"launcher", l>> \in Live => pc[l] # "off"
                      /\ <<"qemu", l>> \in Live => qemu[l] # "none"
                      /\ \A d \in Drives : <<"helper", l, d>> \in Live =>
                           /\ pc[l] # "off"
                           /\ pc[l] \in {"clear", "spawn"} => d < at[l]
                           /\ pc[l] = "wait" => d <= at[l]
    BY <1>2 DEF Snapshot, launchVars, Past
  <2>1. <<"launcher", l>> \in Live => pc[l] # "off"
    BY DEF Live, Active, Helpers
  <2>2. <<"qemu", l>> \in Live => qemu[l] # "none"
    BY DEF Live, Open, Helpers
  <2>3. ASSUME NEW d \in Drives, <<"helper", l, d>> \in Live
        PROVE  /\ pc[l] # "off"
               /\ pc[l] \in {"clear", "spawn"} => d < at[l]
               /\ pc[l] = "wait" => d <= at[l]
    <3>1. Runs(<<l, d>>)
      BY <2>3 DEF Live, Helpers
    <3>2. d \in Nat /\ at[l] \in Nat
      OBVIOUS
    <3> QED BY <3>1, <3>2 DEF Tracked, PortsTaken
  <2> QED BY <2>1, <2>2, <2>3
<1>3. ASSUME NEW l \in Launches, Start(l) \/ Launcher(l) PROVE Past'
  <2>1. UNCHANGED snapshot /\ \A m \in Launches \ {l} : UNCHANGED <<pc[m], at[m], qemu[m]>>
    BY <1>3, LauncherWay DEF stopVars
  <2>2. CASE RunQemu(l)
    <3>1. /\ pc[l] = "boot" /\ qemu[l] = "none" /\ pc'[l] \in {"running", "stop"}
          /\ qemu'[l] # "none" => pc'[l] = "running"
      BY <2>2 DEF RunQemu, ToStop, Past, TypeOK
    <3> QED BY <2>1, <3>1 DEF Past
  <2>3. CASE ~RunQemu(l)
    <3>1. at[l] \in Nat
      OBVIOUS
    <3>2. UNCHANGED qemu
      BY <1>3, <2>3, LauncherWay
    <3>3. \A d \in Drives : <<"helper", l, d>> \in snapshot =>
            /\ pc'[l] # "off"
            /\ pc'[l] \in {"clear", "spawn"} => d < at'[l]
            /\ pc'[l] = "wait" => d <= at'[l]
      <4> SUFFICES ASSUME NEW d \in Drives, <<"helper", l, d>> \in snapshot
                   PROVE  /\ pc'[l] # "off"
                          /\ pc'[l] \in {"clear", "spawn"} => d < at'[l]
                          /\ pc'[l] = "wait" => d <= at'[l]
        OBVIOUS
      <4>1. d \in Nat /\ \A e \in Drives : e \in Nat
        OBVIOUS
      <4>2. /\ pc[l] # "off"
            /\ pc[l] \in {"clear", "spawn"} => d < at[l]
            /\ pc[l] = "wait" => d <= at[l]
        BY DEF Past
      <4>3. \/ pc'[l] \notin {"off", "clear", "spawn", "wait"}
            \/ pc[l] = "clear" /\ pc'[l] = "spawn" /\ UNCHANGED at
            \/ pc[l] = "spawn" /\ pc'[l] = "wait" /\ UNCHANGED at
            \/ pc[l] = "wait" /\ pc'[l] = "clear" /\ at'[l] \in Drives /\ at'[l] > at[l]
        BY <1>3, <2>3, <4>2, LauncherWay
      <4>4. CASE pc'[l] = "clear"
        <5>1. at'[l] \in Nat /\ at'[l] > at[l] /\ d <= at[l]
          BY <4>1, <4>2, <4>3, <4>4
        <5> QED BY <3>1, <4>1, <4>4, <5>1
      <4> QED BY <3>1, <4>1, <4>2, <4>3, <4>4
    <3>4. /\ qemu[l] # "none" => pc'[l] \in {"running", "stop", "ended", "killed"}
          /\ <<"launcher", l>> \in snapshot => pc'[l] # "off"
      BY <1>3, <2>3, LauncherWay DEF Past
    <3> QED BY <2>1, <3>2, <3>3, <3>4 DEF Past
  <2> QED BY <2>2, <2>3
<1>4. CASE Next /\ ~Snapshot /\ ~\E l \in Launches : Start(l) \/ Launcher(l)
  BY <1>4, SnapshotKept, OthersKill, OthersQemu DEF Past, Open
<1> QED BY <1>1, <1>2, <1>3, <1>4

\* Nothing that the snapshot holds comes back to life.
LEMMA NoRevival == ASSUME IInv, [Next]_vars, ~Snapshot PROVE Live' \cap snapshot \subseteq Live
<1> USE DEF IInv
<1>1. CASE UNCHANGED vars
  BY <1>1 DEF vars, launchVars, helperVars, Live, Active, Open, Runs
<1> SUFFICES ASSUME Next PROVE Live' \cap snapshot \subseteq Live
  BY <1>1
<1>2. ASSUME NEW l \in Launches, <<"launcher", l>> \in snapshot, Active(l)' PROVE Active(l)
  <2>1. pc[l] # "off"
    BY <1>2 DEF Past
  <2>2. CASE \E k \in Launches : Start(k) \/ Launcher(k)
    BY <1>2, <2>1, <2>2, LauncherWay DEF Active, RunQemu
  <2> QED BY <1>2, <2>1, <2>2, OthersKill DEF Active
<1>3. ASSUME NEW l \in Launches, <<"qemu", l>> \in snapshot, Open(l)' PROVE Open(l)
  <2>1. qemu[l] # "none" /\ pc[l] # "boot"
    BY <1>3 DEF Past
  <2>2. CASE \E k \in Launches : Start(k) \/ Launcher(k)
    BY <1>3, <2>1, <2>2, LauncherWay DEF Open, RunQemu
  <2> QED BY <1>3, <2>1, <2>2, OthersQemu DEF Open
<1>4. ASSUME NEW l \in Launches, NEW d \in Drives, <<"helper", l, d>> \in snapshot, Runs(<<l, d>>)'
      PROVE  Runs(<<l, d>>)
  <2>1. ~(pc[l] = "spawn" /\ d = at[l])
    <3>1. pc[l] = "spawn" => d < at[l]
      BY <1>4 DEF Past
    <3>2. d \in Nat
      BY NumbersOf
    <3> QED BY <3>1, <3>2
  <2> QED BY <1>4, <2>1, HelperBorn DEF Spawn
<1> SUFFICES ASSUME NEW p \in snapshot, p \in Live' PROVE p \in Live
  OBVIOUS
<1>5. CASE \E l \in Launches : p = <<"launcher", l>> /\ Active(l)'
  BY <1>2, <1>5 DEF Live
<1>6. CASE \E l \in Launches : p = <<"qemu", l>> /\ Open(l)'
  BY <1>3, <1>6 DEF Live
<1>7. CASE \E l \in Launches, d \in Drives : p = <<"helper", l, d>> /\ Runs(<<l, d>>)'
  BY <1>4, <1>7, HelperOf DEF Live
<1> QED BY <1>5, <1>6, <1>7 DEF Live, Helpers

\* What StopOne() ends is no longer alive, and it says so of what it leaves.
LEMMA StopOneEnds ==
  ASSUME TypeOK, NEW p \in todo, StopOne(p), ok'
  PROVE  ok /\ p \notin Live'
<1> USE HelperOf
<1>1. ok
  BY DEF StopOne
<1>2. CASE p \notin Live
  <2>1. UNCHANGED <<pc, helper, qemu>>
    BY <1>2 DEF StopOne
  <2> QED BY <1>1, <1>2, <2>1 DEF Live, Active, Open, Runs
<1>3. CASE p \in Live
  <2>1. Terminate(p)
    BY <1>3 DEF StopOne
  <2>2. ASSUME NEW l \in Launches, p = <<"launcher", l>> PROVE p \notin Live'
    <3>1. pc'[l] = "killed"
      BY <2>1, <2>2 DEF Terminate, TypeOK
    <3> QED BY <2>2, <3>1 DEF Live, Active, Helpers
  <2>3. ASSUME NEW l \in Launches, p = <<"qemu", l>> PROVE p \notin Live'
    <3>1. qemu'[l] = "gone"
      BY <2>1, <2>3 DEF Terminate, TypeOK
    <3> QED BY <2>3, <3>1 DEF Live, Open, Helpers
  <2>4. ASSUME NEW l \in Launches, NEW d \in Drives, p = <<"helper", l, d>> PROVE p \notin Live'
    <3>1. helper'[<<l, d>>] = "none"
      BY <2>1, <2>4 DEF Terminate, End, TypeOK
    <3> QED BY <2>4, <3>1 DEF Live, Runs, Helpers
  <2> QED BY <1>1, <1>3, <2>2, <2>3, <2>4 DEF Live, Helpers
<1> QED BY <1>2, <1>3

LEMMA StepEnding == ASSUME IInv, [Next]_vars PROVE Ending'
<1> USE DEF IInv
<1>1. CASE Snapshot
  BY <1>1 DEF Snapshot, Ending, launchVars, helperVars, Live, Active, Open, Runs
<1> SUFFICES ASSUME ~Snapshot PROVE Ending'
  BY <1>1
<1>2. Live' \cap snapshot' \subseteq Live \cap snapshot
  BY NoRevival, SnapshotKept
<1>3. ASSUME NEW p \in todo, StopOne(p) PROVE Ending'
  BY <1>2, <1>3, StopOneEnds DEF StopOne, Ending
<1>4. CASE Stopped
  BY <1>2, <1>4 DEF Stopped, Ending
<1>5. CASE UNCHANGED <<stop, todo, ok>>
  BY <1>2, <1>5 DEF Ending
<1>6. CASE \E l \in Launches : Start(l) \/ Launcher(l)
  BY <1>5, <1>6, LauncherWay DEF stopVars
<1>7. CASE UNCHANGED vars
  BY <1>5, <1>7 DEF vars, stopVars
<1>8. CASE Helper \/ \E l \in Launches : QemuJoins(l) \/ QemuEnds(l) \/ Kill(l)
  BY <1>5, <1>8 DEF Helper, Announce, HelperFails, SessionOver, QemuJoins, QemuEnds, Kill, stopVars
<1> QED BY <1>3, <1>4, <1>6, <1>7, <1>8 DEF Next, Installer

-----------------------------------------------------------------------------
(* The theorems *)

LEMMA InitInv == Init => IInv
<1> SUFFICES ASSUME Init PROVE IInv
  OBVIOUS
<1>1. PortsTaken
  BY LauncherAssumption DEF Init, PortsTaken
<1>2. Tracked
  BY HelperOf DEF Init, Tracked, Runs
<1>3. Fresh /\ Past /\ Ending
  BY DEF Init, Fresh, Past, Ending
<1> QED BY <1>1, <1>2, <1>3, InitTypes DEF IInv

LEMMA Invariance == Spec => []IInv
<1>1. IInv /\ [Next]_vars => IInv'
  BY StepTypes, StepPorts, StepTracked, StepFresh, StepPast, StepEnding DEF IInv
<1> QED BY InitInv, <1>1, PTL DEF Spec

\* The state stays of its type: the loop over the drives stays among the
\* folder drives, and only a helper that listens serves a guest.
THEOREM TypeCorrect == Spec => []TypeOK
<1>1. IInv => TypeOK
  BY DEF IInv
<1> QED BY Invariance, <1>1, PTL

\* However a launch comes to its end, none of its helpers runs on: WinMain()
\* and start_helper() lose track of no helper, whatever the other launches,
\* the helpers, QEMU and the installer do.
THEOREM NoHelperLeft == Spec => []EndsClean
<1>1. IInv => EndsClean
  BY DEF IInv, Tracked, EndsClean
<1> QED BY Invariance, <1>1, PTL

\* When stop_edition() reports success, nothing it found still runs.
THEOREM SuccessIsComplete == Spec => []StopIsComplete
<1>1. IInv => StopIsComplete
  BY DEF IInv, Ending, StopIsComplete
<1> QED BY Invariance, <1>1, PTL

\* start_helper() takes a port from no file that was there before it cleared
\* the place.
THEOREM NoLeftoverBelieved == Spec => LeftoverNotBelieved
<1>1. IInv /\ [Next]_vars
        => [\A l \in Launches, d \in Drives : port'[l][d] # port[l][d] => l \in heard[d]]_vars
  <2> SUFFICES ASSUME IInv, Next, NEW l \in Launches, NEW d \in Drives, port'[l][d] # port[l][d]
               PROVE  l \in heard[d]
    OBVIOUS
  <2>1. PICK k \in Launches : SeesPort(k)
    <3>1. \E k \in Launches : Start(k) \/ Launcher(k)
      BY OthersKill DEF IInv
    <3> QED BY <3>1 DEF Start, Launcher, ClearReady, Spawn, SeesHelperDead, GivesUp, RunQemu,
                        SeesQemuEnd, StopHelper
  <2>2. l = k /\ d = at[k]
    BY <2>1 DEF SeesPort, IInv, TypeOK
  <2> QED BY <2>1, <2>2 DEF SeesPort, IInv, Fresh
<1> QED BY Invariance, <1>1, PTL DEF LeftoverNotBelieved, Spec
-----------------------------------------------------------------------------
(* Launches that meet no other *)

\* Of two launches that are about at once, or whose helpers are not ready yet,
\* both are rivals.
Apart ==
  \A l \in Launches \ rivals : Rival(l) => \A k \in Launches \ {l} : ~Rival(k)

\* A launch that waits sees the ready file of its own helper, unless it is one
\* of two rivals; before its helper is started it sees none of its own.
OwnFiles ==
  \A k, l \in Launches : pc[k] \in {"spawn", "wait"} /\ ready[at[k]] = l =>
    IF k = l THEN pc[k] = "wait" ELSE {k, l} \subseteq rivals

\* A port of another's helper is known to rivals only, and about rivals only.
OwnPorts ==
  \A k, l \in Launches, d \in Drives : port[k][d] = l /\ k # l => {k, l} \subseteq rivals

\* The ports that the loop over the drives has to have found.
LoopDone ==
  \A l \in Launches :
    /\ \A d \in Folders[l] :
         \/ pc[l] \in {"boot", "running"}
         \/ qemu[l] # "none"
         \/ pc[l] \in {"clear", "spawn", "wait"} /\ d < at[l]
         => port[l][d] # Nobody
    /\ Open(l) => pc[l] \in {"running", "killed"}
    /\ pc[l] = "off" => at[l] = C

\* A helper that is ready and whose guest is still to come.
Due(l, d) ==
  \/ pc[l] = "wait" /\ d = at[l] /\ ready[d] = l
  \/ port[l][d] # Nobody /\ (pc[l] \in {"clear", "spawn", "wait", "boot"} \/ qemu[l] = "started")

Free(l, d) == helper[<<l, d>>] = "listening" /\ client[<<l, d>>] = Nobody

\* It listens, and nobody else has come.
KeptFree ==
  stop = "idle" => \A l \in Launches \ rivals, d \in Drives : Due(l, d) => Free(l, d)

Served == Apart /\ OwnFiles /\ OwnPorts /\ LoopDone /\ KeptFree /\ EveryDriveServed

-----------------------------------------------------------------------------
\* Where a launch goes.
LEMMA PlaceWay ==
  ASSUME TypeOK, Next, NEW l \in Launches
  PROVE  \/ UNCHANGED <<pc[l], at[l], port[l]>>
         \/ pc[l] # "off" /\ pc'[l] = "killed" /\ UNCHANGED <<at[l], port[l]>>
         \/ Start(l) \/ Launcher(l)
<1>1. ASSUME NEW m \in Launches, l # m, Start(m) \/ Launcher(m)
      PROVE  UNCHANGED <<pc[l], at[l], port[l]>>
  BY <1>1 DEF Start, Launcher, ClearReady, Spawn, SeesPort, SeesHelperDead, GivesUp, RunQemu,
              SeesQemuEnd, StopHelper, NextDrive, ToStop, TypeOK
<1>2. CASE ~\E m \in Launches : Start(m) \/ Launcher(m)
  BY <1>2, OthersKill
<1> QED BY <1>1, <1>2

\* What becomes of a QEMU.
LEMMA QemuWay ==
  ASSUME TypeOK, Next, NEW l \in Launches
  PROVE  \/ UNCHANGED qemu[l]
         \/ RunQemu(l) /\ pc[l] = "boot" /\ qemu'[l] = "started" /\ pc'[l] = "running"
         \/ QemuJoins(l) /\ qemu[l] = "started" /\ qemu'[l] = "joined"
         \/ Open(l) /\ qemu'[l] = "gone"
<1>1. CASE UNCHANGED qemu
  BY <1>1
<1>2. ASSUME NEW m \in Launches, Start(m) \/ Launcher(m) \/ QemuJoins(m) \/ QemuEnds(m) \/ Kill(m)
      PROVE  \/ UNCHANGED qemu[l]
             \/ RunQemu(l) /\ pc[l] = "boot" /\ qemu'[l] = "started" /\ pc'[l] = "running"
             \/ QemuJoins(l) /\ qemu[l] = "started" /\ qemu'[l] = "joined"
             \/ Open(l) /\ qemu'[l] = "gone"
  <2>1. CASE Start(m) \/ Launcher(m)
    BY <2>1, LauncherWay DEF RunQemu, TypeOK
  <2>2. CASE QemuJoins(m)
    BY <2>2 DEF QemuJoins, Open, TypeOK
  <2>3. CASE QemuEnds(m) \/ Kill(m)
    BY <2>3 DEF QemuEnds, Kill, Open, TypeOK
  <2> QED BY <1>2, <2>1, <2>2, <2>3
<1>3. CASE Helper \/ Snapshot \/ Stopped
  BY <1>3, <1>1 DEF Helper, Announce, HelperFails, SessionOver, Snapshot, Stopped
<1>4. ASSUME NEW p \in todo, StopOne(p), ~UNCHANGED qemu
      PROVE  UNCHANGED qemu[l] \/ (Open(l) /\ qemu'[l] = "gone")
  <2>1. p \in Live /\ p[1] = "qemu" /\ qemu' = [qemu EXCEPT ![p[2]] = "gone"]
    BY <1>4 DEF StopOne, Terminate
  <2>2. p[2] \in Launches /\ Open(p[2])
    BY <2>1 DEF Live
  <2> QED BY <2>1, <2>2 DEF TypeOK
<1> QED BY <1>1, <1>2, <1>3, <1>4 DEF Next, Installer

\* Who writes a ready file.
LEMMA ReadyWay ==
  ASSUME TypeOK, Next, NEW d \in Drives
  PROVE  \/ UNCHANGED ready[d]
         \/ ready'[d] = Nobody
         \/ \E k \in Launches : Announce(k, d) /\ ready'[d] = k
<1>1. CASE UNCHANGED ready
  BY <1>1
<1>2. ASSUME NEW l \in Launches, ready' = [ready EXCEPT ![at[l]] = Nobody]
      PROVE  UNCHANGED ready[d] \/ ready'[d] = Nobody
  BY <1>2 DEF TypeOK
<1>3. ASSUME NEW k \in Launches, NEW e \in Drives, Announce(k, e)
      PROVE  UNCHANGED ready[d] \/ (Announce(k, d) /\ ready'[d] = k)
  <2>1. UNCHANGED ready \/ ready' = [ready EXCEPT ![e] = k]
    BY <1>3 DEF Announce
  <2> QED BY <1>3, <2>1 DEF TypeOK
<1>4. CASE \E l \in Launches : Start(l) \/ Launcher(l) \/ QemuJoins(l) \/ QemuEnds(l) \/ Kill(l)
  BY <1>4, <1>1, <1>2 DEF Start, Launcher, ClearReady, Spawn, SeesPort, SeesHelperDead, GivesUp,
                          RunQemu, SeesQemuEnd, StopHelper, QemuJoins, QemuEnds, Kill, helperVars
<1>5. CASE Helper
  BY <1>5, <1>1, <1>3 DEF Helper, HelperFails, SessionOver
<1>6. CASE Installer
  BY <1>6, <1>1 DEF Installer, Snapshot, Stopped, StopOne, helperVars
<1> QED BY <1>4, <1>5, <1>6 DEF Next

LEMMA RivalsGrow ==
  ASSUME TypeOK, [Next]_vars PROVE rivals \subseteq rivals'
  BY DEF Next, Start, Launcher, ClearReady, Spawn, SeesPort, SeesHelperDead, GivesUp, RunQemu,
         SeesQemuEnd, StopHelper, QemuJoins, QemuEnds, Kill, Helper, Announce, HelperFails,
         SessionOver, Installer, Snapshot, Stopped, StopOne, vars

\* A helper is not ready where its launcher has just started it, nowhere else.
LEMMA StartingBorn ==
  ASSUME TypeOK, Next, NEW m \in Launches, NEW d \in Drives, helper'[<<m, d>>] = "starting"
  PROVE  helper[<<m, d>>] = "starting" \/ Spawn(m)
<1> USE HelperOf DEF helperVars
<1>1. ASSUME NEW h \in Helpers, NEW v \in {"none", "listening"}, helper' = [helper EXCEPT ![h] = v]
      PROVE  helper[<<m, d>>] = "starting"
  BY <1>1 DEF TypeOK
<1>2. CASE UNCHANGED helper
  BY <1>2
<1>3. ASSUME NEW l \in Launches, Spawn(l) PROVE helper[<<m, d>>] = "starting" \/ Spawn(m)
  BY <1>3 DEF Spawn, TypeOK
<1>4. ASSUME NEW l \in Launches, GivesUp(l) \/ StopHelper(l) PROVE helper[<<m, d>>] = "starting"
  <2>1. <<l, at[l]>> \in Helpers
    BY DEF TypeOK
  <2>2. UNCHANGED helper \/ helper' = [helper EXCEPT ![<<l, at[l]>>] = "none"]
    BY <1>4 DEF GivesUp, StopHelper, End
  <2> QED BY <2>1, <2>2, <1>1
<1>5. ASSUME NEW l \in Launches, Start(l) \/ ClearReady(l) \/ SeesPort(l) \/ SeesHelperDead(l)
                                 \/ RunQemu(l) \/ SeesQemuEnd(l) \/ QemuJoins(l) \/ QemuEnds(l)
                                 \/ Kill(l)
      PROVE  helper[<<m, d>>] = "starting"
  <2>1. UNCHANGED helper
    BY <1>5 DEF Start, ClearReady, SeesPort, SeesHelperDead, RunQemu, SeesQemuEnd, QemuJoins,
                QemuEnds, Kill
  <2> QED BY <2>1
<1>6. CASE Helper
  <2> PICK k \in Launches, e \in Drives : Announce(k, e) \/ HelperFails(<<k, e>>) \/ SessionOver(k, e)
    BY <1>6 DEF Helper
  <2>1. \/ UNCHANGED helper
        \/ \E v \in {"none", "listening"} : helper' = [helper EXCEPT ![<<k, e>>] = v]
    BY DEF Announce, HelperFails, SessionOver, End
  <2> QED BY <2>1, <1>1
<1>7. CASE Installer
  <2>1. ASSUME NEW p \in todo, StopOne(p), ~UNCHANGED helper PROVE helper[<<m, d>>] = "starting"
    <3>1. p \in Live /\ p[1] = "helper" /\ End(<<p[2], p[3]>>)
      BY <2>1 DEF StopOne, Terminate
    <3>2. <<p[2], p[3]>> \in Helpers
      BY <3>1 DEF Live, Helpers
    <3> QED BY <3>1, <3>2, <1>1 DEF End
  <2> QED BY <1>7, <1>2, <2>1 DEF Installer, Snapshot, Stopped
<1> QED BY <1>3, <1>4, <1>5, <1>6, <1>7 DEF Next, Launcher

\* Only the start of a launch makes it one that others meet.
LEMMA RivalBorn ==
  ASSUME TypeOK, Next, NEW k \in Launches, Rival(k)', ~Rival(k)
  PROVE  Start(k)
<1>1. ~Active(k) /\ \A d \in Drives : helper[<<k, d>>] # "starting"
  BY DEF Rival
<1>2. CASE Active(k)'
  BY <1>1, <1>2, PlaceWay DEF Active, Launcher, ClearReady, Spawn, SeesPort, SeesHelperDead,
                              GivesUp, RunQemu, SeesQemuEnd, StopHelper
<1>3. ASSUME NEW d \in Drives, helper'[<<k, d>>] = "starting" PROVE FALSE
  BY <1>1, <1>3, StartingBorn DEF Spawn, Active
<1> QED BY <1>2, <1>3 DEF Rival

LEMMA StepApart == ASSUME IInv, Served, Next PROVE Apart'
<1> USE DEF IInv, Served
<1> SUFFICES ASSUME NEW l \in Launches, l \notin rivals', Rival(l)',
                    NEW k \in Launches, k # l, Rival(k)'
             PROVE  FALSE
  BY DEF Apart
<1>1. l \notin rivals
  BY RivalsGrow
<1>2. CASE ~Rival(l)
  <2>1. Start(l)
    BY <1>2, RivalBorn
  <2>2. {j \in Launches : Rival(j)} = {}
    BY <2>1 DEF Start
  <2>3. Start(k)
    BY <2>2, RivalBorn
  <2> QED BY <2>1, <2>3 DEF Start, TypeOK
<1>3. CASE Rival(l) /\ ~Rival(k)
  <2>1. Start(k)
    BY <1>3, RivalBorn
  <2> QED BY <1>3, <2>1 DEF Start
<1> QED BY <1>1, <1>2, <1>3 DEF Apart

LEMMA StepOwnFiles == ASSUME IInv, Served, Next PROVE OwnFiles'
<1> USE NumbersOf DEF IInv, Served
<1> SUFFICES ASSUME NEW k \in Launches, NEW l \in Launches,
                    pc'[k] \in {"spawn", "wait"}, ready'[at'[k]] = l
             PROVE  IF k = l THEN pc'[k] = "wait" ELSE {k, l} \subseteq rivals'
  BY DEF OwnFiles
<1>1. rivals \subseteq rivals' /\ l # Nobody
  BY RivalsGrow, LauncherAssumption
<1>2. /\ at'[k] = at[k] /\ pc[k] \in {"spawn", "wait"}
      /\ pc[k] = "wait" => pc'[k] = "wait"
  <2>1. CASE Start(k)
    BY <2>1 DEF Start, TypeOK
  <2>2. CASE ClearReady(k)
    BY <2>2, <1>1 DEF ClearReady, TypeOK
  <2>3. CASE Launcher(k) /\ ~ClearReady(k)
    BY <2>3, LoopGoesUp DEF Launcher, Spawn, SeesPort, SeesHelperDead, GivesUp, RunQemu,
                SeesQemuEnd, StopHelper, ToStop, TypeOK
  <2> QED BY <2>1, <2>2, <2>3, PlaceWay
<1>3. CASE UNCHANGED ready[at[k]]
  BY <1>1, <1>2, <1>3 DEF OwnFiles
<1>4. CASE Announce(l, at[k])
  <2>1. helper[<<l, at[k]>>] = "starting"
    BY <1>4 DEF Announce
  <2>2. Rival(l) /\ Rival(k)
    BY <1>2, <2>1 DEF Rival, Active
  <2>3. CASE k = l
    <3>1. pc'[k] = pc[k]
      BY <1>4 DEF Announce, launchVars
    <3>2. at[k] \in Nat
      OBVIOUS
    <3>3. pc[k] # "spawn"
      BY <2>1, <2>3, <3>2 DEF Tracked, Runs, PortsTaken
    <3> QED BY <1>2, <2>3, <3>1, <3>3
  <2>4. CASE k # l
    BY <1>1, <2>2, <2>4 DEF Apart
  <2> QED BY <2>3, <2>4
<1> QED BY <1>1, <1>2, <1>3, <1>4, ReadyWay

LEMMA StepOwnPorts == ASSUME IInv, Served, Next PROVE OwnPorts'
<1> USE DEF IInv, Served
<1> SUFFICES ASSUME NEW k \in Launches, NEW l \in Launches, NEW d \in Drives,
                    port'[k][d] = l, k # l
             PROVE  {k, l} \subseteq rivals'
  BY DEF OwnPorts
<1>1. CASE UNCHANGED port[k]
  BY <1>1, RivalsGrow DEF OwnPorts
<1>2. CASE SeesPort(k)
  <2>1. pc[k] = "wait" /\ port' = [port EXCEPT ![k][at[k]] = ready[at[k]]]
    BY <1>2 DEF SeesPort
  <2>2. port[k][d] = l \/ ready[at[k]] = l
    BY <2>1 DEF TypeOK
  <2>3. {k, l} \subseteq rivals
    BY <2>1, <2>2 DEF OwnPorts, OwnFiles
  <2> QED BY <2>3, RivalsGrow
<1> QED BY <1>1, <1>2, PlaceWay DEF Start, Launcher, ClearReady, Spawn, SeesHelperDead, GivesUp,
                                    RunQemu, SeesQemuEnd, StopHelper

LEMMA StepLoopDone == ASSUME IInv, Served, Next PROVE LoopDone'
<1> USE NumbersOf DEF IInv, Served
<1> SUFFICES ASSUME NEW l \in Launches
             PROVE  /\ \A d \in Folders[l] :
                         \/ pc'[l] \in {"boot", "running"}
                         \/ qemu'[l] # "none"
                         \/ pc'[l] \in {"clear", "spawn", "wait"} /\ d < at'[l]
                         => port'[l][d] # Nobody
                    /\ Open(l)' => pc'[l] \in {"running", "killed"}
                    /\ pc'[l] = "off" => at'[l] = C
  BY DEF LoopDone

<1>0. Folders[l] \subseteq Drives
  BY LauncherAssumption
<1>1. qemu'[l] # "none" => qemu[l] # "none" \/ (pc[l] = "boot" /\ pc'[l] = "running" /\ RunQemu(l))
  BY QemuWay DEF Open
<1>2. Open(l)' => Open(l) \/ (pc[l] = "boot" /\ pc'[l] = "running")
  BY QemuWay DEF Open
<1>3. CASE UNCHANGED <<pc[l], at[l], port[l]>> \/ (pc'[l] = "killed" /\ UNCHANGED port[l])
  BY <1>0, <1>1, <1>2, <1>3 DEF LoopDone
<1>4. CASE Start(l)
  <2>1. pc[l] = "off" /\ at'[l] = at[l] /\ port'[l] = port[l] /\ pc'[l] = "clear" /\ UNCHANGED qemu
    BY <1>4 DEF Start, TypeOK
  <2>2. qemu[l] = "none"
    BY <2>1 DEF Past
  <2>3. \A d \in Folders[l] : ~(d < at'[l])
    BY <1>0, <2>1, LauncherAssumption DEF LoopDone
  <2> QED BY <2>1, <2>2, <2>3 DEF Open
<1>5. CASE Launcher(l)
  <2>1. CASE SeesPort(l)
    <3>1. /\ pc[l] = "wait" /\ port' = [port EXCEPT ![l][at[l]] = ready[at[l]]]
          /\ ready[at[l]] # Nobody /\ UNCHANGED qemu
      BY <2>1 DEF SeesPort
    <3>2. qemu[l] = "none"
      BY <3>1 DEF Past
    <3>3. \A d \in Drives : port'[l][d] = IF d = at[l] THEN ready[at[l]] ELSE port[l][d]
      BY <3>1 DEF TypeOK
    <3>4. pc'[l] \in {"clear", "boot"}
      BY <2>1, LoopGoesUp DEF SeesPort, TypeOK
    <3>5. ASSUME NEW d \in Folders[l], pc'[l] = "boot" \/ d < at'[l], ~(d <= at[l]) PROVE FALSE
      <4>1. d \in Nat /\ at[l] \in Nat /\ d > at[l]
        BY <1>0, <3>5
      <4>2. d \in Later(l)
        BY <4>1 DEF Later
      <4>3. at'[l] = Min(Later(l)) /\ pc'[l] = "clear"
        BY <2>1, <4>2 DEF SeesPort, NextDrive, TypeOK
      <4>4. Min(Later(l)) <= d /\ Min(Later(l)) \in Nat
        BY <4>1, <4>2, LaterDrive
      <4> QED BY <3>5, <4>1, <4>3, <4>4
    <3>6. \A d \in Folders[l] : d <= at[l] => port'[l][d] # Nobody
      <4> TAKE d \in Folders[l]
      <4>1. d \in Nat /\ at[l] \in Nat /\ d \in Drives
        BY <1>0
      <4> QED BY <3>1, <3>3, <4>1 DEF LoopDone
    <3> QED BY <3>1, <3>2, <3>4, <3>5, <3>6 DEF Open
  <2>2. CASE ClearReady(l) \/ (Spawn(l) /\ ~ToStop(l)) \/ (RunQemu(l) /\ ~ToStop(l))
    <3>1. /\ UNCHANGED <<at, port>> /\ pc[l] \notin {"stop", "ended"}
          /\ pc'[l] \in {"spawn", "wait"} => pc[l] \in {"clear", "spawn"}
          /\ pc'[l] = "running" => pc[l] = "boot"
          /\ pc'[l] \in {"spawn", "wait", "running"}
      BY <2>2 DEF ClearReady, Spawn, RunQemu, TypeOK
    <3>2. Open(l)' => pc'[l] = "running"
      BY <1>2, <2>2, <3>1 DEF LoopDone, ClearReady, Spawn, RunQemu
    <3> QED BY <1>0, <1>1, <3>1, <3>2 DEF LoopDone
  <2>3. CASE ToStop(l) /\ UNCHANGED port /\ ~Open(l) /\ ~(pc'[l] = "running")
    <3>1. pc'[l] = "stop"
      BY <2>3 DEF ToStop, TypeOK
    <3>2. ~Open(l)' /\ (qemu'[l] # "none" => qemu[l] # "none")
      BY <1>1, <1>2, <2>3, <3>1
    <3> QED BY <1>0, <2>3, <3>1, <3>2 DEF LoopDone
  <2>4. CASE Spawn(l) \/ RunQemu(l) \/ SeesHelperDead(l) \/ GivesUp(l) \/ SeesQemuEnd(l)
    <3>1. UNCHANGED port /\ ~Open(l)
      BY <2>4 DEF Spawn, RunQemu, SeesHelperDead, GivesUp, SeesQemuEnd, LoopDone, Open
    <3>2. ToStop(l) => pc'[l] = "stop"
      BY DEF ToStop, TypeOK
    <3> QED BY <2>2, <2>3, <2>4, <3>1, <3>2 DEF SeesHelperDead, GivesUp, SeesQemuEnd
  <2>5. CASE StopHelper(l)
    <3>1. UNCHANGED <<port, qemu>> /\ pc[l] = "stop" /\ pc'[l] \in {"stop", "ended"}
      BY <2>5 DEF StopHelper, TypeOK
    <3> QED BY <1>0, <3>1 DEF LoopDone, Open
  <2> QED BY <1>5, <2>1, <2>2, <2>4, <2>5 DEF Launcher
<1> QED BY <1>3, <1>4, <1>5, PlaceWay

\* As long as the installer has not come, a helper changes with what it does
\* itself, what its launcher does, or a QEMU that joins it.
LEMMA HelperWay ==
  ASSUME IInv, Next, stop' = "idle", NEW l \in Launches, NEW d \in Drives
  PROVE  \/ UNCHANGED <<helper[<<l, d>>], client[<<l, d>>]>>
         \/ Spawn(l) /\ pc'[l] = "wait" /\ d = at[l]
         \/ (GivesUp(l) \/ StopHelper(l)) /\ d = at[l]
         \/ Announce(l, d) \/ HelperFails(<<l, d>>) \/ SessionOver(l, d)
         \/ \E k \in Launches : QemuJoins(k) /\ client[<<l, d>>] = Nobody /\ port[k][d] = l
<1> USE HelperOf DEF IInv, helperVars
<1>1. CASE UNCHANGED <<helper, client>>
  BY <1>1
<1>2. ASSUME NEW k \in Launches, Spawn(k)
      PROVE  \/ UNCHANGED <<helper[<<l, d>>], client[<<l, d>>]>>
             \/ Spawn(l) /\ pc'[l] = "wait" /\ d = at[l]
  <2>1. UNCHANGED client
    BY <1>2 DEF Spawn
  <2>2. CASE UNCHANGED helper
    BY <2>1, <2>2
  <2>3. CASE /\ helper' = [helper EXCEPT ![<<k, at[k]>>] = "starting"]
             /\ pc' = [pc EXCEPT ![k] = "wait"]
    BY <1>2, <2>1, <2>3 DEF TypeOK
  <2> QED BY <1>2, <2>2, <2>3 DEF Spawn
<1>3. ASSUME NEW k \in Launches, NEW e \in Drives, End(<<k, e>>)
      PROVE  UNCHANGED <<helper[<<l, d>>], client[<<l, d>>]>> \/ (l = k /\ d = e)
  BY <1>3 DEF End, TypeOK
<1>4. ASSUME NEW k \in Launches, GivesUp(k) \/ StopHelper(k)
      PROVE  \/ UNCHANGED <<helper[<<l, d>>], client[<<l, d>>]>>
             \/ (GivesUp(l) \/ StopHelper(l)) /\ d = at[l]
  <2>1. at[k] \in Drives
    BY DEF TypeOK
  <2>2. End(<<k, at[k]>>) \/ UNCHANGED <<helper, client>>
    BY <1>4 DEF GivesUp, StopHelper
  <2> QED BY <1>4, <2>1, <2>2, <1>3
<1>5. ASSUME NEW k \in Launches, Start(k) \/ ClearReady(k) \/ SeesPort(k) \/ SeesHelperDead(k)
                                 \/ RunQemu(k) \/ SeesQemuEnd(k) \/ QemuEnds(k) \/ Kill(k)
      PROVE  UNCHANGED <<helper, client>>
  BY <1>5 DEF Start, ClearReady, SeesPort, SeesHelperDead, RunQemu, SeesQemuEnd, QemuEnds, Kill
<1>6. ASSUME NEW k \in Launches, QemuJoins(k)
      PROVE  \/ UNCHANGED <<helper[<<l, d>>], client[<<l, d>>]>>
             \/ client[<<l, d>>] = Nobody /\ port[k][d] = l
  <2> DEFINE mine == {<<port[k][e], e>> : e \in {f \in Drives : port[k][f] # Nobody}}
  <2>1. UNCHANGED client
        \/ client' = [h \in Helpers |-> IF h \in mine /\ client[h] = Nobody THEN k ELSE client[h]]
    BY <1>6 DEF QemuJoins
  <2>2. <<l, d>> \in mine => port[k][d] = l
    OBVIOUS
  <2>3. UNCHANGED helper
    BY <1>6 DEF QemuJoins
  <2> HIDE DEF mine
  <2> QED BY <2>1, <2>2, <2>3 DEF TypeOK
<1>7. ASSUME NEW k \in Launches, NEW e \in Drives,
             Announce(k, e) \/ HelperFails(<<k, e>>) \/ SessionOver(k, e)
      PROVE  \/ UNCHANGED <<helper[<<l, d>>], client[<<l, d>>]>>
             \/ Announce(l, d) \/ HelperFails(<<l, d>>) \/ SessionOver(l, d)
  <2>1. CASE l = k /\ d = e
    BY <1>7, <2>1
  <2>2. CASE ~(l = k /\ d = e)
    <3>1. <<l, d>> # <<k, e>> /\ <<l, d>> \in Helpers /\ <<k, e>> \in Helpers
      BY <2>2
    <3> QED BY <1>7, <3>1 DEF Announce, HelperFails, SessionOver, End, TypeOK
  <2> QED BY <2>1, <2>2
<1>8. ~Installer
  BY DEF Installer, Snapshot, Stopped, StopOne
<1> QED BY <1>1, <1>2, <1>4, <1>5, <1>6, <1>7, <1>8 DEF Next, Launcher, Helper

\* A helper becomes due when it writes its ready file.
LEMMA DueBorn ==
  ASSUME IInv, Served, Next, NEW l \in Launches, l \notin rivals, NEW d \in Drives,
         Due(l, d)', ~Due(l, d)
  PROVE  Announce(l, d)
<1> USE NumbersOf DEF IInv, Served
<1>1. l # Nobody
  BY LauncherAssumption
<1>2. CASE pc'[l] = "wait" /\ d = at'[l] /\ ready'[d] = l
  <2>1. CASE UNCHANGED ready[d]
    <3>1. UNCHANGED <<pc[l], at[l], port[l]>> \/ Start(l) \/ Launcher(l)
      BY <1>2, PlaceWay
    <3>2. CASE Spawn(l)
      <4>1. pc[l] = "spawn" /\ at'[l] = at[l]
        BY <1>2, <3>2 DEF Spawn, ToStop, TypeOK
      <4> QED BY <1>2, <2>1, <4>1 DEF OwnFiles
    <3>3. CASE (Start(l) \/ Launcher(l)) /\ ~Spawn(l)
      BY <1>2, <3>3, LoopGoesUp DEF Start, Launcher, ClearReady, SeesPort, SeesHelperDead, GivesUp,
                 RunQemu, SeesQemuEnd, StopHelper, ToStop, TypeOK
    <3> QED BY <1>2, <2>1, <3>1, <3>2, <3>3 DEF Due
  <2> QED BY <1>1, <1>2, <2>1, ReadyWay
<1>3. CASE port'[l][d] # Nobody /\ (pc'[l] \in {"clear", "spawn", "wait", "boot"} \/ qemu'[l] = "started")
  <2>1. CASE port[l][d] = Nobody
    <3>1. SeesPort(l)
      BY <1>3, <2>1, PlaceWay DEF Start, Launcher, ClearReady, Spawn, SeesHelperDead, GivesUp,
                                  RunQemu, SeesQemuEnd, StopHelper
    <3>2. pc[l] = "wait" /\ d = at[l] /\ ready[d] # Nobody
      BY <1>3, <2>1, <3>1 DEF SeesPort, TypeOK
    <3>3. ready[d] = l
      BY <3>2 DEF OwnFiles, TypeOK
    <3> QED BY <3>2, <3>3 DEF Due
  <2>2. CASE port[l][d] # Nobody
    <3>1. pc[l] \notin {"clear", "spawn", "wait", "boot"} /\ qemu[l] # "started"
      BY <2>2 DEF Due
    <3>2. qemu'[l] # "started"
      BY <3>1, QemuWay DEF Open
    <3>3. pc[l] # "off"
      BY <2>2 DEF PortsTaken
    <3>4. pc'[l] \notin {"clear", "spawn", "wait", "boot"}
      BY <3>1, <3>3, PlaceWay DEF Start, Launcher, ClearReady, Spawn, SeesPort, SeesHelperDead,
                                  GivesUp, RunQemu, SeesQemuEnd, StopHelper, ToStop, TypeOK
    <3> QED BY <1>3, <3>2, <3>4
  <2> QED BY <2>1, <2>2
<1> QED BY <1>2, <1>3 DEF Due

LEMMA StepKeptFree == ASSUME IInv, Served, Next PROVE KeptFree'
<1> USE NumbersOf, HelperOf DEF IInv, Served
<1> SUFFICES ASSUME stop' = "idle", NEW l \in Launches, l \notin rivals', NEW d \in Drives, Due(l, d)'
             PROVE  Free(l, d)'
  BY DEF KeptFree
<1>1. l \notin rivals
  BY RivalsGrow
<1>2. stop = "idle"
  <2>1. CASE Helper \/ \E k \in Launches : QemuJoins(k) \/ QemuEnds(k) \/ Kill(k)
    BY <2>1 DEF Helper, Announce, HelperFails, SessionOver, QemuJoins, QemuEnds, Kill, stopVars
  <2>2. CASE Installer
    BY <2>2 DEF Installer, Snapshot, Stopped, StopOne
  <2> QED BY <2>1, <2>2, LauncherWay DEF Next, stopVars
<1>3. CASE ~Due(l, d)
  <2>1. Announce(l, d)
    BY <1>1, <1>3, DueBorn
  <2> QED BY <2>1 DEF Announce, Free, TypeOK
<1>4. CASE Due(l, d)
  <2>1. Free(l, d)
    BY <1>1, <1>2, <1>4 DEF KeptFree
  <2>2. ~(Spawn(l) /\ d = at[l])
    <3>1. Runs(<<l, d>>)
      BY <2>1 DEF Free, Runs
    <3>2. d \in Nat
      OBVIOUS
    <3> QED BY <3>1, <3>2 DEF Spawn, Tracked, PortsTaken
  <2>3. ~((GivesUp(l) \/ StopHelper(l)) /\ d = at[l])
    <3>1. ASSUME GivesUp(l) \/ StopHelper(l) PROVE FALSE
      <4>1. pc'[l] \in {"stop", "ended"} /\ UNCHANGED qemu /\ pc[l] \in {"wait", "stop"}
        BY <3>1 DEF GivesUp, StopHelper, ToStop, TypeOK
      <4>2. qemu'[l] # "started"
        BY <4>1 DEF LoopDone, Open
      <4> QED BY <4>1, <4>2 DEF Due
    <3> QED BY <3>1
  <2>4. ~(Announce(l, d) \/ HelperFails(<<l, d>>) \/ SessionOver(l, d))
    BY <2>1 DEF Free, Announce, HelperFails, SessionOver
  <2>5. ASSUME NEW k \in Launches, QemuJoins(k), port[k][d] = l PROVE FALSE
    <3>1. k = l
      BY <1>1, <2>5 DEF OwnPorts
    <3>2. qemu[l] = "started" /\ qemu'[l] # "started" /\ UNCHANGED pc
      BY <2>5, <3>1 DEF QemuJoins, launchVars, TypeOK
    <3>3. pc[l] \in {"running", "killed"}
      BY <3>2 DEF LoopDone, Open
    <3> QED BY <3>2, <3>3 DEF Due
  <2>6. UNCHANGED <<helper[<<l, d>>], client[<<l, d>>]>>
    BY <2>2, <2>3, <2>4, <2>5, HelperWay
  <2> QED BY <2>1, <2>6 DEF Free
<1> QED BY <1>3, <1>4

LEMMA StepServed == ASSUME IInv, Served, Next PROVE EveryDriveServed'
<1> USE NumbersOf, HelperOf DEF IInv, Served
<1> SUFFICES ASSUME stop' = "idle", NEW l \in Launches, l \notin rivals', qemu'[l] = "joined",
                    NEW d \in Folders[l]
             PROVE  client'[<<l, d>>] = l
  BY DEF EveryDriveServed
<1>1. l \notin rivals /\ d \in Drives
  BY RivalsGrow, LauncherAssumption
<1>2. stop = "idle"
  <2>1. CASE Helper \/ \E k \in Launches : QemuJoins(k) \/ QemuEnds(k) \/ Kill(k)
    BY <2>1 DEF Helper, Announce, HelperFails, SessionOver, QemuJoins, QemuEnds, Kill, stopVars
  <2>2. CASE Installer
    BY <2>2 DEF Installer, Snapshot, Stopped, StopOne
  <2> QED BY <2>1, <2>2, LauncherWay DEF Next, stopVars
<1>3. CASE qemu[l] = "joined"
  <2>1. client[<<l, d>>] = l /\ l # Nobody
    BY <1>1, <1>2, <1>3, LauncherAssumption DEF EveryDriveServed
  <2>2. helper[<<l, d>>] = "listening"
    BY <1>1, <2>1 DEF TypeOK
  <2>3. pc[l] \in {"running", "killed"}
    BY <1>3 DEF LoopDone, Open
  <2>4. ~(Spawn(l) \/ GivesUp(l) \/ StopHelper(l))
    BY <2>3 DEF Spawn, GivesUp, StopHelper
  <2>5. ~(Announce(l, d) \/ HelperFails(<<l, d>>) \/ SessionOver(l, d))
    BY <1>3, <2>1, <2>2 DEF Announce, HelperFails, SessionOver
  <2> QED BY <1>1, <2>1, <2>4, <2>5, HelperWay
<1>4. CASE qemu[l] # "joined"
  <2> DEFINE mine == {<<port[l][e], e>> : e \in {f \in Drives : port[l][f] # Nobody}}
  <2>1. QemuJoins(l) /\ qemu[l] = "started"
    BY <1>4, QemuWay DEF RunQemu
  <2>2. client' = [h \in Helpers |-> IF h \in mine /\ client[h] = Nobody THEN l ELSE client[h]]
    BY <2>1 DEF QemuJoins, TypeOK
  <2>3. port[l][d] # Nobody
    BY <2>1 DEF LoopDone
  <2>4. port[l][d] = l
    BY <1>1, <2>3 DEF OwnPorts, TypeOK
  <2>5. <<l, d>> \in mine
    BY <1>1, <2>3, <2>4
  <2>6. client[<<l, d>>] = Nobody
    BY <1>1, <1>2, <2>1, <2>3 DEF KeptFree, Due, Free
  <2> QED BY <1>1, <2>2, <2>5, <2>6
<1> QED BY <1>3, <1>4

LEMMA InitServed == Init => Served
<1> SUFFICES ASSUME Init PROVE Served
  OBVIOUS
<1>1. Apart
  BY HelperOf DEF Init, Apart, Rival, Active
<1>2. OwnFiles /\ OwnPorts /\ KeptFree /\ EveryDriveServed
  BY LauncherAssumption DEF Init, OwnFiles, OwnPorts, KeptFree, Due, EveryDriveServed
<1>3. LoopDone
  BY LauncherAssumption DEF Init, LoopDone, Open
<1> QED BY <1>1, <1>2, <1>3 DEF Served

LEMMA ServedInvariance == Spec => []Served
<1>1. ASSUME IInv, Served, UNCHANGED vars PROVE Served'
  BY <1>1 DEF vars, launchVars, helperVars, stopVars, Served, Apart, Rival, Active, OwnFiles,
              OwnPorts, LoopDone, Open, KeptFree, Due, Free, EveryDriveServed
<1>2. IInv /\ Served /\ [Next]_vars => Served'
  BY <1>1, StepApart, StepOwnFiles, StepOwnPorts, StepLoopDone, StepKeptFree, StepServed DEF Served
<1> QED BY InitServed, Invariance, <1>2, PTL DEF Spec

\* The guest of a launch that met no other of its edition has every folder
\* drive of its settings, each from the helper that was started for it: neither
\* a helper that died, a late ready file, nor what an earlier launch left
\* behind can put another in its place.
THEOREM EveryDriveIsServed == Spec => []EveryDriveServed
<1>1. Served => EveryDriveServed
  BY DEF Served
<1> QED BY ServedInvariance, <1>1, PTL
=============================================================================
