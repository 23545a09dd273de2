---------------------------- MODULE LinuxProofs -----------------------------
(* Theorems about shinogi.sh in one terminal (ShinogiSh), and about drive C  *)
(* of the native launcher (DriveC).                                          *)
EXTENDS ShinogiSh, DriveC, Recursion, SequenceTheorems, TLAPS

-----------------------------------------------------------------------------
(* ShinogiSh *)

\* One terminal, in which guests are started in the background, or run in a window.
OneTerminal ==
  /\ \E s : Shells = {s}
  /\ \A t \in Habits, s \in Shells : "run" \in t[s] => "start" \notin t[s]
  /\ ~MayGoUnseen

\* The pid files name what they are for, whether it still runs or not.
FilesName ==
  /\ pidfile # NoPid => proc[pidfile] \in {"qemu", "dead"}
  /\ hostfsPid # NoPid => proc[hostfsPid] \notin {"none", "qemu"}
  /\ \A p \in abandoned : proc[p] \notin {"none", "qemu"}

NoHelper == Helpers \subseteq abandoned
NoGuest == Guests = {}
InWindow(s) == "run" \in typed[s]

\* Which command it is, and where it goes back to.
Command(s) ==
  /\ pc[s] = "idle" \/ cmd[s] \in typed[s]
  /\ then[s] = "check" /\ pc[s] # "idle" => cmd[s] = "start"
  /\ pc[s] \in {"clear", "spawn", "record", "wait", "guest"} => cmd[s] \in {"start", "run"}
  /\ pc[s] \in {"record", "wait"} => child[s] \in Pids

ShellTyped == TypeOK /\ \A s \in Shells : Command(s)

\* What its pid file is when nothing else is to be known.
Typed(s) ==
  /\ InWindow(s) /\ pc[s] # "foreground" => NoGuest
  /\ pc[s] \in {"stop helper", "forget helper"} => pidfile = NoPid \/ InWindow(s)
  /\ pc[s] = "boot" => pidfile # NoPid

\* Which helpers and guests there may be where the command in s is.
Left(s) ==
  /\ pc[s] \in {"idle", "reap", "stop", "check"} /\ (pidfile = NoPid \/ InWindow(s)) => NoHelper
  /\ pc[s] = "check" /\ pidfile # NoPid => Running
  /\ pc[s] \in {"clear", "spawn", "forget helper"} => NoHelper
  /\ pc[s] \in {"clear", "spawn", "record", "wait", "guest", "cleanup", "boot failed",
                "stop helper", "forget helper"} => NoGuest

\* What $! is.
Child(s) ==
  /\ pc[s] \in {"record", "wait", "guest"} =>
       /\ child[s] \in Pids /\ proc[child[s]] \notin {"none", "qemu"}
       /\ Helpers \ abandoned \subseteq {child[s]}
  /\ pc[s] \in {"wait", "guest"} => hostfsPid = child[s]
  /\ pc[s] \in {"note", "foreground"} =>
       child[s] \in Pids /\ proc[child[s]] \in {"qemu", "dead"} /\ Guests \subseteq {child[s]}
  /\ pc[s] \in {"halt", "quit", "kill"} => child[s] = pidfile /\ pidfile # NoPid

\* A ready file is the work of this helper, or of one that was given up on.
Served(s) ==
  \/ pc[s] # "spawn" /\ proc[child[s]] \in {"listening", "killed", "dead"}
  \/ \E p \in abandoned : proc[p] # "starting"

ReadyFile(s) ==
  pc[s] = "guest" \/ (ready /\ pc[s] \in {"spawn", "record", "wait"}) => Served(s)

\* GuestRecorded and HelperRecorded, of the one terminal.
Recorded(s) ==
  /\ \A p \in Guests : p = pidfile \/ (pc[s] \in {"note", "foreground"} /\ child[s] = p)
  /\ \A p \in Helpers \ abandoned : p = hostfsPid \/ (pc[s] = "record" /\ child[s] = p)

Safe(s) == FilesName /\ Recorded(s) /\ Typed(s) /\ Left(s) /\ Child(s) /\ ReadyFile(s)

-----------------------------------------------------------------------------

\* A process is started under a number that was free.
LEMMA SpawnTypes ==
  ASSUME TypeOK, NEW s \in Shells, NEW k \in Kinds, Spawn(s, k)
  PROVE  /\ proc' \in [Pids -> Kinds] /\ child' \in [Shells -> Pids \cup {NoPid}]
         /\ child'[s] \in Pids /\ \A r \in Shells \ {s} : child'[r] = child[r]
BY DEF TypeOK, Spawn, Pids

LEMMA MoveTypes ==
  ASSUME ShellTyped, NEW s \in Shells, pc[s] # "idle", NEW to \in Places,
         pc' = [pc EXCEPT ![s] = to], UNCHANGED <<typed, cmd>>, then' = then \/ then' = [then EXCEPT ![s] = "idle"],
         proc' \in [Pids -> Kinds], {pidfile', hostfsPid'} \subseteq Pids \cup {NoPid},
         ready' \in BOOLEAN, abandoned' \subseteq Pids, child' \in [Shells -> Pids \cup {NoPid}],
         \A r \in Shells \ {s} : child'[r] = child[r],
         to \in {"record", "wait"} => child'[s] \in Pids,
         to \in {"check", "note", "boot", "boot failed"} => cmd[s] = "start",
         to = "foreground" => cmd[s] = "run",
         to \in {"clear", "spawn", "record", "wait", "guest"} => cmd[s] \in {"start", "run"}
  PROVE  ShellTyped'
<1> USE DEF ShellTyped, TypeOK, Command
<1>1. pc' \in [Shells -> Places] /\ then' \in [Shells -> {"idle", "check"}] /\ pc'[s] = to
      /\ (then'[s] = "check" => then[s] = "check")
      /\ \A r \in Shells \ {s} : pc'[r] = pc[r] /\ then'[r] = then[r]
  OBVIOUS
<1>2. ASSUME NEW r \in Shells
      PROVE  /\ Command(r)'
             /\ pc'[r] \in {"check", "note", "boot", "boot failed"} => cmd'[r] = "start"
             /\ pc'[r] = "foreground" => cmd'[r] = "run"
  <2>1. CASE r = s
    BY <1>1, <2>1
  <2>2. CASE r # s
    BY <1>1, <2>2
  <2> QED BY <2>1, <2>2
<1> HIDE DEF Command
<1> QED BY <1>1, <1>2

LEMMA StepTypes ==
  ASSUME ShellTyped, NEW s \in Shells, Step(s)
  PROVE  ShellTyped'
<1> USE DEF Go, Jump, files
<1>0. /\ pc[s] \in Places /\ cmd[s] \in AllCommands /\ then[s] \in {"idle", "check"} /\ Command(s)
      /\ proc \in [Pids -> Kinds] /\ {pidfile, hostfsPid} \subseteq Pids \cup {NoPid}
      /\ ready \in BOOLEAN /\ abandoned \subseteq Pids /\ child \in [Shells -> Pids \cup {NoPid}]
      /\ child[s] \in Pids \cup {NoPid}
      /\ pc[s] \in {"check", "note", "boot", "boot failed"} => cmd[s] = "start"
      /\ pc[s] = "foreground" => cmd[s] = "run"
  BY DEF ShellTyped, TypeOK
<1>1. CASE Type(s)
  <2>1. PICK c \in typed[s] :
          /\ cmd' = [cmd EXCEPT ![s] = c] /\ pc' = [pc EXCEPT ![s] = Entry(c)]
          /\ then' = [then EXCEPT ![s] = IF c = "start" THEN "check" ELSE "idle"]
    BY <1>1 DEF Type
  <2>2. c \in AllCommands /\ UNCHANGED <<proc, files, abandoned, child, typed>>
    BY <1>1, ShellsAssumption DEF ShellTyped, TypeOK, Type
  <2>3. /\ cmd' \in [Shells -> AllCommands] /\ pc' \in [Shells -> Places]
        /\ then' \in [Shells -> {"idle", "check"}]
        /\ pc'[s] \in {"stop", "clear", "reap"} /\ cmd'[s] = c /\ (pc'[s] = "clear" => c = "run")
        /\ (then'[s] = "check" => c = "start")
        /\ \A r \in Shells \ {s} : pc'[r] = pc[r] /\ cmd'[r] = cmd[r] /\ then'[r] = then[r]
    BY <2>1, <2>2 DEF ShellTyped, TypeOK, Places, Entry
  <2>4. ASSUME NEW r \in Shells
        PROVE  /\ Command(r)'
               /\ pc'[r] \in {"check", "note", "boot", "boot failed"} => cmd'[r] = "start"
               /\ pc'[r] = "foreground" => cmd'[r] = "run"
    BY <2>1, <2>2, <2>3 DEF ShellTyped, TypeOK, Command
  <2> QED BY <2>2, <2>3, <2>4 DEF ShellTyped, TypeOK
<1>2. CASE Reap(s)
  BY <1>0, <1>2, MoveTypes DEF Reap, Places, Command
<1>3. CASE Check(s)
  BY <1>0, <1>3, MoveTypes DEF Check, Places
<1>4. CASE Clear(s)
  BY <1>0, <1>4, MoveTypes DEF Clear, Places, Command
<1>5. CASE SpawnHelper(s)
  BY <1>0, <1>5, MoveTypes, SpawnTypes DEF SpawnHelper, Places, Kinds, Command, ShellTyped
<1>6. CASE Record(s)
  BY <1>0, <1>6, MoveTypes DEF Record, Places, Command
<1>7. CASE WaitOver(s)
  <2>1. PICK to \in {"guest", "idle"} : pc' = [pc EXCEPT ![s] = to]
    BY <1>7 DEF WaitOver
  <2>2. /\ child[s] \in Pids /\ abandoned' \in {abandoned, abandoned \cup {child[s]}}
        /\ pc[s] = "wait" /\ cmd[s] \in {"start", "run"} /\ hostfsPid' \in {hostfsPid, NoPid}
        /\ UNCHANGED <<typed, proc, pidfile, ready, cmd, then, child>>
    BY <1>0, <1>7 DEF WaitOver, Command
  <2>3. to \in Places /\ abandoned' \subseteq Pids /\ hostfsPid' \in Pids \cup {NoPid} /\ pc[s] # "idle"
    BY <1>0, <2>2 DEF Places
  <2> QED BY <1>0, <2>1, <2>2, <2>3, MoveTypes
<1>8. CASE Interrupt(s)
  BY <1>0, <1>8, MoveTypes DEF Interrupt, Places, Command
<1>9. CASE SpawnGuest(s)
  BY <1>0, <1>9, MoveTypes, SpawnTypes DEF SpawnGuest, Places, Kinds, Command, ShellTyped
<1>10. CASE Note(s)
  BY <1>0, <1>10, MoveTypes DEF Note, Places
<1>11. CASE BootOver(s)
  <2>1. PICK to \in {"idle", "boot failed"} : pc' = [pc EXCEPT ![s] = to]
    BY <1>11 DEF BootOver
  <2>2. /\ pc[s] = "boot" /\ UNCHANGED <<proc, pidfile, hostfsPid, ready, abandoned, cmd, then, child, typed>>
        /\ cmd[s] = "start" /\ to \in Places
    BY <1>0, <1>11 DEF BootOver, Places
  <2> QED BY <1>0, <2>1, <2>2, MoveTypes
<1>17. CASE BootFailed(s)
  BY <1>0, <1>17, MoveTypes DEF BootFailed, Places
<1>18. CASE ForegroundOver(s)
  BY <1>0, <1>18, MoveTypes DEF ForegroundOver, Places
<1>12. CASE Stop(s)
  <2>1. child' \in [Shells -> Pids \cup {NoPid}]
    BY <1>0, <1>12 DEF Stop
  <2>2. PICK to \in {"halt", "quit", "cleanup"} : pc' = [pc EXCEPT ![s] = to]
    BY <1>12 DEF Stop
  <2>3. /\ pc[s] = "stop" /\ UNCHANGED <<proc, pidfile, hostfsPid, ready, abandoned, cmd, then, typed>>
        /\ \A r \in Shells \ {s} : child'[r] = child[r]
    BY <1>12 DEF Stop, ShellTyped, TypeOK
  <2> QED BY <1>0, <2>1, <2>2, <2>3, MoveTypes DEF Places
<1>13. CASE HaltOver(s) \/ QuitOver(s)
  <2>1. PICK to \in {"cleanup", "quit", "kill"} : pc' = [pc EXCEPT ![s] = to]
    BY <1>13 DEF HaltOver, QuitOver
  <2>2. /\ pc[s] # "idle" /\ UNCHANGED <<proc, pidfile, hostfsPid, ready, abandoned, cmd, then, child, typed>>
        /\ to \in Places
    BY <1>13 DEF HaltOver, QuitOver, Places
  <2> QED BY <1>0, <2>1, <2>2, MoveTypes
<1>19. CASE Cleanup(s)
  BY <1>0, <1>19, MoveTypes DEF Cleanup, Places
<1>14. CASE Kill(s)
  <2>1. proc' \in [Pids -> Kinds]
    BY <1>0, <1>14 DEF Kill, Kinds
  <2> QED BY <1>0, <1>14, <2>1, MoveTypes DEF Kill, Places
<1>15. CASE StopHelper(s)
  <2>1. proc' \in [Pids -> Kinds]
    BY <1>0, <1>15 DEF StopHelper, Kinds
  <2> QED BY <1>0, <1>15, <2>1, MoveTypes DEF StopHelper, Places, Command
<1>16. CASE ForgetHelper(s)
  BY <1>0, <1>16, MoveTypes DEF ForgetHelper, Places, Command
<1> QED BY <1>1, <1>2, <1>3, <1>4, <1>5, <1>6, <1>7, <1>8, <1>9, <1>10, <1>11, <1>12, <1>13, <1>14, <1>15, <1>16,
  <1>17, <1>18, <1>19 DEF Step

\* What the types say where the command in s is.
Here(s) ==
  /\ pc[s] \in Places /\ cmd[s] \in AllCommands /\ then[s] \in {"idle", "check"} /\ Command(s)
  /\ pc[s] \in {"check", "note", "boot", "boot failed"} => cmd[s] = "start"
  /\ pc[s] = "foreground" => cmd[s] = "run"
  /\ NoPid \notin Pids /\ Helpers \subseteq Pids /\ Guests \subseteq Pids

LEMMA HereTypes ==
  ASSUME ShellTyped, NEW s \in Shells
  PROVE  Here(s)
<1>1. NoPid \notin Pids /\ Helpers \subseteq Pids /\ Guests \subseteq Pids
  BY ShellsAssumption DEF Pids, NoPid, Helpers, Guests
<1> QED BY <1>1 DEF ShellTyped, TypeOK, Here

\* A command that goes on, the processes and the files as they are.
LEMMA JumpsKeep ==
  ASSUME ShellTyped, NEW s \in Shells, Shells = {s}, InWindow(s) => "start" \notin typed[s], Safe(s),
         Type(s) \/ Reap(s) \/ Check(s) \/ BootOver(s) \/ ForegroundOver(s) \/ HaltOver(s) \/ QuitOver(s)
  PROVE  Safe(s)'
<1>0. Here(s)
  BY HereTypes
<1>1. /\ UNCHANGED <<proc, pidfile, hostfsPid, ready, abandoned, child, typed>>
      /\ \A p : Alive(p)' = Alive(p)
      /\ Helpers' = Helpers /\ Guests' = Guests /\ Running' = Running
  BY DEF Type, Reap, Check, BootOver, ForegroundOver, HaltOver, QuitOver, Jump, files, Alive, Helpers, Guests, Running
<1>2. CASE Type(s)
  <2>1. pc[s] = "idle" /\ pc'[s] \in {"stop", "clear", "reap"} /\ (pc'[s] = "clear" => InWindow(s))
    BY <1>2 DEF Type, Go, Entry, InWindow, ShellTyped, TypeOK
  <2> QED BY <1>0, <1>1, <2>1 DEF Here, Safe, FilesName, Recorded, Typed, Left, Child, ReadyFile, NoHelper, NoGuest, InWindow
<1>3. CASE Reap(s)
  <2>1. /\ pc[s] = "reap" /\ cmd[s] \in typed[s]
        /\ \/ pidfile # NoPid /\ ~Running /\ pc'[s] = "cleanup"
           \/ pidfile = NoPid /\ pc'[s] = then[s]
           \/ Running /\ pc'[s] = then[s]
    BY <1>0, <1>3 DEF Here, Reap, Jump, Go, ShellTyped, TypeOK, Command
  <2>2. then[s] = "check" => ~InWindow(s)
    BY <1>0, <2>1 DEF Here, Command
  <2>3. pidfile # NoPid /\ ~Running => NoGuest
    BY <2>1 DEF Safe, Recorded, Running, Alive, NoGuest
  <2> QED BY <1>0, <1>1, <2>1, <2>2, <2>3 DEF Here, Safe, FilesName, Recorded, Typed, Left, Child, ReadyFile, NoHelper, NoGuest, InWindow
<1>4. CASE Check(s)
  <2>1. /\ pc[s] = "check" /\ pc'[s] = IF Running THEN "idle" ELSE "clear"
    BY <1>0, <1>4 DEF Here, Check, Jump, Go, ShellTyped, TypeOK, Command
  <2>2. ~Running => NoGuest
    BY <2>1 DEF Safe, Recorded, Running, Alive, NoGuest
  <2> QED BY <1>0, <1>1, <2>1, <2>2 DEF Here, Safe, FilesName, Recorded, Typed, Left, Child, ReadyFile, NoHelper, NoGuest, InWindow
<1>5. CASE BootOver(s)
  <2>1. /\ pc[s] = "boot" /\ (pc'[s] = "idle" \/ (pc'[s] = "boot failed" /\ ~Running))
    BY <1>0, <1>5 DEF Here, BootOver, Jump, Go, ShellTyped, TypeOK, Command
  <2>2. ~Running => NoGuest
    BY <2>1 DEF Safe, Recorded, Running, Alive, NoGuest
  <2>3. ~InWindow(s)
    BY <1>0, <2>1 DEF Here, Command
  <2> QED BY <1>0, <1>1, <2>1, <2>2, <2>3 DEF Here, Safe, FilesName, Recorded, Typed, Left, Child, ReadyFile, NoHelper, NoGuest, InWindow
<1>6. CASE ForegroundOver(s)
  <2>1. /\ pc[s] = "foreground" /\ pc'[s] = "stop helper" /\ ~Alive(child[s])
    BY <1>0, <1>6 DEF Here, ForegroundOver, Jump, Go, ShellTyped, TypeOK, Command
  <2>2. NoGuest /\ InWindow(s)
    BY <1>0, <2>1 DEF Here, Safe, Child, Alive, NoGuest, InWindow, Command
  <2> QED BY <1>0, <1>1, <2>1, <2>2 DEF Here, Safe, FilesName, Recorded, Typed, Left, Child, ReadyFile, NoHelper, NoGuest, InWindow
<1>7. CASE HaltOver(s) \/ QuitOver(s)
  <2>1. /\ pc[s] \in {"halt", "quit"}
        /\ pc'[s] \in {"quit", "kill"} \/ (pc'[s] = "cleanup" /\ ~Alive(child[s]))
    BY <1>0, <1>7 DEF Here, HaltOver, QuitOver, Jump, Go, ShellTyped, TypeOK, Command
  <2>2. pc'[s] = "cleanup" => NoGuest
    BY <2>1 DEF Safe, Child, Recorded, Alive, NoGuest
  <2> QED BY <1>0, <1>1, <2>1, <2>2 DEF Here, Safe, FilesName, Recorded, Typed, Left, Child, ReadyFile, NoHelper, NoGuest, InWindow
<1> QED BY <1>2, <1>3, <1>4, <1>5, <1>6, <1>7

\* A command that writes its files, the processes as they are.
LEMMA WritesKeep ==
  ASSUME ShellTyped, NEW s \in Shells, Shells = {s}, InWindow(s) => "start" \notin typed[s], Safe(s),
         Clear(s) \/ Record(s) \/ WaitOver(s) \/ Interrupt(s) \/ Note(s) \/ BootFailed(s) \/ Stop(s)
           \/ Cleanup(s) \/ ForgetHelper(s)
  PROVE  Safe(s)'
<1>0. Here(s)
  BY HereTypes
<1>1. /\ UNCHANGED <<proc, typed>> /\ \A p : Alive(p)' = Alive(p)
      /\ Helpers' = Helpers /\ Guests' = Guests
  BY DEF Clear, Record, WaitOver, Interrupt, Note, BootFailed, Stop, Cleanup, ForgetHelper, Jump, Alive, Helpers, Guests
<1> USE DEF Safe, FilesName, Recorded, Typed, Left, Child, ReadyFile, NoHelper, NoGuest
<1>2. CASE Clear(s)
  <2>1. /\ pc[s] = "clear" /\ pc'[s] = "spawn" /\ ~ready' /\ UNCHANGED <<pidfile, hostfsPid, abandoned, child>>
    BY <1>2 DEF Clear, Go, ShellTyped, TypeOK
  <2> QED BY <1>0, <1>1, <2>1 DEF Here, InWindow
<1>3. CASE Record(s)
  <2>1. /\ pc[s] = "record" /\ pc'[s] = "wait" /\ hostfsPid' = child[s]
        /\ UNCHANGED <<pidfile, ready, abandoned, child>>
    BY <1>3 DEF Record, Go, ShellTyped, TypeOK
  <2> QED BY <1>0, <1>1, <2>1 DEF Here, InWindow, Served
<1>4. CASE WaitOver(s)
  <2>1. /\ pc[s] = "wait" /\ UNCHANGED <<pidfile, ready, child>>
        /\ \/ ready /\ pc'[s] = "guest" /\ UNCHANGED <<hostfsPid, abandoned>>
           \/ ~Alive(hostfsPid) /\ pc'[s] = "idle" /\ hostfsPid' = NoPid /\ abandoned' = abandoned
           \/ pc'[s] = "idle" /\ abandoned' = abandoned \cup {child[s]} /\ UNCHANGED hostfsPid
    BY <1>4 DEF WaitOver, Jump, Go, files, ShellTyped, TypeOK
  <2>2. ~Alive(hostfsPid) => NoHelper
    BY <2>1 DEF Alive
  <2> QED BY <1>0, <1>1, <2>1, <2>2 DEF Here, InWindow, Served
<1>5. CASE Interrupt(s)
  <2>1. /\ pc[s] = "wait" /\ UNCHANGED <<pidfile, hostfsPid, ready, child>>
        /\ pc'[s] = "idle" /\ abandoned' = abandoned \cup {child[s]}
    BY <1>5 DEF Interrupt, Go, files, ShellTyped, TypeOK
  <2> QED BY <1>0, <1>1, <2>1 DEF Here, InWindow
<1>6. CASE Note(s)
  <2>1. /\ pc[s] = "note" /\ pc'[s] = "boot" /\ pidfile' = child[s] /\ UNCHANGED <<hostfsPid, ready, abandoned, child>>
    BY <1>6 DEF Note, Go, ShellTyped, TypeOK
  <2> QED BY <1>0, <1>1, <2>1 DEF Here, InWindow
<1>7. CASE BootFailed(s)
  <2>1. /\ pc[s] = "boot failed" /\ pc'[s] = "stop helper" /\ pidfile' = NoPid
        /\ UNCHANGED <<hostfsPid, ready, abandoned, child>>
    BY <1>7 DEF BootFailed, Go, ShellTyped, TypeOK
  <2> QED BY <1>0, <1>1, <2>1 DEF Here, InWindow
<1>8. CASE Stop(s)
  <2>1. /\ pc[s] = "stop" /\ UNCHANGED <<pidfile, hostfsPid, ready, abandoned>> /\ child'[s] = pidfile
        /\ IF Running THEN pc'[s] \in {"halt", "quit"} ELSE pc'[s] = "cleanup"
    BY <1>8 DEF Stop, Go, files, ShellTyped, TypeOK
  <2>2. (~Running => NoGuest) /\ (Running => pidfile # NoPid)
    BY <1>0, <2>1 DEF Running, Alive, Here
  <2> QED BY <1>0, <1>1, <2>1, <2>2 DEF Here, InWindow
<1>9. CASE Cleanup(s)
  <2>1. /\ pc[s] = "cleanup" /\ pc'[s] = "stop helper" /\ pidfile' = NoPid
        /\ UNCHANGED <<hostfsPid, ready, abandoned, child>>
    BY <1>9 DEF Cleanup, Go, ShellTyped, TypeOK
  <2> QED BY <1>0, <1>1, <2>1 DEF Here, InWindow
<1>10. CASE ForgetHelper(s)
  <2>1. /\ pc[s] = "forget helper" /\ pc'[s] = then[s] /\ hostfsPid' = NoPid /\ ~ready' /\ cmd[s] \in typed[s]
        /\ UNCHANGED <<pidfile, abandoned, child>>
    BY <1>0, <1>10 DEF ForgetHelper, Go, ShellTyped, TypeOK, Here, Command
  <2>2. then[s] = "check" => ~InWindow(s)
    BY <1>0, <2>1 DEF Command, Here
  <2> QED BY <1>0, <1>1, <2>1, <2>2 DEF Here, InWindow
<1> QED BY <1>2, <1>3, <1>4, <1>5, <1>6, <1>7, <1>8, <1>9, <1>10

\* A command that starts a process, or kills one.
LEMMA ProcessesKeep ==
  ASSUME ShellTyped, NEW s \in Shells, Shells = {s}, InWindow(s) => "start" \notin typed[s], Safe(s),
         SpawnHelper(s) \/ SpawnGuest(s) \/ Kill(s) \/ StopHelper(s)
  PROVE  Safe(s)'
<1>0. Here(s)
  BY HereTypes
<1> USE DEF Safe, FilesName, Recorded, Typed, Left, Child, ReadyFile, NoHelper, NoGuest
<1>1. CASE SpawnHelper(s)
  <2>1. /\ pc[s] = "spawn" /\ pc'[s] = "record" /\ UNCHANGED <<pidfile, hostfsPid, ready, abandoned, typed>>
    BY <1>1 DEF SpawnHelper, Go, files, ShellTyped, TypeOK
  <2>2. PICK p \in Pids : /\ proc[p] = "none" /\ proc'[p] = "starting" /\ child'[s] = p
                          /\ \A q \in Pids \ {p} : proc'[q] = proc[q]
    BY <1>1 DEF SpawnHelper, Spawn, ShellTyped, TypeOK
  <2>3. Helpers' = Helpers \cup {p} /\ Guests' = Guests
    BY <2>2 DEF Helpers, Guests
  <2>4. FilesName'
    BY <2>1, <2>2 DEF ShellTyped, TypeOK
  <2>5. ReadyFile(s)'
    BY <2>1, <2>2 DEF Served, ShellTyped, TypeOK
  <2> HIDE DEF FilesName, ReadyFile
  <2> QED BY <1>0, <2>1, <2>2, <2>3, <2>4, <2>5 DEF Here, InWindow
<1>2. CASE SpawnGuest(s)
  <2>1. /\ pc[s] = "guest" /\ UNCHANGED <<pidfile, hostfsPid, ready, abandoned, typed>>
        /\ pc'[s] = IF cmd[s] = "run" THEN "foreground" ELSE "note"
    BY <1>2 DEF SpawnGuest, Go, files, ShellTyped, TypeOK
  <2>2. PICK p \in Pids : /\ proc[p] = "none" /\ proc'[p] = "qemu" /\ child'[s] = p
                          /\ \A q \in Pids \ {p} : proc'[q] = proc[q]
    BY <1>2 DEF SpawnGuest, Spawn, ShellTyped, TypeOK
  <2>3. Helpers' = Helpers /\ Guests' = {p}
    BY <2>1, <2>2 DEF Helpers, Guests
  <2>4. FilesName'
    BY <2>1, <2>2 DEF ShellTyped, TypeOK
  <2>5. pc'[s] = "foreground" \/ ~InWindow(s)
    BY <1>0, <2>1 DEF Here, Command
  <2> HIDE DEF FilesName
  <2> QED BY <1>0, <2>1, <2>2, <2>3, <2>4, <2>5 DEF Here, InWindow
<1>3. CASE Kill(s)
  <2>1. /\ pc[s] = "kill" /\ pc'[s] = "cleanup" /\ UNCHANGED <<pidfile, hostfsPid, ready, abandoned, child, typed>>
        /\ child[s] = pidfile /\ pidfile # NoPid
    BY <1>3 DEF Kill, Go, files, ShellTyped, TypeOK
  <2>2. proc'[pidfile] = "dead" /\ \A q \in Pids \ {pidfile} : proc'[q] = proc[q]
    BY <1>0, <1>3, <2>1 DEF Kill, Alive, Helpers, Guests, ShellTyped, TypeOK
  <2>3. Helpers' = Helpers /\ Guests' = {}
    BY <2>1, <2>2 DEF Helpers, Guests
  <2>4. FilesName'
    BY <2>1, <2>2 DEF ShellTyped, TypeOK
  <2> HIDE DEF FilesName
  <2> QED BY <1>0, <2>1, <2>3, <2>4 DEF Here, InWindow
<1>4. CASE StopHelper(s)
  <2>1. /\ pc[s] = "stop helper" /\ UNCHANGED <<pidfile, hostfsPid, ready, abandoned, child, typed>>
        /\ pc'[s] = IF hostfsPid = NoPid THEN then[s] ELSE "forget helper"
        /\ cmd[s] \in typed[s]
    BY <1>0, <1>4 DEF StopHelper, Go, files, ShellTyped, TypeOK, Here, Command
  <2>2. /\ Helpers' = Helpers \ {hostfsPid} /\ Guests' = {}
        /\ \A q \in Pids : proc'[q] \in {proc[q], "killed"} /\ (q # hostfsPid => proc'[q] = proc[q])
                           /\ (proc'[q] # proc[q] => q \in Helpers)
    BY <1>0, <1>4, <2>1 DEF StopHelper, Alive, Helpers, Guests, Here, ShellTyped, TypeOK
  <2>3. NoHelper'
    BY <2>1, <2>2
  <2>4. FilesName'
    BY <1>0, <2>1, <2>2 DEF ShellTyped, TypeOK, Helpers, Here
  <2>5. then[s] = "check" => ~InWindow(s)
    BY <1>0, <2>1 DEF Command, Here
  <2> HIDE DEF FilesName
  <2> QED BY <1>0, <2>1, <2>2, <2>3, <2>4, <2>5 DEF Here, InWindow
<1> QED BY <1>1, <1>2, <1>3, <1>4

\* A helper that listens, and a process that goes by itself.
LEMMA ProcessTypes ==
  ASSUME ShellTyped, NEW p \in Pids, HelperListens(p) \/ Dies(p)
  PROVE  ShellTyped'
<1>1. proc' \in [Pids -> Kinds] /\ ready' \in BOOLEAN /\ UNCHANGED <<pidfile, hostfsPid, abandoned, typed, pc, cmd, then, child>>
  BY DEF ShellTyped, TypeOK, HelperListens, Dies, shell, files, Kinds
<1>2. \A s \in Shells : Command(s)' = Command(s)
  BY <1>1 DEF Command
<1> HIDE DEF Command
<1> QED BY <1>1, <1>2 DEF ShellTyped, TypeOK

LEMMA HelperKeeps ==
  ASSUME ShellTyped, NEW s \in Shells, Shells = {s}, Safe(s), NEW p \in Pids, HelperListens(p)
  PROVE  Safe(s)'
<1>0. Here(s)
  BY HereTypes
<1>1. /\ proc[p] = "starting" /\ proc'[p] = "listening" /\ \A q \in Pids \ {p} : proc'[q] = proc[q]
      /\ Helpers' = Helpers /\ Guests' = Guests /\ Running' = Running /\ ready'
      /\ UNCHANGED <<pidfile, hostfsPid, abandoned, typed, pc, cmd, then, child>>
  BY DEF HelperListens, Helpers, Guests, Running, Alive, shell, ShellTyped, TypeOK
<1> USE DEF Safe
<1>2. FilesName'
  BY <1>1 DEF FilesName, ShellTyped, TypeOK
<1>3. Recorded(s)' /\ Typed(s)' /\ Left(s)'
  BY <1>1 DEF Recorded, Typed, Left, NoHelper, NoGuest, InWindow
<1>4. Child(s)'
  BY <1>1 DEF Child, NoHelper, NoGuest
<1>5. ReadyFile(s)'
  <2>1. p \in Helpers
    BY <1>1 DEF Helpers
  <2>2. CASE p \in abandoned
    BY <1>1, <2>2 DEF ReadyFile, Served
  <2>3. CASE p \notin abandoned
    <3>1. pc[s] \in {"record", "wait", "guest"} => p = child[s]
      BY <2>1, <2>3 DEF Child
    <3>2. pc[s] # "spawn"
      BY <2>1, <2>3 DEF Left, NoHelper
    <3> QED BY <1>1, <3>1, <3>2 DEF ReadyFile, Served
  <2> QED BY <2>2, <2>3
<1> QED BY <1>2, <1>3, <1>4, <1>5

LEMMA DeathKeeps ==
  ASSUME ShellTyped, NEW s \in Shells, Shells = {s}, ~MayGoUnseen, Safe(s), NEW p \in Pids, Dies(p)
  PROVE  Safe(s)'
<1>0. Here(s)
  BY HereTypes
<1>1. /\ p \in Helpers \cup Guests /\ proc'[p] = (IF proc[p] = "starting" THEN "failed" ELSE "dead")
      /\ \A q \in Pids \ {p} : proc'[q] = proc[q]
      /\ UNCHANGED <<pidfile, hostfsPid, ready, abandoned, typed, pc, cmd, then, child>>
      /\ proc[p] = "qemu" => pc[s] # "check"
  BY DEF Dies, Alive, shell, files, ShellTyped, TypeOK
<1>2. Helpers' = Helpers \ {p} /\ Guests' = Guests \ {p}
  BY <1>1 DEF Helpers, Guests
<1> USE DEF Safe
<1>3. FilesName'
  BY <1>1 DEF FilesName, ShellTyped, TypeOK, Helpers, Guests
<1>4. Recorded(s)' /\ Typed(s)'
  BY <1>1, <1>2 DEF Recorded, Typed, NoGuest, InWindow
<1>5. Left(s)'
  <2>1. pc[s] = "check" /\ pidfile # NoPid => Running'
    <3> SUFFICES ASSUME pc[s] = "check", pidfile # NoPid PROVE pidfile \in Guests'
      BY <1>1 DEF Running, Alive
    <3>1. pidfile \in Guests
      BY DEF Left, Running, Alive, FilesName, Helpers, Guests
    <3>2. pidfile # p
      BY <1>1, <3>1 DEF Guests
    <3> QED BY <1>2, <3>1, <3>2
  <2> QED BY <1>1, <1>2, <2>1 DEF Left, NoHelper, NoGuest, InWindow
<1>6. Child(s)'
  BY <1>1, <1>2 DEF Child, Helpers, Guests
<1>7. ReadyFile(s)'
  <2>1. \A q \in Pids : proc[q] # "starting" => proc'[q] # "starting"
    BY <1>1 DEF Helpers, Guests
  <2>2. \A q \in Pids : proc[q] \in {"listening", "killed", "dead"} => proc'[q] \in {"listening", "killed", "dead"}
    BY <1>1 DEF Helpers, Guests
  <2>3. Served(s) /\ pc[s] \in {"spawn", "record", "wait", "guest"} => Served(s)'
    <3>1. pc[s] \in {"record", "wait", "guest"} => child[s] \in Pids
      BY DEF Child
    <3>2. abandoned \subseteq Pids
      BY DEF ShellTyped, TypeOK
    <3> QED BY <1>1, <2>1, <2>2, <3>1, <3>2 DEF Served
  <2> QED BY <1>1, <2>3 DEF ReadyFile
<1> QED BY <1>3, <1>4, <1>5, <1>6, <1>7

-----------------------------------------------------------------------------

ShellInv == \A s \in Shells : Safe(s)

LEMMA ShellInitTypes == Init => ShellTyped
<1> SUFFICES ASSUME Init PROVE ShellTyped
  OBVIOUS
<1>1. {1, 2} \subseteq Pids
  BY ShellsAssumption DEF Pids
<1>2. proc \in [Pids -> Kinds] /\ {pidfile, hostfsPid} \subseteq Pids \cup {NoPid} /\ ready \in BOOLEAN
  BY <1>1 DEF Init, Kinds
<1> QED BY <1>2 DEF Init, ShellTyped, TypeOK, Command, Places, AllCommands

LEMMA ShellTypes == ShellTyped /\ [Next]_vars => ShellTyped'
<1> SUFFICES ASSUME ShellTyped, [Next]_vars PROVE ShellTyped'
  OBVIOUS
<1>1. CASE UNCHANGED vars
  BY <1>1 DEF vars, files, shell, ShellTyped, TypeOK, Command
<1> QED BY <1>1, StepTypes, ProcessTypes DEF Next

LEMMA ShellInitInv == Init => ShellInv
<1> SUFFICES ASSUME Init, NEW s \in Shells PROVE Safe(s)
  BY DEF ShellInv
<1>1. Helpers = {} /\ Guests = {} /\ pc[s] = "idle" /\ abandoned = {}
  BY DEF Init, Helpers, Guests
<1>2. FilesName
  BY ShellsAssumption DEF Init, FilesName, Pids, NoPid
<1> QED BY <1>1, <1>2 DEF Safe, Recorded, Typed, Left, Child, ReadyFile, NoHelper, NoGuest

LEMMA ShellInvKept == OneTerminal /\ ShellTyped /\ ShellInv /\ [Next]_vars => ShellInv'
<1> SUFFICES ASSUME OneTerminal, ShellTyped, ShellInv, [Next]_vars, NEW s \in Shells PROVE Safe(s)'
  BY DEF ShellInv
<1>1. Shells = {s} /\ ~MayGoUnseen /\ Safe(s) /\ (InWindow(s) => "start" \notin typed[s])
  BY DEF OneTerminal, ShellInv, InWindow, ShellTyped, TypeOK
<1>2. CASE Step(s)
  BY <1>1, <1>2, JumpsKeep, WritesKeep, ProcessesKeep DEF Step
<1>3. ASSUME NEW p \in Pids, HelperListens(p) \/ Dies(p) PROVE Safe(s)'
  BY <1>1, <1>3, HelperKeeps, DeathKeeps
<1>4. CASE UNCHANGED vars
  <2>1. UNCHANGED <<proc, pidfile, hostfsPid, ready, abandoned, typed, pc, cmd, then, child>>
    BY <1>4 DEF vars, files, shell
  <2>2. Helpers' = Helpers /\ Guests' = Guests /\ Running' = Running
    BY <2>1 DEF Helpers, Guests, Running, Alive
  <2>3. FilesName' /\ Recorded(s)' /\ Typed(s)' /\ Left(s)'
    BY <1>1, <2>1, <2>2 DEF Safe, FilesName, Recorded, Typed, Left, NoHelper, NoGuest, InWindow
  <2>4. Child(s)' /\ ReadyFile(s)'
    BY <1>1, <2>1, <2>2 DEF Safe, Child, ReadyFile, Served
  <2> QED BY <2>3, <2>4 DEF Safe

<1> QED BY <1>1, <1>2, <1>3, <1>4 DEF Next

LEMMA ShellSafe ==
  ASSUME OneTerminal, ShellTyped, ShellInv
  PROVE  GuestRecorded /\ HelperRecorded /\ NothingLeft /\ GuestComesSecond
<1>1. PICK s : Shells = {s}
  BY DEF OneTerminal
<1>2. Safe(s)
  BY <1>1 DEF ShellInv
<1> QED BY <1>1, <1>2 DEF Safe, Recorded, Left, ReadyFile, Served, NoHelper,
  GuestRecorded, HelperRecorded, NothingLeft, GuestComesSecond

\* The commands and their files have their types, in any number of terminals.
THEOREM ShellTypesHold == Spec => []TypeOK
<1>1. ShellTyped => TypeOK
  BY DEF ShellTyped
<1> QED BY ShellInitTypes, ShellTypes, <1>1, PTL DEF Spec

\* In one terminal, a guest in the background that runs is the one in qemu.pid.
THEOREM StopFindsTheGuest == OneTerminal => (Spec => []GuestRecorded)
<1> SUFFICES ASSUME OneTerminal PROVE Spec => []GuestRecorded
  OBVIOUS
<1>1. ShellTyped /\ ShellInv => GuestRecorded
  BY ShellSafe
<1>2. ShellTyped /\ ShellInv /\ [Next]_vars => ShellInv'
  BY ShellInvKept
<1> QED BY ShellInitTypes, ShellTypes, ShellInitInv, <1>1, <1>2, PTL DEF Spec

\* In one terminal, no command forgets a helper that runs but those it gives up on.
THEOREM HelperIsKnown == OneTerminal => (Spec => []HelperRecorded)
<1> SUFFICES ASSUME OneTerminal PROVE Spec => []HelperRecorded
  OBVIOUS
<1>1. ShellTyped /\ ShellInv => HelperRecorded
  BY ShellSafe
<1>2. ShellTyped /\ ShellInv /\ [Next]_vars => ShellInv'
  BY ShellInvKept
<1> QED BY ShellInitTypes, ShellTypes, ShellInitInv, <1>1, <1>2, PTL DEF Spec

\* In one terminal, no helper outlives the guest once the commands are done.
THEOREM NothingStays == OneTerminal => (Spec => []NothingLeft)
<1> SUFFICES ASSUME OneTerminal PROVE Spec => []NothingLeft
  OBVIOUS
<1>1. ShellTyped /\ ShellInv => NothingLeft
  BY ShellSafe
<1>2. ShellTyped /\ ShellInv /\ [Next]_vars => ShellInv'
  BY ShellInvKept
<1> QED BY ShellInitTypes, ShellTypes, ShellInitInv, <1>1, <1>2, PTL DEF Spec

\* In one terminal, the ready file of an earlier session never starts QEMU.
THEOREM StaleReadyIsNotBelieved == OneTerminal => (Spec => []GuestComesSecond)
<1> SUFFICES ASSUME OneTerminal PROVE Spec => []GuestComesSecond
  OBVIOUS
<1>1. ShellTyped /\ ShellInv => GuestComesSecond
  BY ShellSafe
<1>2. ShellTyped /\ ShellInv /\ [Next]_vars => ShellInv'
  BY ShellInvKept
<1> QED BY ShellInitTypes, ShellTypes, ShellInitInv, <1>1, <1>2, PTL DEF Spec

-----------------------------------------------------------------------------
(* DriveC *)

Lines == Sizes \cup {TooLarge, Comment} \cup Settings

\* What setres keeps of a file are lines of it.
LEMMA KeptLinesType ==
  ASSUME NEW f \in Seq(Lines)
  PROVE  KeptLines(f) \in Seq(Lines)
<1> DEFINE A == Seq(Lines)
           n == Len(f)
           next(k) == [x \in A |-> IF IsRes(f[k + 1]) \/ Len(x) = Keep THEN x ELSE Append(x, f[k + 1])]
           step == [k \in Nat |-> IF k + 1 \in 1..n THEN next(k) ELSE [x \in A |-> x]]
           keep[i \in 0..n] ==
             IF i = 0 THEN <<>>
             ELSE LET before == keep[i - 1]
                  IN  IF IsRes(f[i]) \/ Len(before) = Keep THEN before ELSE Append(before, f[i])
<1>1. n \in Nat /\ \A i \in 1..n : f[i] \in Lines
  OBVIOUS
<1>2. ASSUME NEW k \in Nat, k + 1 \in 1..n PROVE next(k) \in [A -> A]
  BY <1>1, <1>2
<1>3. step \in [Nat -> [A -> A]]
  <2> HIDE DEF next, n, A
  <2>1. [x \in A |-> x] \in [A -> A]
    OBVIOUS
  <2> QED BY <1>2, <2>1
<1>4. PICK g \in [0..n -> A] : g[0] = <<>> /\ \A k \in 1..n : g[k] = step[k - 1][g[k - 1]]
  <2>1. <<>> \in A
    OBVIOUS
  <2> HIDE DEF A, n, step
  <2>2. Iterates(A, <<>>, step, n)
    BY <1>1, <1>3, <2>1, NatRecursion
  <2> QED BY <2>2 DEF Iterates
<1> DEFINE body(h, i) == IF i = 0 THEN <<>>
             ELSE LET before == h[i - 1]
                  IN  IF IsRes(f[i]) \/ Len(before) = Keep THEN before ELSE Append(before, f[i])
<1>5. ASSUME NEW k \in 0..n PROVE g[k] = body(g, k)
  <2>1. CASE k # 0
    <3>1. k \in 1..n /\ k - 1 \in Nat /\ k - 1 \in 0..n /\ (k - 1) + 1 = k
      BY <1>1, <2>1
    <3> HIDE DEF n
    <3>2. g[k] = step[k - 1][g[k - 1]] /\ step[k - 1] = next(k - 1) /\ g[k - 1] \in A
      BY <1>4, <3>1
    <3> HIDE DEF A
    <3>3. g[k] = next(k - 1)[g[k - 1]]
      BY <3>2
    <3>4. g[k] = IF IsRes(f[k]) \/ Len(g[k - 1]) = Keep THEN g[k - 1] ELSE Append(g[k - 1], f[k])
      BY <3>1, <3>2, <3>3
    <3> QED BY <2>1, <3>4
  <2> QED BY <1>4, <2>1
<1>6. g = [i \in 0..n |-> body(g, i)]
  <2> HIDE DEF body
  <2>1. g = [i \in 0..n |-> g[i]]
    BY <1>4
  <2> QED BY <2>1, <1>5, Zenon
<1>7. keep = [i \in 0..n |-> body(keep, i)]
  BY <1>6
<1>8. KeptLines(f) = keep[n]
  BY DEF KeptLines
<1>9. ASSUME NEW k \in 0..n PROVE keep[k] \in A
  <2> HIDE DEF keep
  <2> DEFINE T == {j \in 0..n : keep[j] \notin A}
  <2>1. ASSUME T # {} PROVE FALSE
    <3>1. T \in SUBSET Nat
      BY <1>1
    <3>2. PICK j \in T : \A i \in T : j <= i
      BY <2>1, <3>1, LeastNat
    <3>3. j \in 0..n /\ keep[j] \notin A
      BY <3>2
    <3>4. j # 0
      <4>1. keep[0] = <<>>
        <5> HIDE DEF body, n
        <5>1. 0 \in 0..n
          BY <1>1
        <5>2. keep[0] = body(keep, 0)
          BY <1>7, <5>1
        <5> QED BY <5>2 DEF body
      <4>2. <<>> \in A
        OBVIOUS
      <4> QED BY <3>3, <4>1, <4>2
    <3>5. j - 1 \in 0..n /\ ~(j <= j - 1) /\ j \in 1..n
      BY <1>1, <3>3, <3>4
    <3>6. keep[j - 1] \in A
      BY <3>2, <3>5
    <3>7. keep[j] = IF IsRes(f[j]) \/ Len(keep[j - 1]) = Keep THEN keep[j - 1] ELSE Append(keep[j - 1], f[j])
      BY <1>7, <3>3, <3>4
    <3> HIDE DEF n
    <3>8. f[j] \in Lines
      BY <1>1, <3>5
    <3>9. Append(keep[j - 1], f[j]) \in A
      BY <3>6, <3>8
    <3> QED BY <3>3, <3>6, <3>7, <3>9
  <2> QED BY <2>1

<1> HIDE DEF keep, n
<1> QED BY <1>1, <1>8, <1>9

\* The first line with a size is the one setres writes.
LEMMA StoredReads ==
  ASSUME NEW f \in Seq(Lines), NEW s \in Sizes
  PROVE  Stored(f, s) \in Seq(Lines) /\ ReadSize(Stored(f, s)) = s
<1> DEFINE t == Stored(f, s)
           res == {i \in 1..Len(t) : IsRes(t[i])}
<1>1. KeptLines(f) \in Seq(Lines) /\ <<Comment, s>> \in Seq(Lines)
  BY KeptLinesType DEF Lines
<1>2. t \in Seq(Lines) /\ Len(t) >= 2 /\ t[1] = Comment /\ t[2] = s
  <2> HIDE DEF t
  <2>1. t = <<Comment, s>> \o KeptLines(f)
    BY DEF t, Stored
  <2> QED BY <1>1, <2>1, ConcatProperties
<1> HIDE DEF t
<1>3. 2 \in res /\ \A j \in res : 2 <= j
  BY <1>2, DriveAssumption DEF IsRes
<1>4. res \subseteq Nat /\ (CHOOSE i \in res : \A j \in res : i <= j) = 2
  BY <1>3
<1>5. ReadSize(t) = s
  BY <1>2, <1>3, <1>4 DEF ReadSize
<1> QED BY <1>2, <1>5 DEF t

-----------------------------------------------------------------------------

\* Types; and what setres is about to write has the size that was chosen.
DriveTyped ==
  /\ DriveTypeOK
  /\ store = NoStore \/ /\ store.text \in Seq(Lines) /\ store.size \in Sizes
                        /\ ReadSize(store.text) = store.size

\* A file of the user's is there, and no launch is going to write it, but for
\* one that could not read the folder.
FilesSafe == \A n \in kept \ relaid : drive[n] = "own" /\ ~Endangered(n)

\* The file says what setres has stored.
SizeStands == chosen # NoSize => ReadSize(ini) = chosen

DriveInv == DriveTyped /\ FilesSafe /\ SizeStands

LEMMA LaunchKeepsTypes ==
  ASSUME DriveTyped, NEW l \in Launchers, LaunchRuns(l)
  PROVE  DriveTyped'
<1> USE DEF DriveTyped, DriveTypeOK, Goes, LaunchSteps, Contents, folder, edits
<1>0. \A f : ReadSize(f) \in Sizes
  BY DriveAssumption DEF ReadSize
<1>1. CASE Looks(l)
  BY <1>1 DEF Looks, Unread
<1>2. CASE Lays(l)
  BY <1>2 DEF Lays
<1>3. ASSUME NEW n \in Shipped, Copies(l, n) PROVE DriveTyped'
  BY <1>3 DEF Copies
<1>4. CASE CopyEnds(l)
  BY <1>4 DEF CopyEnds
<1>5. CASE LooksUpSize(l)
  BY <1>0, <1>5 DEF LooksUpSize
<1>6. CASE FindsFirmware(l)
  BY <1>6, DriveAssumption DEF FindsFirmware
<1>7. CASE Ends(l)
  BY <1>7, DriveAssumption DEF Ends, NoStore
<1> QED BY <1>1, <1>2, <1>3, <1>4, <1>5, <1>6, <1>7 DEF LaunchRuns

LEMMA EditsKeepTypes ==
  ASSUME DriveTyped, SetRes \/ User
  PROVE  DriveTyped'
<1> USE DEF DriveTyped, DriveTypeOK, Contents, launchers, FilesOfC
<1>1. ASSUME NEW l \in Launchers, NEW s \in Sizes, Chooses(l, s) PROVE DriveTyped'
  <2>1. ini \in Seq(Lines)
    BY DEF Lines
  <2>2. Stored(ini, s) \in Seq(Lines) /\ ReadSize(Stored(ini, s)) = s
    BY <2>1, StoredReads
  <2>3. /\ store' = [by |-> l, text |-> Stored(ini, s), size |-> s]
        /\ drive' = [drive EXCEPT ![Ini] = "own"]
        /\ ini' = <<>> /\ chosen' = NoSize /\ had' \subseteq Settings
        /\ UNCHANGED <<bundled, there, place, cp, left, size, kept, relaid>>
    BY <1>1 DEF Chooses
  <2> QED BY <2>2, <2>3
<1>2. CASE Writes
  BY <1>2 DEF Writes, NoStore, Lines
<1>3. ASSUME NEW n \in FilesOfC, Edits(n) PROVE DriveTyped'
  BY <1>3 DEF Edits
<1>4. ASSUME NEW n \in FilesOfC, Deletes(n) PROVE DriveTyped'
  <2>1. /\ drive' \in [FilesOfC -> Contents]
        /\ kept' \subseteq FilesOfC /\ relaid' \subseteq kept' \cap Shipped
    BY <1>4 DEF Deletes
  <2>2. /\ (ini' = <<>> /\ chosen' = NoSize) \/ UNCHANGED <<ini, chosen>>
        /\ UNCHANGED <<bundled, there, place, cp, left, size, store, had>>
    BY <1>4 DEF Deletes
  <2> HIDE DEF FilesOfC, Contents
  <2>0. <<>> \in Seq(Sizes \cup {TooLarge, Comment} \cup Settings)
    OBVIOUS
  <2>3. ini' \in Seq(Sizes \cup {TooLarge, Comment} \cup Settings)
    BY <2>0, <2>2
  <2>4. chosen' \in Sizes \cup {NoSize}
    BY <2>2
  <2> QED BY <2>1, <2>2, <2>3, <2>4

<1>5. ASSUME NEW text \in Texts, EditsIni(text) PROVE DriveTyped'
  <2>1. text \in Seq(Sizes \cup {TooLarge, Comment} \cup Settings)
    BY DriveAssumption
  <2> QED BY <1>5, <2>1 DEF EditsIni
<1>6. CASE DeletesFolder
  <2>1. /\ drive' \in [FilesOfC -> Contents] /\ kept' = {} /\ relaid' = {}
        /\ ini' = <<>> /\ chosen' = NoSize
        /\ there' = FALSE /\ UNCHANGED <<bundled, place, cp, left, size, store, had>>
    BY <1>6 DEF DeletesFolder
  <2>2. ini' \in Seq(Sizes \cup {TooLarge, Comment} \cup Settings)
    BY <2>1
  <2>3. chosen' \in Sizes \cup {NoSize}
    BY <2>1
  <2> HIDE DEF FilesOfC, Contents
  <2> QED BY <2>1, <2>2, <2>3

<1> QED BY <1>1, <1>2, <1>3, <1>4, <1>5, <1>6 DEF SetRes, User

\* No step of a launch writes a file of the user's, or comes nearer to it.
LEMMA LaunchKeepsFiles ==
  ASSUME DriveTyped, FilesSafe, NEW l \in Launchers, LaunchRuns(l)
  PROVE  FilesSafe' /\ UNCHANGED <<ini, chosen>>
<1> USE DEF DriveTyped, DriveTypeOK, Goes, folder, edits
<1>0. \A n \in kept \ relaid : n \in FilesOfC /\ drive[n] = "own"
                      /\ (n \in Shipped => \A k \in Launchers : place[k] # "lay" /\ n \notin left[k])
  BY DEF FilesSafe, Endangered
<1>1. CASE Looks(l)
  <2>1. UNCHANGED <<drive, ini, chosen, kept, left>>
    BY <1>1 DEF Looks
  <2>2. CASE place' = [place EXCEPT ![l] = IF NothingIn THEN "lay" ELSE "size"] /\ UNCHANGED relaid
    <3>1. kept \ relaid # {} => ~NothingIn
      BY <1>0 DEF NothingIn
    <3> QED BY <1>0, <2>1, <2>2, <3>1 DEF FilesSafe, Endangered
  <2>3. CASE Unread(l)
    <3>1. \A n \in (kept \ relaid)' : n \in kept \ relaid /\ n \notin Shipped
      BY <2>1, <2>3 DEF Unread
    <3> QED BY <1>0, <2>1, <3>1 DEF FilesSafe, Endangered
  <2> QED BY <1>1, <2>2, <2>3 DEF Looks
<1>2. CASE Lays(l)
  <2>1. place[l] = "lay" /\ UNCHANGED <<drive, ini, chosen, kept, relaid>>
        /\ \A k \in Launchers : (place'[k] = "lay" => place[k] = "lay") /\ (k # l => left'[k] = left[k])
    BY <1>2 DEF Lays
  <2>2. \A n \in kept \ relaid : n \notin Shipped
    BY <1>0, <2>1
  <2> QED BY <1>0, <2>1, <2>2 DEF FilesSafe, Endangered
<1>3. ASSUME NEW m \in Shipped, Copies(l, m) PROVE FilesSafe' /\ UNCHANGED <<ini, chosen>>
  <2>1. m \in left[l] /\ UNCHANGED <<ini, chosen, kept, relaid, place>>
        /\ (\A k \in Launchers : left'[k] \subseteq left[k])
        /\ \A n \in FilesOfC : n # m => drive'[n] = drive[n]
    BY <1>3 DEF Copies
  <2>2. m \notin kept \ relaid
    BY <1>0, <2>1
  <2> QED BY <1>0, <2>1, <2>2 DEF FilesSafe, Endangered
<1>4. CASE CopyEnds(l) \/ LooksUpSize(l) \/ FindsFirmware(l) \/ Ends(l)
  <2>1. UNCHANGED <<drive, ini, chosen, kept, relaid>>
        /\ \A k \in Launchers : (place'[k] = "lay" => place[k] = "lay") /\ left'[k] \subseteq left[k]
    BY <1>4 DEF CopyEnds, LooksUpSize, FindsFirmware, Ends
  <2> QED BY <1>0, <2>1 DEF FilesSafe, Endangered
<1> QED BY <1>1, <1>2, <1>3, <1>4 DEF LaunchRuns

LEMMA EditsKeepFiles ==
  ASSUME DriveTyped, FilesSafe, SetRes \/ User
  PROVE  FilesSafe'
<1> USE DEF DriveTyped, DriveTypeOK, launchers
<1>0. /\ \A n \in kept \ relaid : n \in FilesOfC /\ drive[n] = "own" /\ ~Endangered(n)
      /\ UNCHANGED <<place, left>> /\ Ini \in FilesOfC /\ Ini \notin Shipped
  BY DriveAssumption DEF FilesSafe, SetRes, Chooses, Writes, User, Edits, Deletes, EditsIni, DeletesFolder, FilesOfC
<1>1. \A n : Endangered(n)' = Endangered(n)
  BY <1>0 DEF Endangered
<1>2. CASE SetRes
  <2>1. UNCHANGED <<kept, relaid>> /\ (drive' = drive \/ drive' = [drive EXCEPT ![Ini] = "own"])
    BY <1>2 DEF SetRes, Chooses, Writes
  <2> QED BY <1>0, <1>1, <2>1 DEF FilesSafe
<1>3. ASSUME NEW n \in FilesOfC, Edits(n) PROVE FilesSafe'
  <2>1. /\ drive' = [drive EXCEPT ![n] = "own"]
        /\ \/ UNCHANGED <<kept, relaid>>
           \/ ~Endangered(n) /\ kept' = kept \cup {n} /\ relaid' = relaid \ {n}
    BY <1>3 DEF Edits
  <2> QED BY <1>0, <1>1, <2>1 DEF FilesSafe
<1>4. ASSUME NEW n \in FilesOfC, Deletes(n) PROVE FilesSafe'
  <2>1. drive' = [drive EXCEPT ![n] = "none"] /\ kept' = kept \ {n} /\ relaid' = relaid \ {n}
    BY <1>4 DEF Deletes
  <2> QED BY <1>0, <1>1, <2>1 DEF FilesSafe
<1>5. ASSUME NEW text \in Texts, EditsIni(text) PROVE FilesSafe'
  <2>1. drive' = [drive EXCEPT ![Ini] = "own"] /\ kept' = kept \cup {Ini} /\ UNCHANGED relaid
        /\ ~Endangered(Ini)
    BY <1>0, <1>5 DEF EditsIni, Endangered
  <2> QED BY <1>0, <1>1, <2>1 DEF FilesSafe
<1>6. CASE DeletesFolder
  BY <1>6 DEF DeletesFolder, FilesSafe
<1> QED BY <1>2, <1>3, <1>4, <1>5, <1>6 DEF User

LEMMA EditsKeepSize ==
  ASSUME DriveTyped, SizeStands, SetRes \/ User
  PROVE  SizeStands'
<1>1. CASE Writes
  BY <1>1 DEF Writes, SizeStands, DriveTyped
<1>2. CASE \E n \in FilesOfC : Edits(n)
  BY <1>2 DEF Edits, SizeStands
<1>3. CASE \E n \in FilesOfC : Deletes(n)
  BY <1>3 DEF Deletes, SizeStands
<1>4. CASE (\E l \in Launchers, s \in Sizes : Chooses(l, s)) \/ (\E text \in Texts : EditsIni(text)) \/ DeletesFolder
  BY <1>4 DEF Chooses, EditsIni, DeletesFolder, SizeStands
<1> QED BY <1>1, <1>2, <1>3, <1>4 DEF SetRes, User

LEMMA DriveInitInv == DriveInit => DriveInv
<1> SUFFICES ASSUME DriveInit PROVE DriveInv
  OBVIOUS
<1>1. DriveTyped
  BY DriveAssumption DEF DriveInit, DriveTyped, DriveTypeOK, Contents, LaunchSteps, NoStore
<1>2. FilesSafe /\ SizeStands
  BY DEF DriveInit, FilesSafe, SizeStands
<1> QED BY <1>1, <1>2 DEF DriveInv

LEMMA DriveInvKept == DriveInv /\ [DriveNext]_driveVars => DriveInv'
<1> SUFFICES ASSUME DriveInv, [DriveNext]_driveVars PROVE DriveInv'
  OBVIOUS
<1>1. ASSUME NEW l \in Launchers, LaunchRuns(l) PROVE DriveInv'
  BY <1>1, LaunchKeepsTypes, LaunchKeepsFiles DEF DriveInv, SizeStands
<1>2. CASE SetRes \/ User
  BY <1>2, EditsKeepTypes, EditsKeepFiles, EditsKeepSize DEF DriveInv
<1>3. CASE UNCHANGED driveVars
  BY <1>3 DEF driveVars, folder, launchers, edits, DriveInv, DriveTyped, DriveTypeOK, FilesSafe, Endangered, SizeStands
<1> QED BY <1>1, <1>2, <1>3 DEF DriveNext

\* What the user, or a guest, has made of a file of drive C stays, however many
\* launches look at the folder, whether or not they can read it, and copy the
\* tree into it, and wherever they are killed; but for the files of the tree that
\* are there when a launch cannot read the folder, until they are edited again.
THEOREM FilesAreTheUsers == DriveSpec => []UsersFilesKept
<1>1. DriveInv => UsersFilesKept
  BY DEF DriveInv, FilesSafe, UsersFilesKept
<1> QED BY DriveInitInv, DriveInvKept, <1>1, PTL DEF DriveSpec

\* Only one step takes a launch from the look at SHINOGI.INI to the firmware.
LEMMA SizeIsLookedUp ==
  ASSUME DriveInv, DriveNext, NEW l \in Launchers, place[l] = "size", place'[l] = "firmware"
  PROVE  LooksUpSize(l)
<1> USE DEF DriveInv, DriveTyped, DriveTypeOK, Goes
<1>1. ASSUME NEW k \in Launchers, LaunchRuns(k) PROVE LooksUpSize(l)
  BY <1>1 DEF LaunchRuns, Looks, Unread, Lays, Copies, CopyEnds, LooksUpSize, FindsFirmware, Ends
<1>2. CASE SetRes \/ User
  <2>1. UNCHANGED place
    BY <1>2 DEF SetRes, Chooses, Writes, User, Edits, Deletes, EditsIni, DeletesFolder, launchers
  <2> QED BY <2>1
<1> QED BY <1>1, <1>2 DEF DriveNext

\* The size that setres has stored last is that of every launch that looks, what-
\* ever lines were in the file before, until the file is edited again.
THEOREM StoredSizeIsUsed == DriveSpec => ChosenSizeTakesEffect
<1>1. DriveInv /\ [DriveNext]_driveVars =>
        [\A l \in Launchers :
           place[l] = "size" /\ place'[l] = "firmware" /\ chosen # NoSize => size'[l] = chosen]_driveVars
  <2> SUFFICES ASSUME DriveInv, DriveNext, NEW l \in Launchers,
                      place[l] = "size", place'[l] = "firmware", chosen # NoSize
               PROVE  size'[l] = chosen
    OBVIOUS
  <2>1. LooksUpSize(l)
    BY SizeIsLookedUp
  <2> QED BY <2>1 DEF LooksUpSize, DriveInv, DriveTyped, DriveTypeOK, SizeStands
<1> QED BY DriveInitInv, DriveInvKept, <1>1, PTL DEF DriveSpec, ChosenSizeTakesEffect
=============================================================================
