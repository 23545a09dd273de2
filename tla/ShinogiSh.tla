----------------------------- MODULE ShinogiSh -----------------------------
(***************************************************************************)
(* tools/linux/shinogi.sh: the commands start, run, stop and status, each  *)
(* a shell of its own, and the two pid files and the ready file through    *)
(* which one command knows what another has started.                       *)
(*                                                                         *)
(* A step is what other processes can see: a file read and acted on, a     *)
(* file written, a process started or killed.  How long the code waits is  *)
(* left out; a wait ends by what it waits for, or it gives up.  Numbers of *)
(* processes are not used again.                                           *)
(***************************************************************************)
EXTENDS Naturals, FiniteSets

CONSTANTS
  Shells,       (* The terminals commands are typed in.                    *)
  Habits,       (* The ways the terminals are used; see typed.             *)
  MaxPids,      (* Bound: processes started.                               *)
  MayGiveUp,    (* Whether a command may stop waiting for its helper: after *)
                (* ten seconds, or at a Ctrl-C.                            *)
  MayGoUnseen   (* Whether QEMU may go between the two looks start takes.  *)

AllCommands == {"start", "run", "stop", "status"}

ASSUME ShellsAssumption ==
  /\ Habits \subseteq [Shells -> SUBSET AllCommands]
  /\ MaxPids \in Nat \ {0, 1}
  /\ {MayGiveUp, MayGoUnseen} \subseteq BOOLEAN

Pids == 1..MaxPids
NoPid == 0

VARIABLES
  typed,        (* typed[s]: the commands that are typed in s.             *)
  proc,         (* proc[p]: what process p is; see Kinds.                  *)
  pidfile,      (* The pid in qemu.pid, NoPid if there is no such file.    *)
  hostfsPid,    (* The pid in hostfs.pid.                                  *)
  ready,        (* The ready file exists.                                  *)
  abandoned,    (* Helpers whose command ended while it waited for them.   *)
  pc,           (* pc[s]: where the command in s is.                       *)
  cmd,          (* cmd[s]: the command.                                    *)
  then,         (* then[s]: where its cleanup returns to.                  *)
  child         (* child[s]: $!, or the pid it is stopping.                *)

files == <<pidfile, hostfsPid, ready>>
shell == <<typed, pc, cmd, then, child>>
vars == <<proc, files, abandoned, shell>>

\* A helper is "starting", then "listening".  "failed": it went before that;
\* "killed": stop_hostfsd() did it; "dead": a helper or a QEMU that has gone.
Kinds == {"none", "starting", "listening", "qemu", "failed", "killed", "dead"}
Helpers == {p \in Pids : proc[p] \in {"starting", "listening"}}
Guests == {p \in Pids : proc[p] = "qemu"}

Places == {"idle", "reap", "check", "clear", "spawn", "record", "wait", "guest",
           "note", "boot", "boot failed", "foreground", "stop", "halt", "quit",
           "kill", "cleanup", "stop helper", "forget helper"}

\* Types, and the places only start, or only run, comes to: only start writes
\* qemu.pid.
TypeOK ==
  /\ typed \in Habits
  /\ proc \in [Pids -> Kinds]
  /\ {pidfile, hostfsPid} \subseteq Pids \cup {NoPid}
  /\ ready \in BOOLEAN
  /\ abandoned \subseteq Pids
  /\ pc \in [Shells -> Places]
  /\ cmd \in [Shells -> AllCommands]
  /\ then \in [Shells -> {"idle", "check"}]
  /\ child \in [Shells -> Pids \cup {NoPid}]
  /\ \A s \in Shells :
       /\ pc[s] \in {"check", "note", "boot", "boot failed"} => cmd[s] = "start"
       /\ pc[s] = "foreground" => cmd[s] = "run"

-----------------------------------------------------------------------------
\* kill -0
Alive(p) == p \in Helpers \cup Guests

\* running()
Running == Alive(pidfile)

Go(s, place) == pc' = [pc EXCEPT ![s] = place]

\* The shell goes on, and nothing else changes.
Jump(s, place) ==
  /\ Go(s, place)
  /\ UNCHANGED <<proc, files, abandoned, cmd, then, child, typed>>

\* A new process of kind k, and $!.
Spawn(s, k) ==
  \E p \in Pids :
    /\ proc[p] = "none" /\ \A q \in Pids : q < p => proc[q] # "none"
    /\ proc' = [proc EXCEPT ![p] = k]
    /\ child' = [child EXCEPT ![s] = p]

-----------------------------------------------------------------------------
(* The commands *)

\* Where a command begins.
Entry(c) == CASE c = "stop" -> "stop" [] c = "run" -> "clear" [] OTHER -> "reap"

Type(s) ==
  /\ pc[s] = "idle"
  /\ \E c \in typed[s] :
       /\ cmd' = [cmd EXCEPT ![s] = c]
       /\ Go(s, Entry(c))
       /\ then' = [then EXCEPT ![s] = IF c = "start" THEN "check" ELSE "idle"]
  /\ UNCHANGED <<proc, files, abandoned, child, typed>>

\* A mutant: a guest that has gone is not looked for.
Reap_Never(s) == pc[s] = "reap" /\ Jump(s, then[s])

\* reap_if_gone()
Reap(s) ==
  /\ pc[s] = "reap"
  /\ Jump(s, IF pidfile # NoPid /\ ~Running THEN "cleanup" ELSE then[s])

\* cmd_start()'s refusal of a second guest.
Check(s) ==
  /\ pc[s] = "check"
  /\ Jump(s, IF Running THEN "idle" ELSE "clear")

-----------------------------------------------------------------------------
(* start_hostfsd() *)

\* A mutant: the ready file of an earlier helper stays.
Clear_KeepsReady(s) == pc[s] = "clear" /\ Jump(s, "spawn")

Clear(s) ==
  /\ pc[s] = "clear"
  /\ Go(s, "spawn")
  /\ ready' = FALSE
  /\ UNCHANGED <<proc, pidfile, hostfsPid, abandoned, cmd, then, child, typed>>

SpawnHelper(s) ==
  /\ pc[s] = "spawn"
  /\ Spawn(s, "starting")
  /\ Go(s, "record")
  /\ UNCHANGED <<files, abandoned, cmd, then, typed>>

Record(s) ==
  /\ pc[s] = "record"
  /\ hostfsPid' = child[s]
  /\ Go(s, "wait")
  /\ UNCHANGED <<proc, pidfile, ready, abandoned, cmd, then, child, typed>>

\* The ready file appears, the helper goes first, or the loop runs out.
WaitOver(s) ==
  /\ pc[s] = "wait"
  /\ \/ ready /\ Jump(s, "guest")
     \/ /\ ~ready /\ ~Alive(hostfsPid)
        /\ hostfsPid' = NoPid
        /\ Go(s, "idle")
        /\ UNCHANGED <<proc, pidfile, ready, abandoned, cmd, then, child, typed>>
     \/ /\ MayGiveUp /\ ~ready /\ Alive(hostfsPid)
        /\ abandoned' = abandoned \cup {child[s]}
        /\ Go(s, "idle")
        /\ UNCHANGED <<proc, files, cmd, then, child, typed>>

\* Ctrl-C in that wait: no trap is set yet, and a helper in the background
\* does not get it.
Interrupt(s) ==
  /\ pc[s] = "wait" /\ MayGiveUp
  /\ abandoned' = abandoned \cup {child[s]}
  /\ Go(s, "idle")
  /\ UNCHANGED <<proc, files, cmd, then, child, typed>>

-----------------------------------------------------------------------------
(* The rest of cmd_start() and cmd_run() *)

SpawnGuest(s) ==
  /\ pc[s] = "guest"
  /\ Spawn(s, "qemu")
  /\ Go(s, IF cmd[s] = "run" THEN "foreground" ELSE "note")
  /\ UNCHANGED <<files, abandoned, cmd, then, typed>>

Note(s) ==
  /\ pc[s] = "note"
  /\ pidfile' = child[s]
  /\ Go(s, "boot")
  /\ UNCHANGED <<proc, hostfsPid, ready, abandoned, cmd, then, child, typed>>

\* The monitor's socket is there or the loop runs out, whatever QEMU does next;
\* or QEMU is seen to have gone.
BootOver(s) ==
  /\ pc[s] = "boot"
  /\ \/ Jump(s, "idle")
     \/ ~Running /\ Jump(s, "boot failed")

\* A mutant: QEMU is put away and the helper is not.
BootFailed_KeepsHelper(s) ==
  /\ pc[s] = "boot failed"
  /\ pidfile' = NoPid
  /\ Go(s, "idle")
  /\ UNCHANGED <<proc, hostfsPid, ready, abandoned, cmd, then, child, typed>>

BootFailed(s) ==
  /\ pc[s] = "boot failed"
  /\ pidfile' = NoPid
  /\ Go(s, "stop helper")
  /\ then' = [then EXCEPT ![s] = "idle"]
  /\ UNCHANGED <<proc, hostfsPid, ready, abandoned, cmd, child, typed>>

\* QEMU has gone, by itself or with the Ctrl-C that its shell traps.
ForegroundOver(s) ==
  /\ pc[s] = "foreground" /\ ~Alive(child[s])
  /\ Jump(s, "stop helper")

-----------------------------------------------------------------------------
(* cmd_stop(), stop_cleanup() and stop_hostfsd() *)

\* stop, or stop --now.
Stop(s) ==
  /\ pc[s] = "stop"
  /\ IF Running THEN \E place \in {"halt", "quit"} : Go(s, place) ELSE Go(s, "cleanup")
  /\ child' = [child EXCEPT ![s] = pidfile]
  /\ UNCHANGED <<proc, files, abandoned, cmd, then, typed>>

\* The guest was asked to halt: it does, or its time is up.
HaltOver(s) ==
  /\ pc[s] = "halt"
  /\ \/ ~Alive(child[s]) /\ Jump(s, "cleanup")
     \/ Jump(s, "quit")

\* QEMU was told to quit: it does, or its time is up.
QuitOver(s) == pc[s] = "quit" /\ Jump(s, "kill")

\* A mutant: QEMU is asked to quit and no more.
Kill_Never(s) == pc[s] = "kill" /\ Jump(s, "cleanup")

\* kill -9
Kill(s) ==
  /\ pc[s] = "kill"
  /\ proc' = IF Alive(child[s]) THEN [proc EXCEPT ![child[s]] = "dead"] ELSE proc
  /\ Go(s, "cleanup")
  /\ UNCHANGED <<files, abandoned, cmd, then, child, typed>>

Cleanup(s) ==
  /\ pc[s] = "cleanup"
  /\ pidfile' = NoPid
  /\ Go(s, "stop helper")
  /\ UNCHANGED <<proc, hostfsPid, ready, abandoned, cmd, then, child, typed>>

StopHelper(s) ==
  /\ pc[s] = "stop helper"
  /\ proc' = IF Alive(hostfsPid) THEN [proc EXCEPT ![hostfsPid] = "killed"] ELSE proc
  /\ Go(s, IF hostfsPid = NoPid THEN then[s] ELSE "forget helper")
  /\ UNCHANGED <<files, abandoned, cmd, then, child, typed>>

ForgetHelper(s) ==
  /\ pc[s] = "forget helper"
  /\ hostfsPid' = NoPid
  /\ ready' = FALSE
  /\ Go(s, then[s])
  /\ UNCHANGED <<proc, pidfile, abandoned, cmd, then, child, typed>>

-----------------------------------------------------------------------------
(* The processes *)

HelperListens(p) ==
  /\ proc[p] = "starting"
  /\ proc' = [proc EXCEPT ![p] = "listening"]
  /\ ready' = TRUE
  /\ UNCHANGED <<pidfile, hostfsPid, abandoned, shell>>

\* A folder that cannot be resolved, a crash; and QEMU's window is closed, the
\* guest halts, or QEMU refuses its command line.
Dies(p) ==
  /\ Alive(p)
  /\ proc[p] = "qemu" /\ ~MayGoUnseen => \A s \in Shells : pc[s] # "check"
  /\ proc' = [proc EXCEPT ![p] = IF proc[p] = "starting" THEN "failed" ELSE "dead"]
  /\ UNCHANGED <<files, abandoned, shell>>

-----------------------------------------------------------------------------
\* Nothing has been started, or the host has: the files of the last session are
\* there and its processes are not.
Init ==
  /\ typed \in Habits
  /\ \/ /\ proc = [p \in Pids |-> "none"]
        /\ pidfile = NoPid /\ hostfsPid = NoPid /\ ready = FALSE
     \/ /\ proc = [p \in Pids |-> IF p \in {1, 2} THEN "dead" ELSE "none"]
        /\ pidfile = 2 /\ hostfsPid = 1 /\ ready = TRUE
  /\ abandoned = {}
  /\ pc = [s \in Shells |-> "idle"]
  /\ cmd = [s \in Shells |-> "status"]
  /\ then = [s \in Shells |-> "idle"]
  /\ child = [s \in Shells |-> NoPid]

Step(s) ==
  \/ Type(s) \/ Reap(s) \/ Check(s)
  \/ Clear(s) \/ SpawnHelper(s) \/ Record(s) \/ WaitOver(s) \/ Interrupt(s)
  \/ SpawnGuest(s) \/ Note(s) \/ BootOver(s) \/ BootFailed(s) \/ ForegroundOver(s)
  \/ Stop(s) \/ HaltOver(s) \/ QuitOver(s) \/ Kill(s)
  \/ Cleanup(s) \/ StopHelper(s) \/ ForgetHelper(s)

Next ==
  \/ \E s \in Shells : Step(s)
  \/ \E p \in Pids : HelperListens(p) \/ Dies(p)

Spec == Init /\ [][Next]_vars

-----------------------------------------------------------------------------
(* Properties *)

\* A background guest that runs is the one in qemu.pid, so that stop and status
\* know of it, except while the start that made it is about to write the file.
GuestRecorded ==
  \A p \in Guests :
    p = pidfile \/ \E s \in Shells : pc[s] \in {"note", "foreground"} /\ child[s] = p

\* A helper that runs is the one in hostfs.pid: no command overwrites the name
\* of a live helper, "or the old one is orphaned for good".  The exceptions are
\* the helper about to be recorded, and those whose command gave up on them.
HelperRecorded ==
  \A p \in Helpers \ abandoned :
    p = hostfsPid \/ \E s \in Shells : pc[s] = "record" /\ child[s] = p

\* When every command is done and none has left a pid file, no helper is left
\* either: "the drive C helper must not outlive the guest".
NothingLeft ==
  (\A s \in Shells : pc[s] = "idle") /\ pidfile = NoPid => Helpers \subseteq abandoned

\* QEMU is started only when the helper has come as far as listening: a ready
\* file left behind by an earlier session does not start it without one.  (That
\* of a helper that was given up on does.)
GuestComesSecond ==
  \A s \in Shells : pc[s] = "guest" =>
    \/ proc[child[s]] \in {"listening", "killed", "dead"}
    \/ \E p \in abandoned : proc[p] # "starting"

\* "a foreground "run" has its own trap and no pid file, so this can never pull
\* the helper out from under one": while its guest runs, no command kills the
\* helper.
ForegroundKeepsHelper ==
  [][\A s \in Shells : pc[s] = "foreground" /\ Alive(child[s]) =>
       \A p \in Helpers : proc'[p] # "killed"]_vars
=============================================================================
