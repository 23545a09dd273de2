--------------------------- MODULE HandleService ---------------------------
(***************************************************************************)
(* What the protocol header promises of a file handle, without tables,     *)
(* descriptors or connections: a number stands for one file from the reply *)
(* that grants it until it is released, only a guest that has said HELLO   *)
(* is granted any, and every grant ends before the next guest is greeted.  *)
(***************************************************************************)
CONSTANTS Handles, Files, NoFile

VARIABLES
  grant,    (* grant[h]: the file handle h stands for, or NoFile.          *)
  open      (* A guest has been greeted and its session has not ended.     *)

AllReleased == grant = [h \in Handles |-> NoFile]

ServiceInit == AllReleased /\ open = FALSE

\* A greeting releases whatever an earlier guest left.
Greet ==
  /\ open' = TRUE
  /\ grant' = [h \in Handles |-> NoFile]

Grant(h, f) ==
  /\ open
  /\ grant[h] = NoFile
  /\ UNCHANGED open
  /\ grant' = [grant EXCEPT ![h] = f]

Release(h) ==
  /\ open
  /\ grant[h] # NoFile
  /\ UNCHANGED open
  /\ grant' = [grant EXCEPT ![h] = NoFile]

\* The guest is gone; the helper may not have noticed, and keeps its handles.
Lose ==
  /\ open' = FALSE
  /\ UNCHANGED grant

\* The helper has noticed, or has gone itself.
End ==
  /\ open' = FALSE
  /\ grant' = [h \in Handles |-> NoFile]

ServiceNext ==
  \/ Greet \/ Lose \/ End
  \/ \E h \in Handles : Release(h) \/ \E f \in Files : Grant(h, f)

ServiceSpec == ServiceInit /\ [][ServiceNext]_<<grant, open>>
=============================================================================
