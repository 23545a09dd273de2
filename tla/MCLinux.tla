------------------------------ MODULE MCLinux ------------------------------
(* The instance for TLC of two parts that share no variable: ShinogiSh and   *)
(* DriveC.  Part says which of them a behaviour is about; the other rests in *)
(* an initial state.                                                         *)
EXTENDS MCShinogiSh, DriveC

VARIABLE part

\* A setting; a size that is not accepted, before one that is; and both.
MCTexts == {<<"v">>, <<"large", "1">>, <<"2", "v">>}

-----------------------------------------------------------------------------
MCInit ==
  \/ part = "shell" /\ Init /\ DriveInit /\ bundled /\ ~there
  \/ part = "drive" /\ DriveInit /\ Init /\ typed = Background

MCNext ==
  \/ part = "shell" /\ Next /\ UNCHANGED <<part, driveVars>>
  \/ part = "drive" /\ DriveNext /\ UNCHANGED <<part, vars>>

MCSpec == MCInit /\ [][MCNext]_<<part, vars, driveVars>>
=============================================================================
