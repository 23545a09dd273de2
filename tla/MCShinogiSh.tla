---------------------------- MODULE MCShinogiSh ----------------------------
(* Instances of ShinogiSh for TLC.                                           *)
EXTENDS ShinogiSh

\* One terminal: a guest in the background, or guests in a window.
Background == [s \in Shells |-> {"start", "stop", "status"}]
Foreground == [s \in Shells |-> {"run", "stop", "status"}]
OneUse == {Background, Foreground}

\* A guest in the window of one terminal, and a look at it from the other.
Watched == {[s \in Shells |-> IF s = 1 THEN {"run"} ELSE {"status"}]}
=============================================================================
