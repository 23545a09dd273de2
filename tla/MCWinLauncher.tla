--------------------------- MODULE MCWinLauncher ----------------------------
(* The instance of WinLauncher for TLC: two launches, one with a drive beside *)
(* C, the next without.                                                      *)
EXTENDS WinLauncher

MCFolders == [l \in {1, 2} |-> IF l = 1 THEN {2, 3} ELSE {2}]
=============================================================================
