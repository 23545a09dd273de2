------------------------------ MODULE MCSetRes ------------------------------
(* The instance of DriveC for TLC in which setres keeps the 64 lines it      *)
(* keeps in fact.                                                            *)
EXTENDS DriveC

MCTexts == {<<"a future setting">>}
=============================================================================
