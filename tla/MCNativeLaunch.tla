--------------------------- MODULE MCNativeLaunch ---------------------------
(* The instance of NativeLaunch for TLC: headers of two bytes, frames of up  *)
(* to three, and impossible lengths on both sides of them.                   *)
EXTENDS NativeLaunch

MCBadLengths == {1, 4}
MCReplies == {1, 2}
=============================================================================
