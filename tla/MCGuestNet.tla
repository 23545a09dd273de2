----------------------------- MODULE MCGuestNet -----------------------------
(* The instance for TLC of four parts of the Windows edition that share no   *)
(* variable: GuestNet, TapInstall, LanBridge and WinSettings.  Part says     *)
(* which of them a behaviour is about; the others rest in an initial state.  *)
EXTENDS GuestNet, TapInstall, LanBridge, WinSettings, TLC

VARIABLE part

\* GuestNet: two Internet-only texts, one of which mentions the hook in a
\* comment, the texts the hook makes of them, and two of the user's own.
MCLegacy == {"a", "b"}
MCHooked == {"a+", "b+"}
MCCustom == {"c", "d"}
MCHookOf == [t \in MCLegacy |-> IF t = "a" THEN "a+" ELSE "b+"]
MCMentioning == {"b", "d"}

\* WinSettings: drive C and a second folder change places between the two
\* settings that are entered, and "z" names what "x" or what "y" names.
MCSlots == <<"D", "U", "hd">>

Entry(c, size, d, hd, lan, eth) ==
  ("c" :> c) @@ ("size" :> size) @@ ("D" :> d) @@ ("U" :> "") @@ ("hd" :> hd) @@
  ("lan" :> lan) @@ ("eth" :> eth)

MCEntered == {Entry("x", "1", "z", "", FALSE, "none"), Entry("y", "2", "x", "i", TRUE, "e")}

MCScenes ==
  {("x" :> "dx") @@ ("y" :> "dy") @@ ("z" :> d) @@ ("i" :> "img") : d \in {"dx", "dy"}}

\* Text, a long line that ends like a res line, and three res lines, one of
\* them without a size and one of them too long itself.
Piece(start, text) == [start |-> start, text |-> text]

MCInis ==
  {<<Piece(TRUE, "w"), Piece(FALSE, "1"), Piece(TRUE, "bad"), Piece(FALSE, "w"),
     Piece(TRUE, "2"), Piece(TRUE, "v")>>}

-----------------------------------------------------------------------------
\* No definition tells one process from another.
Alike == Permutations(Procs)

SetupTypeOK == TypeOK /\ TapTypeOK /\ LanTypeOK /\ SettingsTypeOK

all == <<part, vars, tap, bridging, settings>>

\* The initial states the other parts rest in.
Rests(p) ==
  CASE p = "guest" -> Init /\ config = "a"
    [] p = "tap" -> TapInit /\ product = "Shinogi"
    [] p = "lan" -> LanInit
    [] p = "settings" -> SettingsInit /\ scene["z"] = "dx" /\ file = Fresh

MCInit ==
  \/ part = "guest" /\ Init /\ Rests("tap") /\ Rests("lan") /\ Rests("settings")
  \/ part = "tap" /\ TapInit /\ Rests("guest") /\ Rests("lan") /\ Rests("settings")
  \/ part = "lan" /\ LanInit /\ Rests("guest") /\ Rests("tap") /\ Rests("settings")
  \/ part = "settings" /\ SettingsInit /\ Rests("guest") /\ Rests("tap") /\ Rests("lan")

MCNext ==
  \/ part = "guest" /\ Next /\ UNCHANGED <<part, tap, bridging, settings>>
  \/ part = "tap" /\ TapNext /\ UNCHANGED <<part, vars, bridging, settings>>
  \/ part = "lan" /\ LanNext /\ UNCHANGED <<part, vars, tap, settings>>
  \/ part = "settings" /\ SettingsNext /\ UNCHANGED <<part, vars, tap, bridging>>
  \/ part = "settings" /\ acts = MaxActs /\ UNCHANGED all  \* the bound, no deadlock

MCSpec == MCInit /\ [][MCNext]_all
=============================================================================
