--------------------------- MODULE HostfsdStartup ---------------------------
(***************************************************************************)
(* hostfsd's main() up to its first client: the folder is resolved, made   *)
(* writable, the channel opened and the ready file written - in this order *)
(* on POSIX; on Windows a thread of its own makes the folder writable      *)
(* while the guest is already being served.                                *)
(*                                                                         *)
(* clear_readonly() reads the attribute and then clears it, two calls that *)
(* anything may come between.  Entries that lead out of the folder, that   *)
(* are too deep or that have gone are left out of Items.                   *)
(***************************************************************************)
EXTENDS Naturals, FiniteSets

CONSTANTS
  Items,        (* What make_writable() comes to: directories and files.   *)
  Fixed,        (* Those of which the host will not change the attribute.  *)
  Platforms,    (* "posix" and "windows" (compiled with _WIN32).           *)
  ReadOnly,     (* --read-only was given.                                  *)
  NoItem

ASSUME StartupAssumption ==
  /\ Fixed \subseteq Items
  /\ Platforms \subseteq {"posix", "windows"}
  /\ ReadOnly \in BOOLEAN
  /\ NoItem \notin Items

VARIABLES
  platform,     (* The one it was compiled for.                            *)
  stage,        (* "start", "walk", "open", "announce", "serve" or "exited".*)
  ro,           (* The items that are read-only.                           *)
  todo,         (* The items the writable pass has not come to.            *)
  hand,         (* The item whose attribute it has read.                   *)
  sawRo,        (* What it read.                                           *)
  pass,         (* "idle", "running" or "over".                            *)
  wanted        (* The items the guest made read-only.                     *)

walker == <<todo, hand, sawRo, pass>>
startup == <<platform, stage, ro, walker, wanted>>

\* Types; and a pass that is over has seen every item to its end.
StartupTypeOK ==
  /\ platform \in Platforms
  /\ stage \in {"start", "walk", "open", "announce", "serve", "exited"}
  /\ {ro, todo, wanted} \subseteq SUBSET Items
  /\ hand \in Items \cup {NoItem}
  /\ sawRo \in BOOLEAN
  /\ pass \in {"idle", "running", "over"}
  /\ pass = "over" => todo = {} /\ hand = NoItem

\* A mutant: the worker is used on every platform.
InBackground_Always == TRUE
InBackground == platform = "windows"

-----------------------------------------------------------------------------
(* main() *)

\* The folder is resolved, or there is none; then the pass, on POSIX.
Resolve ==
  /\ stage = "start"
  /\ \/ stage' = "exited" /\ UNCHANGED pass
     \/ /\ ~InBackground /\ ~ReadOnly
        /\ stage' = "walk" /\ pass' = "running"
     \/ /\ InBackground \/ ReadOnly
        /\ stage' = "open" /\ UNCHANGED pass
  /\ UNCHANGED <<platform, ro, todo, hand, sawRo, wanted>>

Walked ==
  /\ stage = "walk" /\ pass = "over"
  /\ stage' = "open"
  /\ UNCHANGED <<platform, ro, walker, wanted>>

\* listener_open() or conn_connect(), and then the ready file: the launcher
\* may start the guest.
Open ==
  /\ stage = "open"
  /\ stage' \in {"announce", "exited"}
  /\ UNCHANGED <<platform, ro, walker, wanted>>

\* start_writable_worker(), which may fail to get a thread.
Announced ==
  /\ stage = "announce"
  /\ stage' = "serve"
  /\ \/ InBackground /\ ~ReadOnly /\ pass' = "running"
     \/ UNCHANGED pass
  /\ UNCHANGED <<platform, ro, todo, hand, sawRo, wanted>>

-----------------------------------------------------------------------------
(* make_writable(): readdir() gives the items in any order *)

Take(i) ==
  /\ pass = "running" /\ hand = NoItem
  /\ i \in todo
  /\ hand' = i
  /\ sawRo' = (i \in ro)
  /\ todo' = todo \ {i}
  /\ UNCHANGED <<platform, stage, ro, pass, wanted>>

Clear ==
  /\ pass = "running" /\ hand # NoItem
  /\ ro' = IF sawRo THEN ro \ ({hand} \ Fixed) ELSE ro
  /\ hand' = NoItem
  /\ UNCHANGED <<platform, stage, todo, sawRo, pass, wanted>>

\* A mutant: the pass ends at the first item.
PassOver_Early ==
  /\ pass = "running" /\ hand = NoItem /\ todo # Items
  /\ pass' = "over"
  /\ UNCHANGED <<platform, stage, ro, todo, hand, sawRo, wanted>>

PassOver ==
  /\ pass = "running" /\ hand = NoItem /\ todo = {}
  /\ pass' = "over"
  /\ UNCHANGED <<platform, stage, ro, todo, hand, sawRo, wanted>>

-----------------------------------------------------------------------------
\* The guest's SETATTR, served by main() like everything it asks for.
GuestSets(i, readonly) ==
  /\ stage = "serve" /\ ~ReadOnly
  /\ i \notin Fixed
  /\ IF readonly THEN ro' = ro \cup {i} /\ wanted' = wanted \cup {i}
                 ELSE ro' = ro \ {i} /\ wanted' = wanted \ {i}
  /\ UNCHANGED <<platform, stage, walker>>

\* A copy of the tree comes with whatever attributes it had.
StartupInit ==
  /\ platform \in Platforms
  /\ stage = "start"
  /\ ro \in SUBSET Items
  /\ todo = Items
  /\ hand = NoItem
  /\ sawRo = FALSE
  /\ pass = "idle"
  /\ wanted = {}

Main == Resolve \/ Walked \/ Open \/ Announced
Pass == (\E i \in Items : Take(i)) \/ Clear \/ PassOver

StartupNext == Main \/ Pass \/ \E i \in Items, readonly \in BOOLEAN : GuestSets(i, readonly)

StartupSpec == StartupInit /\ [][StartupNext]_startup
FairStartupSpec == StartupSpec /\ WF_startup(Main) /\ WF_startup(Pass)

-----------------------------------------------------------------------------
(* Properties *)

\* On POSIX the pass "happens before the guest has run a single instruction":
\* what the guest finds read-only it has made so itself, or nobody can change,
\* and what it has made read-only stays so until it changes it.
WritableForTheGuest ==
  platform = "posix" /\ stage \in {"announce", "serve"} /\ ~ReadOnly =>
    wanted \subseteq ro /\ ro \subseteq wanted \cup Fixed

\* Sooner or later the folder is writable, on Windows too, whenever the thread
\* could be started.
WritableInTheEnd == pass = "running" ~> pass = "over" /\ ro \subseteq wanted \cup Fixed
=============================================================================
