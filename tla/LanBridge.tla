----------------------------- MODULE LanBridge -----------------------------
(***************************************************************************)
(* The network bridge of LAN mode: tools/win/lan-setup.ps1, which makes a  *)
(* bridge of an Ethernet adapter and the product's TAP adapter, or removes *)
(* it, under a mutex of the machine and a record in the registry; with     *)
(* another product, the user's own bridges, and scripts that are killed.   *)
(*                                                                         *)
(* A product stands for its TAP adapter, which Install-AtariTap has set up *)
(* or throws about (TapInstall).  DNS servers are restored with the        *)
(* addresses.  What Windows does by itself to an adapter whose bridge is   *)
(* destroyed with netsh is taken for nothing.                              *)
(***************************************************************************)
EXTENDS FiniteSets

CONSTANTS
  Apps,         (* The products, "Shinogi" and "ARAnyM".                   *)
  Nics,         (* Ethernet adapters.                                      *)
  NoNic,
  Bridges,      (* GUIDs: none is used again.                              *)
  NoBridge

ASSUME BridgeAssumption ==
  /\ Apps \cap Nics = {} /\ NoNic \notin Nics \cup Apps /\ NoBridge \notin Bridges
  /\ "user" \notin Apps /\ "nobody" \notin Apps

VARIABLES
  bridges,      (* The bridges there are.                                  *)
  members,      (* members[b]: the adapters bound to b.                    *)
  addressed,    (* Ethernet adapters with an IPv4 set-up of their own.     *)
  record,       (* record[a]: EthernetGuid, BridgeGuid and BridgeVerified. *)
  stage,        (* Where the script of product a is.                       *)
  nic,          (* $EthernetGuid                                           *)
  before,       (* $bridges                                                *)
  made,         (* $createdBridge                                          *)
  maker,        (* History: who has made b.                                *)
  stray,        (* History: bridges that no script came to know.           *)
  torn          (* History: adapters whose restoration was cut short.      *)

windows == <<bridges, members, addressed>>
locals == <<nic, before, made>>
bridging == <<windows, record, stage, locals, maker, stray, torn>>

LanStages ==
  {"idle", "setup", "create", "identify", "eth", "bridge", "flag", "wait", "address",
   "finish", "undo", "remove", "restore", "forget"}

NoRecord == [eth |-> NoNic, bridge |-> NoBridge, verified |-> "unset"]

LanTypeOK ==
  /\ bridges \subseteq Bridges /\ stray \subseteq Bridges
  /\ members \in [Bridges -> SUBSET (Nics \cup Apps)]
  /\ addressed \subseteq Nics /\ torn \subseteq Nics
  /\ record \in [Apps -> [eth : Nics \cup {NoNic}, bridge : Bridges \cup {NoBridge},
                          verified : {"unset", "no", "yes"}]]
  /\ stage \in [Apps -> LanStages]
  /\ nic \in [Apps -> Nics \cup {NoNic}]
  /\ before \in [Apps -> SUBSET Bridges]
  /\ made \in [Apps -> Bridges \cup {NoBridge}]
  /\ maker \in [Bridges -> Apps \cup {"user", "nobody"}]

-----------------------------------------------------------------------------
\* Every adapter with the bridge's binding, whichever bridge it is of.
Bound == UNION {members[b] : b \in bridges}

\* Assert-ManagedBridgeMembers
MembersAre(n, a) == Bound = {n, a}

\* Assert-Ready, of a record that r is.
Ready(a, r) ==
  /\ r.eth = nic[a] /\ r.verified # "no"
  /\ r.bridge \in bridges
  /\ {r.eth, a} \subseteq Bound

MovesOn(a, to) == stage' = [stage EXCEPT ![a] = to] /\ UNCHANGED <<nic, before>>

\* The end of the script, and of what it has in its variables.
Over(a) ==
  /\ stage' = [stage EXCEPT ![a] = "idle"]
  /\ nic' = [nic EXCEPT ![a] = NoNic]
  /\ before' = [before EXCEPT ![a] = {}]
  /\ made' = [made EXCEPT ![a] = NoBridge]

Destroyed(b) ==
  /\ bridges' = bridges \ {b}
  /\ members' = [members EXCEPT ![b] = {}]

\* Bridges of a product's that its record does not name.
Unrecorded(a) == {b \in bridges : maker[b] = a /\ record[a].bridge # b}

-----------------------------------------------------------------------------
(* The script *)

\* "Serialize the whole read/create/claim/rollback transaction across products"
Begins(a, n, to) ==
  /\ \A x \in Apps : stage[x] = "idle"
  /\ stage' = [stage EXCEPT ![a] = to]
  /\ nic' = [nic EXCEPT ![a] = n]
  /\ before' = [before EXCEPT ![a] = bridges]
  /\ UNCHANGED <<windows, record, made, maker, stray, torn>>

\* It is set up, it is not, or anything that is looked at or called throws
\* before a bridge is touched.
Declines(a) ==
  /\ stage[a] \in {"setup", "create", "remove"}
  /\ Over(a)
  /\ UNCHANGED <<windows, record, maker, stray, torn>>

\* No bridge is on record, there is none, and Ethernet works.
Prepares(a) ==
  /\ stage[a] = "setup"
  /\ record[a].bridge = NoBridge
  /\ before[a] = {}
  /\ nic[a] \in addressed
  /\ MovesOn(a, "create")
  /\ UNCHANGED <<windows, record, made, maker, stray, torn>>

\* A mutant: netsh is believed to have made a bridge whatever it returns.
Creates_AnyCode(a) ==
  /\ stage[a] = "create"
  /\ MovesOn(a, "identify")
  /\ UNCHANGED <<record, made, torn, stray>>
  /\ \/ UNCHANGED <<windows, maker>>
     \/ \E b \in Bridges :
          /\ maker[b] = "nobody" /\ nic[a] \notin Bound
          /\ bridges' = bridges \cup {b}
          /\ maker' = [maker EXCEPT ![b] = a]
          /\ members' = [members EXCEPT ![b] = {nic[a], a}]
          /\ addressed' = addressed \ {nic[a]}

\* netsh bridge create, which binds the adapters, or will: it returns 0, or
\* does not although there is a bridge (and if there is none, see Declines).
Creates(a) ==
  /\ stage[a] = "create"
  /\ \E b \in Bridges, bind \in SUBSET {nic[a], a} :
       /\ maker[b] = "nobody" /\ Bound \cap bind = {}
       /\ bridges' = bridges \cup {b}
       /\ maker' = [maker EXCEPT ![b] = a]
       /\ members' = [members EXCEPT ![b] = bind]
       /\ addressed' = addressed \ bind
       /\ \/ MovesOn(a, "identify") /\ UNCHANGED <<made, stray>>
          \/ Over(a) /\ stray' = stray \cup {b}
  /\ UNCHANGED <<record, torn>>

\* Get-Bridges, which may throw, and Select-CreatedBridge: "exactly one new
\* bridge".
Identifies(a) ==
  LET new == bridges \ before[a]
  IN  /\ stage[a] = "identify"
      /\ \/ /\ Cardinality(new) = 1
            /\ made' = [made EXCEPT ![a] = CHOOSE b \in new : TRUE]
            /\ MovesOn(a, "eth")
            /\ UNCHANGED stray
         \/ Over(a) /\ stray' = stray \cup Unrecorded(a)
      /\ UNCHANGED <<windows, record, maker, torn>>

\* Three values, one after the other; each may throw.
Claims(a) ==
  /\ \/ /\ stage[a] = "eth" /\ MovesOn(a, "bridge")
        /\ record' = [record EXCEPT ![a].eth = nic[a]]
     \/ /\ stage[a] = "bridge" /\ MovesOn(a, "flag")
        /\ record' = [record EXCEPT ![a].bridge = made[a]]
     \/ /\ stage[a] = "flag" /\ MovesOn(a, "wait")
        /\ record' = [record EXCEPT ![a].verified = "no"]
     \/ /\ stage[a] \in {"eth", "bridge", "flag"} /\ MovesOn(a, "undo")
        /\ UNCHANGED record
  /\ UNCHANGED <<windows, made, maker, stray, torn>>

\* The adapters, and then the host's address on the bridge, are waited for.
Waits(a) ==
  /\ \/ stage[a] = "wait" /\ MembersAre(nic[a], a) /\ MovesOn(a, "address")
     \/ stage[a] = "address" /\ MovesOn(a, "finish")
     \/ stage[a] \in {"wait", "address"} /\ MovesOn(a, "undo")
  /\ UNCHANGED <<windows, record, made, maker, stray, torn>>

Finishes(a) ==
  LET r == [eth |-> nic[a], bridge |-> made[a], verified |-> "yes"]
  IN  /\ stage[a] = "finish"
      /\ record' = [record EXCEPT ![a] = r]
      /\ \/ Ready(a, r) /\ Over(a)
         \/ MovesOn(a, "undo") /\ UNCHANGED made
      /\ UNCHANGED <<windows, maker, stray, torn>>

\* catch: the bridge is destroyed if it is what was made; else, or if netsh
\* refuses, it stays, with its record if that was written.
Undoes(a) ==
  /\ stage[a] = "undo"
  /\ \/ /\ MembersAre(nic[a], a) /\ made[a] \in bridges
        /\ Destroyed(made[a])
        /\ MovesOn(a, "restore")
        /\ UNCHANGED <<made, stray>>
     \/ /\ Over(a)
        /\ stray' = stray \cup Unrecorded(a)
        /\ UNCHANGED <<bridges, members>>
  /\ UNCHANGED <<addressed, record, maker, torn>>

\* -Remove with a bridge on record that is there.
Removes(a) ==
  /\ stage[a] = "remove"
  /\ record[a].bridge \in before[a] \cap bridges /\ record[a].eth = nic[a]
  /\ MembersAre(nic[a], a)
  /\ Destroyed(record[a].bridge)
  /\ MovesOn(a, "restore")
  /\ UNCHANGED <<addressed, record, made, maker, stray, torn>>

\* -Remove with none.
SkipsRemoval(a) ==
  /\ stage[a] = "remove"
  /\ record[a].bridge \notin before[a]
  /\ MovesOn(a, "forget")
  /\ UNCHANGED <<windows, record, made, maker, stray, torn>>

\* A mutant: the adapter is left as it is.
Restores_Nothing(a) ==
  /\ stage[a] = "restore"
  /\ MovesOn(a, "forget")
  /\ UNCHANGED <<windows, record, made, maker, stray, torn>>

\* Restore-Ethernet, which may throw; a rollback then ends, like a removal.
Restores(a) ==
  /\ stage[a] = "restore"
  /\ \/ /\ MovesOn(a, "forget")
        /\ addressed' = addressed \cup {nic[a]}
        /\ torn' = torn \ {nic[a]}
        /\ UNCHANGED made
     \/ /\ Over(a)
        /\ torn' = torn \cup {nic[a]}
        /\ UNCHANGED addressed
  /\ UNCHANGED <<bridges, members, record, maker, stray>>

Forgets(a) ==
  /\ stage[a] = "forget"
  /\ Over(a)
  /\ record' = [record EXCEPT ![a] = NoRecord]
  /\ UNCHANGED <<windows, maker, stray, torn>>

-----------------------------------------------------------------------------
(* Windows, and its user *)

\* The script is killed, or Windows restarts.
ScriptDies(a) ==
  /\ stage[a] # "idle"
  /\ Over(a)
  /\ stray' = stray \cup Unrecorded(a)
  /\ torn' = IF stage[a] = "restore" THEN torn \cup {nic[a]} ELSE torn
  /\ UNCHANGED <<windows, record, maker>>

\* The user makes a bridge of any adapters.
UserBridges(ns) ==
  /\ ns # {} /\ ns \cap Bound = {}
  /\ \E b \in Bridges :
       /\ maker[b] = "nobody"
       /\ maker' = [maker EXCEPT ![b] = "user"]
       /\ bridges' = bridges \cup {b}
       /\ members' = [members EXCEPT ![b] = ns]
  /\ addressed' = addressed \ ns
  /\ UNCHANGED <<record, stage, locals, stray, torn>>

\* Destroys one, but not in the moment in which a script looks for its own;
\* the adapters have their addresses again.
UserUnbridges(b) ==
  /\ b \in bridges /\ \A a \in Apps : stage[a] # "identify"
  /\ Destroyed(b)
  /\ addressed' = addressed \cup (members[b] \cap Nics)
  /\ UNCHANGED <<record, stage, locals, maker, stray, torn>>

\* Windows binds an adapter of a new bridge after a while; the user adds one to
\* a bridge, or takes it out.
Rebinds(b, x) ==
  /\ b \in bridges
  /\ \/ /\ x \in members[b]
        /\ members' = [members EXCEPT ![b] = @ \ {x}]
        /\ addressed' = addressed \cup ({x} \cap Nics)
     \/ /\ x \notin Bound
        /\ members' = [members EXCEPT ![b] = @ \cup {x}]
        /\ addressed' = addressed \ {x}
  /\ UNCHANGED <<bridges, record, stage, locals, maker, stray, torn>>

LanInit ==
  /\ bridges = {} /\ members = [b \in Bridges |-> {}]
  /\ addressed = Nics
  /\ record = [a \in Apps |-> NoRecord]
  /\ stage = [a \in Apps |-> "idle"]
  /\ nic = [a \in Apps |-> NoNic]
  /\ before = [a \in Apps |-> {}]
  /\ made = [a \in Apps |-> NoBridge]
  /\ maker = [b \in Bridges |-> "nobody"]
  /\ stray = {} /\ torn = {}

LanScript(a) ==
  \/ \E n \in Nics, to \in {"setup", "remove"} : Begins(a, n, to)
  \/ Declines(a) \/ Prepares(a) \/ Creates(a) \/ Identifies(a) \/ Claims(a)
  \/ Waits(a) \/ Finishes(a) \/ Undoes(a)
  \/ Removes(a) \/ SkipsRemoval(a) \/ Restores(a) \/ Forgets(a)

LanUser ==
  \/ \E ns \in SUBSET (Nics \cup Apps) : UserBridges(ns)
  \/ \E b \in Bridges : UserUnbridges(b)
  \/ \E b \in Bridges, x \in Nics \cup Apps : Rebinds(b, x)

LanNext == LanUser \/ \E a \in Apps : LanScript(a) \/ ScriptDies(a)

LanSpec == LanInit /\ [][LanNext]_bridging

-----------------------------------------------------------------------------
(* Properties *)

\* A bridge that a product has made is in its record until it is destroyed, or
\* known to the script that has just made it; and what is on record, or about
\* to be, is its own, never the user's or the other product's ("will not modify
\* a bridge it did not create").  The exception is a bridge whose script was
\* cut short, or was told of a failure, before it could write it down.
BridgesOwned ==
  \A b \in bridges :
    /\ maker[b] \in Apps /\ b \notin stray =>
         \/ record[maker[b]].bridge = b \/ made[maker[b]] = b
         \/ stage[maker[b]] = "identify"
    /\ \A a \in Apps : record[a].bridge = b \/ made[a] = b => maker[b] = a

\* Ethernet that is in no bridge has its addresses: after failures, rollbacks
\* and removals in any order, but for a Restore-Ethernet that itself failed or
\* was cut short.
EthernetKept ==
  \A n \in Nics \ (addressed \cup torn) :
    n \in Bound \/ \E a \in Apps : nic[a] = n /\ stage[a] = "restore"
=============================================================================
