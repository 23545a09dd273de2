--------------------------- MODULE GuestNetProofs ---------------------------
(* Theorems about what the launcher prepares for the guest's network         *)
(* (GuestNet), and about the two scripts that change Windows for it, with    *)
(* any number of devices, products, adapters, restarts and other programs    *)
(* (TapInstall, LanBridge), and about the settings of the Windows edition,   *)
(* with any processes, slots and texts of SHINOGI.INI (WinSettings).         *)

EXTENDS MCGuestNet, Recursion, FiniteSetTheorems,
        SequenceTheorems, TLAPS

-----------------------------------------------------------------------------
(* GuestNet: what the launcher has read is still so when it writes. *)

\* Of a preparation that goes on: MINT.CNF is as it was read, SHNNET.SH is as
\* it was read until it is written and then as it must be, and the backup was
\* made before either is written.
StillSo ==
  /\ pc \in {"script", "backup", "write", "config", "undo"} =>
       old = config /\ old \in Legacy \cup Hooked
  /\ pc \in {"backup", "write"} => script = oldScript
  /\ pc \in {"config", "undo"} => script = want
  /\ pc \in {"write", "config"} /\ Changed => backup = old

IInv == TypeOK /\ StillSo /\ UserTextKept

USE TextsAssumption, ScriptsAssumption

LEMMA InitInv == Init => IInv
  BY DEF Init, IInv, TypeOK, StillSo, UserTextKept, Nets, Texts, Files, Managed,
         Scripts, Places

\* The network hangs on MINT.CNF and the script alone.
LEMMA NetOfSame == ASSUME UNCHANGED <<config, script>> PROVE Net' = Net
  BY DEF Net

\* Where the hook is, the network is the one of the script.
LEMMA NetOfHook ==
  ASSUME config' \in Hooked, script' \in Nets PROVE Net' = script'
  BY DEF Net

LEMMA NetOfLines == /\ config \in Legacy => Net = NAT
                    /\ config' \in Legacy => Net' = NAT
  BY DEF Net

LEMMA StepTypes == ASSUME TypeOK, StillSo, [Next]_vars PROVE TypeOK'
<1> USE DEF TypeOK, Nets, Texts, Files, Managed, Scripts, Places
<1>1. CASE Begin      BY <1>1 DEF Begin, disk
<1>2. CASE GiveUp     BY <1>2 DEF GiveUp, disk
<1>3. CASE Look       BY <1>3 DEF Look, disk
<1>4. CASE ReadScript BY <1>4 DEF ReadScript, Changed, disk
<1>5. CASE Backup     BY <1>5 DEF Backup
<1>6. CASE WriteScript
  BY <1>6 DEF WriteScript, Written, Changed
<1>7. CASE WriteConfig BY <1>7 DEF WriteConfig
<1>8. CASE Undo       BY <1>8 DEF Undo
<1>9. CASE GuestEnds  BY <1>9 DEF GuestEnds, disk
<1>10. CASE Crash     BY <1>10 DEF Crash
<1>11. CASE UserEdits BY <1>11 DEF UserEdits
<1>12. CASE UNCHANGED vars BY <1>12 DEF vars, disk
<1> QED BY <1>1, <1>2, <1>3, <1>4, <1>5, <1>6, <1>7, <1>8, <1>9, <1>10, <1>11,
           <1>12 DEF Next, Prepare

LEMMA StepStillSo == ASSUME TypeOK, StillSo, [Next]_vars PROVE StillSo'
<1> USE DEF StillSo, Changed, TypeOK
<1>1. CASE Begin      BY <1>1 DEF Begin, disk
<1>2. CASE GiveUp     BY <1>2 DEF GiveUp, disk
<1>3. CASE Look       BY <1>3 DEF Look, disk
<1>4. CASE ReadScript BY <1>4 DEF ReadScript, disk
<1>5. CASE Backup     BY <1>5 DEF Backup
<1>6. CASE WriteScript
  BY <1>6 DEF WriteScript, Written
<1>7. CASE WriteConfig BY <1>7 DEF WriteConfig
<1>8. CASE Undo       BY <1>8 DEF Undo
<1>9. CASE GuestEnds  BY <1>9 DEF GuestEnds, disk
<1>10. CASE Crash     BY <1>10 DEF Crash
<1>11. CASE UserEdits BY <1>11 DEF UserEdits
<1>12. CASE UNCHANGED vars BY <1>12 DEF vars, disk
<1> QED BY <1>1, <1>2, <1>3, <1>4, <1>5, <1>6, <1>7, <1>8, <1>9, <1>10, <1>11,
           <1>12 DEF Next, Prepare

\* Only three steps touch MINT.CNF or its backup.
LEMMA StepKept == ASSUME IInv, [Next]_vars PROVE UserTextKept'
<1> USE DEF IInv
<1>1. CASE Backup
  \* The backup is written where there was none, so the hook was not in.
  <2>1. config = users
    BY <1>1 DEF Backup, StillSo, TypeOK, UserTextKept
  <2> QED BY <1>1, <2>1 DEF Backup, UserTextKept
<1>2. CASE WriteConfig
  <2>1. old \in Legacy /\ old = config /\ backup = old
    BY <1>2 DEF WriteConfig, StillSo, Changed, TypeOK
  <2>2. config = users
    BY <2>1 DEF UserTextKept
  <2>3. CASE config' = HookOf[old]
    BY <1>2, <2>1, <2>2, <2>3 DEF WriteConfig, UserTextKept
  <2>4. CASE UNCHANGED config
    BY <1>2, <2>2, <2>4 DEF WriteConfig, UserTextKept
  <2> QED BY <1>2, <2>3, <2>4 DEF WriteConfig
<1>3. CASE Crash
  <2>1. CASE pc = "backup" /\ backup = NoFile
    <3>1. config = users
      BY <2>1 DEF StillSo, TypeOK, UserTextKept
    <3> QED BY <1>3, <3>1 DEF Crash, UserTextKept
  <2>2. CASE ~(pc = "backup" /\ backup = NoFile)
    BY <1>3, <2>2 DEF Crash, UserTextKept
  <2> QED BY <2>1, <2>2
<1>4. CASE UserEdits
  BY <1>4 DEF UserEdits, UserTextKept
<1>5. CASE UNCHANGED <<config, backup, users>>
  BY <1>5 DEF UserTextKept
<1>6. CASE Begin \/ GiveUp \/ Look \/ ReadScript \/ WriteScript \/ Undo \/ GuestEnds
           \/ UNCHANGED vars
  <2>1. UNCHANGED <<config, backup, users>>
    BY <1>6 DEF Begin, GiveUp, Look, ReadScript, WriteScript, Undo, GuestEnds, vars, disk
  <2> QED BY <2>1, <1>5
<1> QED BY <1>1, <1>2, <1>3, <1>4, <1>6 DEF Next, Prepare

LEMMA Inductive == IInv /\ [Next]_vars => IInv'
  BY StepTypes, StepStillSo, StepKept DEF IInv

LEMMA Invariance == Spec => []IInv
  BY InitInv, Inductive, PTL DEF Spec

\* Types, and that only a MINT.CNF with the two lines is backed up or replaced.
THEOREM TypeCorrect == Spec => []TypeOK
<1>1. IInv => TypeOK
  BY DEF IInv
<1> QED BY <1>1, Invariance, PTL

\* The MINT.CNF of the user is there or in the backup, after any failure of
\* prepare_guest() and whenever it is killed.
THEOREM UsersTextKept == Spec => []UserTextKept
<1>1. IInv => UserTextKept
  BY DEF IInv
<1> QED BY <1>1, Invariance, PTL

\* prepare_guest() says yes only when the guest will have the network selected.
LEMMA StepBoots ==
  ASSUME IInv, Next, pc' = "boot", pc # "boot"
  PROVE  Net' = want \/ (want = NAT /\ config' \notin Legacy \cup Hooked)
<1> USE DEF IInv
<1>1. CASE Look
  <2>1. want = NAT /\ config' = config
    BY <1>1 DEF Look, disk
  <2> QED BY <2>1, NetOfLines, <1>1 DEF Look, Texts
<1>2. CASE WriteScript
  <2>1. old \in Hooked /\ config' = old /\ script' = want
    BY <1>2 DEF WriteScript, Written, Changed, StillSo, TypeOK
  <2> QED BY <2>1, NetOfHook DEF TypeOK
<1>3. CASE WriteConfig
  <2>1. config' \in Hooked /\ script' = want
    BY <1>3 DEF WriteConfig, StillSo, TypeOK
  <2> QED BY <2>1, NetOfHook DEF TypeOK
<1> QED BY <1>1, <1>2, <1>3 DEF Next, Prepare, Begin, GiveUp, ReadScript, Backup, Undo,
                               GuestEnds, Crash, UserEdits

\* A guest is started only on the network of the settings.
THEOREM BootsAsSelected == Spec => BootAsSelected
<1>1. IInv /\ [Next]_vars =>
        [pc' = "boot" /\ pc # "boot" =>
           Net' = want \/ (want = NAT /\ config' \notin Legacy \cup Hooked)]_vars
  BY StepBoots
<1> QED BY <1>1, Invariance, PTL DEF Spec, BootAsSelected

LEMMA StepNet ==
  ASSUME IInv, Next PROVE UserEdits \/ Net' = Net \/ Net' = want
<1> USE DEF IInv
<1>1. CASE WriteScript
  <2>1. config' = config /\ config \in Legacy \cup Hooked
    BY <1>1 DEF WriteScript, StillSo
  <2>2. CASE script' = script
    BY <2>1, <2>2, NetOfSame
  <2>3. CASE script' = want
    <3>1. CASE config \in Legacy
      BY <2>1, <3>1, NetOfLines
    <3>2. CASE config \in Hooked
      BY <2>1, <2>3, <3>2, NetOfHook DEF TypeOK
    <3> QED BY <2>1, <3>1, <3>2
  <2> QED BY <1>1, <2>2, <2>3 DEF WriteScript
<1>2. CASE WriteConfig
  <2>1. CASE UNCHANGED config
    BY <1>2, <2>1, NetOfSame DEF WriteConfig
  <2>2. CASE config' = HookOf[old]
    <3>1. config' \in Hooked /\ script' = want
      BY <1>2, <2>2 DEF WriteConfig, StillSo, TypeOK
    <3> QED BY <3>1, NetOfHook DEF TypeOK
  <2> QED BY <1>2, <2>1, <2>2 DEF WriteConfig
<1>3. CASE Undo
  BY <1>3, NetOfLines DEF Undo, StillSo, TypeOK
<1>4. CASE Begin \/ GiveUp \/ Look \/ ReadScript \/ Backup \/ GuestEnds \/ Crash
  <2>1. UNCHANGED <<config, script>>
    BY <1>4 DEF Begin, GiveUp, Look, ReadScript, Backup, GuestEnds, Crash, disk
  <2> QED BY <2>1, NetOfSame
<1> QED BY <1>1, <1>2, <1>3, <1>4 DEF Next, Prepare

\* Whatever fails, the guest has the network of before or the one selected.
THEOREM NetIsAtomic == Spec => NetAtomic
<1>1. IInv /\ [Next]_vars => [UserEdits \/ Net' = Net \/ Net' = want]_vars
  BY StepNet
<1> QED BY <1>1, Invariance, PTL DEF Spec, NetAtomic

LEMMA StepOthers ==
  ASSUME IInv, Next
  PROVE  UserEdits \/ /\ script \notin Managed \cup {NoFile} => script' = script
                      /\ backup # NoFile => backup' = backup
                      /\ config \notin Legacy => config' = config
<1> USE DEF IInv
<1>1. CASE WriteScript BY <1>1 DEF WriteScript, StillSo, TypeOK
<1>2. CASE WriteConfig BY <1>2 DEF WriteConfig, StillSo, TypeOK
<1>3. CASE Undo        BY <1>3 DEF Undo, StillSo, TypeOK, Managed
<1>4. CASE Backup      BY <1>4 DEF Backup
<1>5. CASE Crash       BY <1>5 DEF Crash
<1>6. CASE Begin \/ GiveUp \/ Look \/ ReadScript \/ GuestEnds
  BY <1>6 DEF Begin, GiveUp, Look, ReadScript, GuestEnds, disk
<1> QED BY <1>1, <1>2, <1>3, <1>4, <1>5, <1>6 DEF Next, Prepare

\* What is not the launcher's own is not changed by it.
THEOREM OthersAreUntouched == Spec => OthersUntouched
<1>1. IInv /\ [Next]_vars =>
        [UserEdits \/ /\ script \notin Managed \cup {NoFile} => script' = script
                      /\ backup # NoFile => backup' = backup
                      /\ config \notin Legacy => config' = config]_vars
  BY StepOthers
<1> QED BY <1>1, Invariance, PTL DEF Spec, OthersUntouched

-----------------------------------------------------------------------------
(* TapInstall: no device of a product's is forgotten. *)

\* What the script will read from its program, at each step of that: the
\* identity once it is published, and none only when its device is not there.
Line ==
  setup = "install" =>
    /\ saved[product] = None
    /\ program # "none"
    /\ own \notin lost
    /\ program = "start" => own = NoId /\ line.id = NoId
    /\ program \in {"stage", "register"} => own \notin nodes
    /\ program \in {"stage", "register", "install", "verify", "undo"} => own \in Ids /\ line.id = own
    /\ program = "ended" => line.id = own \/ (line.id = NoId /\ own \notin nodes)

TapInv == TapTypeOK /\ Line /\ EveryDeviceOwned

LEMMA TapStart == TapInit => TapInv
<1> SUFFICES ASSUME TapInit PROVE TapInv
  OBVIOUS
<1>1. saved \in [Products -> [id : Ids \cup {NoId}, restart : 0..MaxBoots, recovery : BOOLEAN]]
  BY IdsAssumption DEF TapInit, None
<1>2. line \in [id : Ids \cup {NoId}, restart : BOOLEAN, code : Codes]
  BY DEF TapInit, NoLine, Codes
<1>3. TapTypeOK
  <2>1. boot \in 1..MaxBoots
    BY IdsAssumption DEF TapInit
  <2>2. program \in Steps
    BY DEF TapInit, Steps
  <2>3. /\ going \subseteq nodes /\ nodes \subseteq Ids /\ lost \subseteq Ids
        /\ setup \in {"idle", "ensure", "install"} /\ product \in Products
        /\ own \in Ids \cup {NoId} /\ restart \in BOOLEAN
    BY DEF TapInit
  <2> QED BY <1>1, <1>2, <2>1, <2>2, <2>3 DEF TapTypeOK
<1>4. Line
  BY DEF TapInit, Line
<1>5. EveryDeviceOwned
  BY DEF TapInit, EveryDeviceOwned, Pending
<1> QED BY <1>3, <1>4, <1>5 DEF TapInv

LEMMA ScriptStep == TapInv /\ Script => TapInv'
<1> SUFFICES ASSUME TapInv, Script PROVE TapInv'
  OBVIOUS
<1> USE IdsAssumption DEF TapInv, TapTypeOK, Line, EveryDeviceOwned, Pending
<1>1. CASE \E p \in Products : Enters(p)
  BY <1>1 DEF Enters, installing
<1>2. CASE Settled
  BY <1>2 DEF Settled, installing
<1>3. CASE Recovered
  BY <1>3 DEF Recovered, installing, None
<1>4. CASE Refuses
  BY <1>4 DEF Refuses, installing
<1>5. CASE Starts
  <2>1. line' \in [id : Ids \cup {NoId}, restart : BOOLEAN, code : Codes] /\ line'.id = NoId
    BY <1>5 DEF Starts, NoLine, Codes
  <2>2. TapTypeOK'
    BY <1>5, <2>1 DEF Starts, Steps
  <2>3. Line'
    BY <1>5, <2>1 DEF Starts
  <2>4. EveryDeviceOwned'
    BY <1>5 DEF Starts
  <2> QED BY <2>2, <2>3, <2>4
<1>6. CASE TimesOut
  BY <1>6 DEF TimesOut, installing, Steps
<1>7. CASE KillFails
  BY <1>7 DEF KillFails, installing
<1>8. CASE Records
  <2>1. CASE line.id = NoId
    BY <1>8, <2>1 DEF Records, installing
  <2>2. CASE line.id # NoId
    <3>1. saved' = [saved EXCEPT ![product] =
                      [id |-> line.id, restart |-> IF line.restart THEN boot ELSE 0,
                       recovery |-> line.code # "ok"]]
      BY <1>8, <2>2 DEF Records
    <3>2. TapTypeOK'
      BY <1>8, <2>2, <3>1 DEF Records, installing
    <3>3. \A i \in Ids : (\E p \in Products : saved[p].id = i) => \E p \in Products : saved'[p].id = i
      BY <1>8, <3>1 DEF Records, None
    <3>4. line.id = own /\ saved'[product].id = own
      BY <1>8, <2>2, <3>1 DEF Records
    <3>5. EveryDeviceOwned'
      BY <1>8, <3>3, <3>4 DEF Records
    <3> QED BY <1>8, <3>2, <3>5 DEF Records
  <2> QED BY <2>1, <2>2
<1> QED BY <1>1, <1>2, <1>3, <1>4, <1>5, <1>6, <1>7, <1>8 DEF Script

LEMMA ProgramStep == TapInv /\ Program => TapInv'
<1> SUFFICES ASSUME TapInv, Program PROVE TapInv'
  OBVIOUS
<1> USE IdsAssumption DEF TapInv, TapTypeOK, Line, EveryDeviceOwned, Pending, Running, Steps
<1>1. CASE Publish
  BY <1>1 DEF Publish, NoLine, Codes
<1>2. CASE Stage
  BY <1>2 DEF Stage
<1>3. CASE FailsEarly
  BY <1>3 DEF FailsEarly, Ends, Codes
<1>4. CASE Register
  BY <1>4 DEF Register
<1>5. CASE InstallDriver
  BY <1>5 DEF InstallDriver
<1>6. CASE Verify
  BY <1>6 DEF Verify, Ends, Codes
<1>7. CASE RollBack
  <2>1. PICK id \in {own, NoId}, r \in BOOLEAN : Ends(id, r, "failed")
    BY <1>7 DEF RollBack
  <2>2. /\ program' = "ended"
        /\ line' = [id |-> id, restart |-> r, code |-> "failed"]
    BY <2>1 DEF Ends
  <2>3. nodes' \subseteq nodes /\ going' \subseteq nodes' /\ own \in Ids
    BY <1>7 DEF RollBack
  <2>4. TapTypeOK'
    BY <1>7, <2>2, <2>3 DEF RollBack, Codes
  <2>5. line'.id = own \/ (line'.id = NoId /\ own \notin nodes')
    <3>1. CASE nodes' = nodes \ {own}
      BY <2>2, <3>1
    <3>2. CASE Ends(own, TRUE, "failed") \/ Ends(own, restart, "failed")
      BY <3>2 DEF Ends
    <3> QED BY <1>7, <3>1, <3>2 DEF RollBack
  <2>6. Line'
    BY <1>7, <2>2, <2>3, <2>5 DEF RollBack
  <2>7. EveryDeviceOwned'
    BY <1>7, <2>3 DEF RollBack
  <2> QED BY <2>4, <2>6, <2>7
<1> QED BY <1>1, <1>2, <1>3, <1>4, <1>5, <1>6, <1>7 DEF Program

LEMMA OutsideStep == TapInv /\ Outside => TapInv'
<1> SUFFICES ASSUME TapInv, Outside PROVE TapInv'
  OBVIOUS
<1> USE IdsAssumption DEF TapInv, TapTypeOK, Line, EveryDeviceOwned, Pending
<1>1. CASE Interrupted
  BY <1>1 DEF Interrupted, installing
<1>2. CASE RecordsHalf
  <2>1. saved' = [saved EXCEPT ![product] = [id |-> line.id, restart |-> 0, recovery |-> FALSE]]
    BY <1>2 DEF RecordsHalf
  <2>2. TapTypeOK'
    BY <1>2, <2>1 DEF RecordsHalf, installing, None
  <2>3. \A i \in Ids : (\E p \in Products : saved[p].id = i) => \E p \in Products : saved'[p].id = i
    BY <1>2, <2>1 DEF RecordsHalf, None
  <2>4. line.id = own /\ saved'[product].id = own
    BY <1>2, <2>1 DEF RecordsHalf, None
  <2>5. EveryDeviceOwned'
    BY <1>2, <2>3, <2>4 DEF RecordsHalf
  <2> QED BY <1>2, <2>2, <2>5 DEF RecordsHalf
<1>3. CASE Restarts
  BY <1>3 DEF Restarts, installing
<1>4. CASE \E i \in Ids : GoesOn(i)
  BY <1>4 DEF GoesOn, installing
<1>5. CASE \E i \in Ids : Uninstalls(i)
  BY <1>5 DEF Uninstalls, installing
<1> QED BY <1>1, <1>2, <1>3, <1>4, <1>5 DEF Outside

LEMMA TapStep == TapInv /\ [TapNext]_tap => TapInv'
<1> SUFFICES ASSUME TapInv, [TapNext]_tap PROVE TapInv'
  OBVIOUS
<1>1. CASE UNCHANGED tap
  BY <1>1 DEF TapInv, TapTypeOK, Line, EveryDeviceOwned, Pending, tap, installing
<1> QED BY <1>1, ScriptStep, ProgramStep, OutsideStep DEF TapNext

\* Every reachable state is well typed, whatever fails, is killed or removed.
THEOREM TapTypeCorrect == TapSpec => []TapTypeOK
<1> QED BY TapStart, TapStep, PTL DEF TapSpec, TapInv

\* Whatever of the set-up fails, times out or waits for a restart, a device of
\* a product's is the one its record names, or the one the running setup is
\* about to record.
THEOREM DevicesAreOwned == TapSpec => []EveryDeviceOwned
<1>1. TapInv => EveryDeviceOwned
  BY DEF TapInv
<1> QED BY <1>1, TapStart, TapStep, PTL DEF TapSpec

-----------------------------------------------------------------------------
(* LanBridge *)

\* Types; and a script that runs has an adapter.
LanTyped == LanTypeOK /\ \A a \in Apps : stage[a] # "idle" => nic[a] \in Nics

LEMMA LanInitTypes == LanInit => LanTyped
BY DEF LanInit, LanTypeOK, LanStages, NoRecord, LanTyped

LEMMA OverTypes ==
  ASSUME LanTyped, NEW a \in Apps, Over(a)
  PROVE  /\ stage' \in [Apps -> LanStages] /\ nic' \in [Apps -> Nics \cup {NoNic}]
         /\ before' \in [Apps -> SUBSET Bridges] /\ made' \in [Apps -> Bridges \cup {NoBridge}]
         /\ \A x \in Apps : stage'[x] # "idle" => nic'[x] \in Nics
BY DEF LanTyped, LanTypeOK, Over, LanStages

LEMMA MoveTypes ==
  ASSUME LanTyped, NEW a \in Apps, stage[a] # "idle", NEW to \in LanStages, MovesOn(a, to)
  PROVE  /\ stage' \in [Apps -> LanStages] /\ nic' \in [Apps -> Nics \cup {NoNic}]
         /\ before' \in [Apps -> SUBSET Bridges]
         /\ \A x \in Apps : stage'[x] # "idle" => nic'[x] \in Nics
BY DEF LanTyped, LanTypeOK, MovesOn

LEMMA LanScriptTypes == ASSUME LanTyped, NEW a \in Apps, LanScript(a) PROVE LanTyped'
<1> USE DEF LanTyped, LanTypeOK, windows
<1>1. ASSUME NEW n \in Nics, NEW to \in {"setup", "remove"}, Begins(a, n, to) PROVE LanTyped'
  BY <1>1 DEF Begins, LanStages
<1>2. CASE Declines(a)
  BY <1>2, OverTypes DEF Declines
<1>3. CASE Prepares(a)
  BY <1>3, MoveTypes DEF Prepares, LanStages
<1>4. CASE Creates(a)
  <2>1. PICK b \in Bridges, bind \in SUBSET {nic[a], a} :
       /\ bridges' = bridges \cup {b}
       /\ maker' = [maker EXCEPT ![b] = a]
       /\ Bound \cap bind = {}
       /\ members' = [members EXCEPT ![b] = bind]
       /\ addressed' = addressed \ bind
       /\ \/ MovesOn(a, "identify") /\ UNCHANGED <<made, stray>>
          \/ Over(a) /\ stray' = stray \cup {b}
    BY <1>4 DEF Creates
  <2>2. bind \in SUBSET (Nics \cup Apps)
    BY <1>4, <2>1 DEF Creates
  <2>3. members' \in [Bridges -> SUBSET (Nics \cup Apps)] /\ maker' \in [Bridges -> Apps \cup {"user", "nobody"}]
    BY <2>1, <2>2
  <2> QED BY <1>4, <2>1, <2>3, OverTypes, MoveTypes DEF Creates, LanStages
<1>5. CASE Identifies(a)
  <2> DEFINE new == bridges \ before[a]
  <2>1. CASE /\ Cardinality(new) = 1
             /\ made' = [made EXCEPT ![a] = CHOOSE b \in new : TRUE]
             /\ MovesOn(a, "eth")
             /\ UNCHANGED stray
    <3>1. new # {}
      <4> HIDE DEF new
      <4>1. Cardinality(new) = 1 /\ Cardinality({}) = 0
        BY <2>1, FS_EmptySet
      <4>2. CASE new = {}
        <5>1. Cardinality(new) = Cardinality({})
          BY <4>2
        <5> QED BY <4>1, <5>1
      <4> QED BY <4>2

    <3>2. (CHOOSE b \in new : TRUE) \in Bridges
      BY <3>1
    <3>3. made' \in [Apps -> Bridges \cup {NoBridge}]
      BY <2>1, <3>2
    <3> QED BY <1>5, <2>1, <3>3, MoveTypes DEF Identifies, LanStages
  <2>2. CASE Over(a) /\ stray' = stray \cup Unrecorded(a)
    BY <1>5, <2>2, OverTypes DEF Identifies, Unrecorded
  <2> QED BY <1>5, <2>1, <2>2 DEF Identifies
<1>6. CASE Claims(a)
  <2>1. nic[a] \in Nics \cup {NoNic} /\ made[a] \in Bridges \cup {NoBridge}
    OBVIOUS
  <2> DEFINE R == [eth : Nics \cup {NoNic}, bridge : Bridges \cup {NoBridge}, verified : {"unset", "no", "yes"}]
  <2>2. \/ record' = [record EXCEPT ![a] = [record[a] EXCEPT !.eth = nic[a]]]
        \/ record' = [record EXCEPT ![a] = [record[a] EXCEPT !.bridge = made[a]]]
        \/ record' = [record EXCEPT ![a] = [record[a] EXCEPT !.verified = "no"]]
        \/ record' = record
    BY <1>6 DEF Claims
  <2>4. /\ [record[a] EXCEPT !.eth = nic[a]] \in R
        /\ [record[a] EXCEPT !.bridge = made[a]] \in R
        /\ [record[a] EXCEPT !.verified = "no"] \in R
        /\ record \in [Apps -> R]
    BY <2>1
  <2>3. record' \in [Apps -> R]
    <3> HIDE DEF R, LanTyped, LanTypeOK
    <3> QED BY <2>2, <2>4

  <2> QED BY <1>6, <2>3, MoveTypes DEF Claims, LanStages

<1>7. CASE Waits(a)
  BY <1>7, MoveTypes DEF Waits, LanStages
<1>8. CASE Finishes(a)
  <2>1. record' \in [Apps -> [eth : Nics \cup {NoNic}, bridge : Bridges \cup {NoBridge},
                          verified : {"unset", "no", "yes"}]]
    BY <1>8 DEF Finishes
  <2> QED BY <1>8, <2>1, MoveTypes, OverTypes DEF Finishes, LanStages
<1>9. CASE Undoes(a)
  BY <1>9, MoveTypes, OverTypes DEF Undoes, LanStages, Destroyed, Unrecorded
<1>10. CASE Removes(a)
  BY <1>10, MoveTypes DEF Removes, LanStages, Destroyed
<1>11. CASE SkipsRemoval(a)
  BY <1>11, MoveTypes DEF SkipsRemoval, LanStages
<1>12. CASE Restores(a)
  <2>1. stage[a] # "idle" /\ nic[a] \in Nics
    BY <1>12 DEF Restores
  <2> QED BY <1>12, <2>1, MoveTypes, OverTypes DEF Restores, LanStages
<1>13. CASE Forgets(a)
  BY <1>13, OverTypes DEF Forgets, NoRecord
<1> QED BY <1>1, <1>2, <1>3, <1>4, <1>5, <1>6, <1>7, <1>8, <1>9, <1>10, <1>11, <1>12, <1>13 DEF LanScript

LEMMA LanTypes == LanTyped /\ [LanNext]_bridging => LanTyped'
<1> SUFFICES ASSUME LanTyped, [LanNext]_bridging PROVE LanTyped'
  OBVIOUS
<1> USE DEF LanTyped, LanTypeOK, windows, locals
<1>1. CASE \E ns \in SUBSET (Nics \cup Apps) : UserBridges(ns)
  BY <1>1 DEF UserBridges
<1>2. CASE \E b \in Bridges : UserUnbridges(b)
  BY <1>2 DEF UserUnbridges, Destroyed
<1>3. CASE \E b \in Bridges, x \in Nics \cup Apps : Rebinds(b, x)
  BY <1>3 DEF Rebinds
<1>4. ASSUME NEW a \in Apps, ScriptDies(a) PROVE LanTyped'
  <2>1. nic[a] \in Nics /\ Unrecorded(a) \subseteq Bridges
    BY <1>4 DEF ScriptDies, Unrecorded
  <2> QED BY <1>4, <2>1, OverTypes DEF ScriptDies
<1>5. CASE UNCHANGED bridging
  BY <1>5 DEF bridging
<1> QED BY <1>1, <1>2, <1>3, <1>4, <1>5, LanScriptTypes DEF LanNext, LanUser

-----------------------------------------------------------------------------
(* Whose bridge it is *)

\* Bridges are made once, and nobody has another's in its record or its hand.
Made ==
  /\ IsFiniteSet(bridges)
  /\ \A b \in bridges : maker[b] # "nobody"
  /\ \A a \in Apps, b \in Bridges : record[a].bridge = b \/ made[a] = b => maker[b] = a

\* How far script a has come with the bridge it makes, or destroys.
HasMade(a) ==
  /\ stage[a] \in {"idle", "setup", "create", "identify", "remove"} => made[a] = NoBridge
  /\ stage[a] \in {"create", "identify"} => before[a] = {}
  /\ stage[a] \in {"create", "identify", "eth", "bridge"} => record[a].bridge = NoBridge
  /\ stage[a] = "identify" => \E b \in bridges : maker[b] = a
  /\ stage[a] \in {"eth", "bridge", "flag", "wait", "address", "finish", "undo"} => made[a] \in Bridges
  /\ stage[a] \in {"flag", "wait", "address", "finish"} => record[a].bridge = made[a]
  /\ stage[a] = "undo" => record[a].bridge \in {NoBridge, made[a]}
  /\ stage[a] \in {"restore", "forget"} => record[a].bridge \notin bridges /\ made[a] \notin bridges
  /\ stage[a] = "remove" /\ record[a].bridge \in bridges => record[a].bridge \in before[a]

\* A bridge of a's is known to it.
Owned(a) ==
  \A b \in bridges :
    maker[b] = a /\ b \notin stray => record[a].bridge = b \/ made[a] = b \/ stage[a] = "identify"

LanInv == Made /\ (\A a \in Apps : HasMade(a) /\ Owned(a)) /\ EthernetKept

\* What a script does to its own record and hand is nothing to the others.
OthersSame(a) ==
  \A x \in Apps \ {a} :
    stage'[x] = stage[x] /\ before'[x] = before[x] /\ made'[x] = made[x] /\ record'[x] = record[x]

LEMMA OthersKeep ==
  ASSUME LanTyped, LanInv, NEW a \in Apps, OthersSame(a), NEW x \in Apps \ {a},
         bridges' = bridges \/ bridges' = bridges \ {record[a].bridge} \/ bridges' = bridges \ {made[a]},
         UNCHANGED maker, stray \subseteq stray'
  PROVE  (HasMade(x) /\ Owned(x))'
<1>1. HasMade(x) /\ Owned(x) /\ stage'[x] = stage[x] /\ before'[x] = before[x] /\ made'[x] = made[x] /\ record'[x] = record[x]
  BY DEF LanInv, OthersSame
<1>2. bridges' \subseteq bridges /\ \A b \in bridges : maker[b] = x => b \in bridges'
  <2>1. \A b \in bridges : b \in Bridges /\ (record[a].bridge = b \/ made[a] = b => maker[b] = a)
    BY DEF LanInv, Made, LanTyped, LanTypeOK
  <2>2. a # x
    OBVIOUS
  <2> QED BY <2>1, <2>2
<1>3. HasMade(x)'
  BY <1>1, <1>2 DEF HasMade
<1>4. Owned(x)'
  BY <1>1, <1>2 DEF Owned
<1> QED BY <1>3, <1>4

\* The end of a script that leaves no bridge without a record but the stray.
LEMMA OverKeeps ==
  ASSUME LanTyped, LanInv, NEW a \in Apps, Over(a), UNCHANGED <<bridges, maker>>,
         \A x \in Apps : record'[x].bridge = record[x].bridge /\ (x # a => record'[x] = record[x]),
         stray \subseteq stray', made[a] \in bridges \/ stage[a] = "identify" => Unrecorded(a) \subseteq stray'
  PROVE  Made' /\ \A x \in Apps : (HasMade(x) /\ Owned(x))'
<1>1. OthersSame(a)
  BY DEF OthersSame, Over, LanTyped, LanTypeOK
<1>2. stage'[a] = "idle" /\ made'[a] = NoBridge /\ \A x \in Apps \ {a} : made'[x] = made[x]
  BY DEF Over, LanTyped, LanTypeOK
<1>3. Made'
  <2>1. \A x \in Apps, b \in Bridges : record'[x].bridge = b \/ made'[x] = b => record[x].bridge = b \/ made[x] = b
    BY <1>2, BridgeAssumption
  <2> QED BY <2>1 DEF LanInv, Made
<1>4. HasMade(a)'
  BY <1>2 DEF HasMade
<1>5. Owned(a)'
  <2> SUFFICES ASSUME NEW b \in bridges, maker[b] = a, b \notin stray' PROVE record[a].bridge = b
    BY DEF Owned
  <2>1. b \in Bridges /\ b \notin stray
    BY DEF LanTyped, LanTypeOK
  <2>2. CASE Unrecorded(a) \subseteq stray'
    BY <2>2 DEF Unrecorded
  <2>3. CASE ~(Unrecorded(a) \subseteq stray')
    BY <2>1, <2>3 DEF LanInv, Owned
  <2> QED BY <2>2, <2>3
<1>6. \A x \in Apps \ {a} : (HasMade(x) /\ Owned(x))'
  BY <1>1, OthersKeep
<1> QED BY <1>3, <1>4, <1>5, <1>6

\* A step to another stage, with the bridges as they are, in which a script may
\* write down the one it has made.
LEMMA MoveKeeps ==
  ASSUME LanTyped, LanInv, NEW a \in Apps, NEW to \in LanStages, MovesOn(a, to), stage[a] # "identify",
         UNCHANGED <<bridges, maker, made, stray>>,
         \A x \in Apps \ {a} : record'[x] = record[x],
         \/ record'[a].bridge = record[a].bridge
         \/ record[a].bridge = NoBridge /\ record'[a].bridge = made[a],
         HasMade(a)'
  PROVE  Made' /\ \A x \in Apps : (HasMade(x) /\ Owned(x))'
<1>1. OthersSame(a)
  BY DEF OthersSame, MovesOn, LanTyped, LanTypeOK
<1>2. Made'
  <2>1. \A x \in Apps, b \in Bridges : record'[x].bridge = b \/ made'[x] = b => record[x].bridge = b \/ made[x] = b
    OBVIOUS
  <2> QED BY <2>1 DEF LanInv, Made
<1>3. Owned(a)'
  <2>1. NoBridge \notin bridges
    BY BridgeAssumption DEF LanTyped, LanTypeOK
  <2> QED BY <2>1 DEF LanInv, Owned
<1>4. \A x \in Apps \ {a} : (HasMade(x) /\ Owned(x))'
  BY <1>1, OthersKeep
<1> QED BY <1>2, <1>3, <1>4

LEMMA CreatesKeeps ==
  ASSUME LanTyped, LanInv, NEW a \in Apps, Creates(a)
  PROVE  Made' /\ \A x \in Apps : (HasMade(x) /\ Owned(x))'
<1>1. PICK b \in Bridges : /\ maker[b] = "nobody"
                           /\ bridges' = bridges \cup {b}
                           /\ maker' = [maker EXCEPT ![b] = a]
                           /\ \/ MovesOn(a, "identify") /\ UNCHANGED <<made, stray>>
                              \/ Over(a) /\ stray' = stray \cup {b}
  BY DEF Creates
<1>2. stage[a] = "create" /\ UNCHANGED record
  BY DEF Creates
<1>3. b \notin bridges /\ a # "nobody" /\ bridges \subseteq Bridges /\ made[a] = NoBridge /\ NoBridge \notin Bridges
  BY <1>1, <1>2, BridgeAssumption DEF LanInv, Made, HasMade, LanTyped, LanTypeOK
<1>4. \A x \in Apps : (record[x].bridge # b /\ made[x] # b)
  BY <1>1, BridgeAssumption DEF LanInv, Made, LanTyped, LanTypeOK
<1>5. \A c \in Bridges : maker'[c] = IF c = b THEN a ELSE maker[c]
  BY <1>1 DEF LanTyped, LanTypeOK
<1>6. UNCHANGED made
  BY <1>1, <1>3 DEF Over, LanTyped, LanTypeOK
<1>7. OthersSame(a) /\ stage'[a] \in {"idle", "identify"} /\ (stage'[a] = "identify" => before'[a] = before[a])
  BY <1>1, <1>2, <1>6 DEF OthersSame, MovesOn, Over, LanTyped, LanTypeOK
<1>8. Made'
  <2>1. IsFiniteSet(bridges')
    BY <1>1, FS_AddElement DEF LanInv, Made
  <2> QED BY <1>1, <1>2, <1>3, <1>4, <1>5, <1>6, <2>1 DEF LanInv, Made
<1>9. HasMade(a)'
  <2>1. HasMade(a)
    BY DEF LanInv
  <2>2. b \in bridges' /\ maker'[b] = a
    BY <1>1, <1>5
  <2> QED BY <1>2, <1>3, <1>6, <1>7, <2>1, <2>2 DEF HasMade
<1>10. Owned(a)'
  <2>1. CASE stage'[a] = "identify"
    BY <2>1 DEF Owned
  <2>2. CASE stage'[a] = "idle"
    <3>1. Over(a) /\ stray' = stray \cup {b}
      BY <1>1, <2>2 DEF MovesOn, LanTyped, LanTypeOK
    <3>2. \A c \in bridges' : c # b => c \in bridges /\ maker'[c] = maker[c]
      BY <1>1, <1>3, <1>5
    <3> QED BY <1>2, <1>6, <2>2, <3>1, <3>2 DEF LanInv, Owned
  <2> QED BY <1>7, <2>1, <2>2
<1>11. ASSUME NEW x \in Apps \ {a} PROVE (HasMade(x) /\ Owned(x))'
  <2>1. HasMade(x) /\ Owned(x) /\ stage'[x] = stage[x] /\ before'[x] = before[x] /\ made'[x] = made[x]
        /\ record'[x] = record[x] /\ record[x].bridge # b /\ made[x] # b
    BY <1>4, <1>7 DEF LanInv, OthersSame
  <2>2. \A c \in bridges : c \in bridges' /\ maker'[c] = maker[c]
    BY <1>1, <1>3, <1>5
  <2>3. HasMade(x)'
    BY <1>1, <2>1, <2>2 DEF HasMade
  <2>4. Owned(x)'
    <3>1. \A c \in bridges' : maker'[c] = x => c \in bridges /\ maker[c] = x
      BY <1>1, <1>3, <1>5
    <3>2. stray \subseteq stray'
      BY <1>1
    <3> QED BY <2>1, <3>1, <3>2 DEF Owned
  <2> QED BY <2>3, <2>4
<1> QED BY <1>8, <1>9, <1>10, <1>11

\* The only bridge there is, is the one just made.
LEMMA IdentifiesKeeps ==
  ASSUME LanTyped, LanInv, NEW a \in Apps, Identifies(a)
  PROVE  Made' /\ \A x \in Apps : (HasMade(x) /\ Owned(x))'
<1> DEFINE new == bridges \ before[a]
<1>1. stage[a] = "identify" /\ UNCHANGED <<bridges, record, maker>> /\ new = bridges
  BY DEF Identifies, LanInv, HasMade, windows
<1>2. CASE Over(a) /\ stray' = stray \cup Unrecorded(a)
  BY <1>1, <1>2, OverKeeps
<1>3. CASE /\ Cardinality(new) = 1
           /\ made' = [made EXCEPT ![a] = CHOOSE b \in new : TRUE]
           /\ MovesOn(a, "eth")
           /\ UNCHANGED stray
  <2>1. PICK b : bridges = {b}
    BY <1>1, <1>3, FS_Singleton DEF LanInv, Made
  <2>2. b \in Bridges /\ maker[b] = a
    BY <1>1, <2>1 DEF LanInv, HasMade, LanTyped, LanTypeOK
  <2>3. made'[a] = b /\ \A x \in Apps \ {a} : made'[x] = made[x]
    BY <1>1, <1>3, <2>1 DEF LanTyped, LanTypeOK
  <2>4. stage'[a] = "eth" /\ OthersSame(a)
    BY <1>1, <1>3, <2>3 DEF OthersSame, MovesOn, LanTyped, LanTypeOK
  <2>5. Made'
    BY <1>1, <2>2, <2>3 DEF LanInv, Made
  <2>6. HasMade(a)'
    BY <1>1, <2>2, <2>3, <2>4 DEF LanInv, HasMade
  <2>7. Owned(a)'
    BY <1>1, <2>1, <2>3 DEF Owned
  <2>8. \A x \in Apps \ {a} : (HasMade(x) /\ Owned(x))'
    BY <1>1, <1>3, <2>4, OthersKeep
  <2> QED BY <2>5, <2>6, <2>7, <2>8
<1> QED BY <1>2, <1>3 DEF Identifies

\* A bridge is destroyed by the script that has made it, or has it on record.
LEMMA DestroysKeeps ==
  ASSUME LanTyped, LanInv, NEW a \in Apps, Undoes(a) \/ Removes(a), stage'[a] # "idle"
  PROVE  Made' /\ \A x \in Apps : (HasMade(x) /\ Owned(x))'
<1>1. /\ UNCHANGED <<record, made, maker, stray>> /\ MovesOn(a, "restore") /\ stage[a] \in {"undo", "remove"}
      /\ \/ bridges' = bridges \ {made[a]} /\ stage[a] = "undo"
         \/ bridges' = bridges \ {record[a].bridge} /\ stage[a] = "remove"
  BY DEF Undoes, Removes, Destroyed, Over, LanTyped, LanTypeOK
<1>2. OthersSame(a) /\ stage'[a] = "restore"
  BY <1>1 DEF OthersSame, MovesOn, LanTyped, LanTypeOK
<1>3. NoBridge \notin bridges'
  BY <1>1, BridgeAssumption DEF LanTyped, LanTypeOK
<1>4. HasMade(a)'
  BY <1>1, <1>2, <1>3 DEF LanInv, HasMade
<1>5. Owned(a)'
  BY <1>1, <1>2 DEF LanInv, Owned
<1>6. Made'
  <2>1. IsFiniteSet(bridges')
    BY <1>1, FS_RemoveElement DEF LanInv, Made
  <2> QED BY <1>1, <2>1 DEF LanInv, Made
<1>7. \A x \in Apps \ {a} : (HasMade(x) /\ Owned(x))'
  BY <1>1, <1>2, OthersKeep
<1> QED BY <1>4, <1>5, <1>6, <1>7

\* The first stage of a script, and the last.
LEMMA EndsKeep ==
  ASSUME LanTyped, LanInv, NEW a \in Apps,
         Forgets(a) \/ \E n \in Nics, to \in {"setup", "remove"} : Begins(a, n, to)
  PROVE  Made' /\ \A x \in Apps : (HasMade(x) /\ Owned(x))'
<1>1. UNCHANGED <<bridges, maker, stray>>
  BY DEF Forgets, Begins, windows
<1>2. CASE Forgets(a)
  <2>1. stage[a] = "forget" /\ stage'[a] = "idle" /\ made'[a] = NoBridge /\ record'[a].bridge = NoBridge
        /\ OthersSame(a)
    BY <1>2 DEF Forgets, Over, OthersSame, NoRecord, LanTyped, LanTypeOK
  <2>2. \A x \in Apps : \A b \in Bridges : record'[x].bridge = b \/ made'[x] = b => record[x].bridge = b \/ made[x] = b
    BY <2>1, BridgeAssumption DEF OthersSame
  <2>3. Made'
    BY <1>1, <2>2 DEF LanInv, Made
  <2>4. HasMade(a)'
    BY <2>1 DEF HasMade
  <2>5. Owned(a)'
    BY <1>1, <2>1 DEF LanInv, Owned, HasMade
  <2> QED BY <1>1, <2>1, <2>3, <2>4, <2>5, OthersKeep
<1>3. ASSUME NEW n \in Nics, NEW to \in {"setup", "remove"}, Begins(a, n, to)
      PROVE  Made' /\ \A x \in Apps : (HasMade(x) /\ Owned(x))'
  <2>1. /\ UNCHANGED <<record, made>> /\ stage[a] = "idle" /\ stage'[a] = to /\ before'[a] = bridges
        /\ OthersSame(a)
    BY <1>3 DEF Begins, OthersSame, LanTyped, LanTypeOK
  <2>2. Made'
    BY <1>1, <2>1 DEF LanInv, Made
  <2>3. HasMade(a)'
    BY <1>1, <2>1 DEF LanInv, HasMade
  <2>4. Owned(a)'
    BY <1>1, <2>1 DEF LanInv, Owned
  <2> QED BY <1>1, <2>1, <2>2, <2>3, <2>4, OthersKeep
<1> QED BY <1>2, <1>3

\* Every step of a script.
LEMMA ScriptKeeps ==
  ASSUME LanTyped, LanInv, NEW a \in Apps, LanScript(a) \/ ScriptDies(a)
  PROVE  Made' /\ \A x \in Apps : (HasMade(x) /\ Owned(x))'
<1>0. HasMade(a) /\ NoBridge \notin bridges /\ bridges \subseteq Bridges
  BY BridgeAssumption DEF LanInv, LanTyped, LanTypeOK
<1> DEFINE Kept == Made' /\ \A x \in Apps : (HasMade(x) /\ Owned(x))'
<1>1. CASE Declines(a)
  BY <1>0, <1>1, OverKeeps DEF Declines, windows, HasMade
<1>2. CASE Prepares(a)
  <2>1. /\ stage[a] = "setup" /\ record[a].bridge = NoBridge /\ before[a] = {} /\ MovesOn(a, "create")
        /\ UNCHANGED <<bridges, record, made, maker, stray>>
    BY <1>2 DEF Prepares, windows
  <2>2. HasMade(a)'
    BY <1>0, <2>1 DEF HasMade, MovesOn, LanTyped, LanTypeOK
  <2> QED BY <2>1, <2>2, MoveKeeps DEF LanStages
<1>3. CASE Claims(a)
  <2>1. /\ UNCHANGED <<bridges, made, maker, stray>> /\ stage[a] \in {"eth", "bridge", "flag"}
        /\ \A x \in Apps \ {a} : record'[x] = record[x]
    BY <1>3 DEF Claims, windows, LanTyped, LanTypeOK
  <2>2. PICK to \in {"bridge", "flag", "wait", "undo"} :
          /\ MovesOn(a, to)
          /\ \/ stage[a] = "eth" /\ to = "bridge" /\ record'[a].bridge = record[a].bridge
             \/ stage[a] = "bridge" /\ to = "flag" /\ record'[a].bridge = made[a]
             \/ stage[a] = "flag" /\ to = "wait" /\ record'[a].bridge = record[a].bridge
             \/ to = "undo" /\ record'[a] = record[a]
    BY <1>3 DEF Claims, LanTyped, LanTypeOK
  <2>3. stage'[a] = to
    BY <2>2 DEF MovesOn, LanTyped, LanTypeOK
  <2>4. HasMade(a)'
    BY <1>0, <2>1, <2>2, <2>3 DEF HasMade
  <2>5. record'[a].bridge = record[a].bridge \/ (record[a].bridge = NoBridge /\ record'[a].bridge = made[a])
    BY <1>0, <2>2 DEF HasMade
  <2> QED BY <2>1, <2>2, <2>4, <2>5, MoveKeeps DEF LanStages
<1>4. CASE Waits(a)
  <2>1. PICK to \in {"address", "finish", "undo"} :
          /\ MovesOn(a, to) /\ stage[a] \in {"wait", "address"}
          /\ UNCHANGED <<bridges, record, made, maker, stray>>
    BY <1>4 DEF Waits, windows
  <2>2. HasMade(a)'
    BY <1>0, <2>1 DEF HasMade, MovesOn, LanTyped, LanTypeOK
  <2> QED BY <2>1, <2>2, MoveKeeps DEF LanStages
<1>5. CASE Finishes(a)
  <2>1. /\ UNCHANGED <<bridges, maker, stray>> /\ stage[a] = "finish" /\ record'[a].bridge = made[a]
        /\ \A x \in Apps \ {a} : record'[x] = record[x]
        /\ Over(a) \/ (MovesOn(a, "undo") /\ UNCHANGED made)
    BY <1>5 DEF Finishes, windows, LanTyped, LanTypeOK
  <2>2. record[a].bridge = made[a]
    BY <1>0, <2>1 DEF HasMade
  <2>3. CASE Over(a)
    <3>1. CASE made[a] \in bridges /\ ~(Unrecorded(a) \subseteq stray)
      <4>1. \A b \in Unrecorded(a) : b \in stray
        BY <2>1, <2>2 DEF Unrecorded, LanInv, Owned
      <4> QED BY <3>1, <4>1
    <3>2. CASE made[a] \in bridges => Unrecorded(a) \subseteq stray
      BY <2>1, <2>2, <2>3, <3>2, OverKeeps
    <3> QED BY <3>1, <3>2
  <2>4. CASE MovesOn(a, "undo") /\ UNCHANGED made
    <3>1. HasMade(a)'
      BY <1>0, <2>1, <2>4 DEF HasMade, MovesOn, LanTyped, LanTypeOK
    <3> QED BY <2>1, <2>2, <2>4, <3>1, MoveKeeps DEF LanStages
  <2> QED BY <2>1, <2>3, <2>4
<1>6. CASE Undoes(a)
  <2>1. CASE stage'[a] = "idle"
    <3>1. Over(a) /\ UNCHANGED <<bridges, record, maker>> /\ stray' = stray \cup Unrecorded(a)
      BY <1>6, <2>1 DEF Undoes, MovesOn, LanTyped, LanTypeOK
    <3> QED BY <3>1, OverKeeps
  <2> QED BY <1>6, <2>1, DestroysKeeps
<1>7. CASE Removes(a)
  <2>1. stage'[a] # "idle"
    BY <1>7 DEF Removes, MovesOn, LanTyped, LanTypeOK
  <2> QED BY <1>7, <2>1, DestroysKeeps
<1>8. CASE SkipsRemoval(a)
  <2>1. /\ stage[a] = "remove" /\ record[a].bridge \notin before[a] /\ MovesOn(a, "forget")
        /\ UNCHANGED <<bridges, record, made, maker, stray>>
    BY <1>8 DEF SkipsRemoval, windows
  <2>2. HasMade(a)'
    BY <1>0, <2>1 DEF HasMade, MovesOn, LanTyped, LanTypeOK
  <2> QED BY <2>1, <2>2, MoveKeeps DEF LanStages
<1>9. CASE Restores(a)
  <2>1. /\ stage[a] = "restore" /\ UNCHANGED <<bridges, record, maker, stray>>
        /\ (MovesOn(a, "forget") /\ UNCHANGED made) \/ Over(a)
    BY <1>9 DEF Restores
  <2>2. CASE MovesOn(a, "forget") /\ UNCHANGED made
    <3>1. HasMade(a)'
      BY <1>0, <2>1, <2>2 DEF HasMade, MovesOn, LanTyped, LanTypeOK
    <3> QED BY <2>1, <2>2, <3>1, MoveKeeps DEF LanStages
  <2>3. CASE Over(a)
    <3>1. made[a] \notin bridges
      BY <1>0, <2>1 DEF HasMade
    <3> QED BY <2>1, <2>3, <3>1, OverKeeps
  <2> QED BY <2>1, <2>2, <2>3
<1>10. CASE ScriptDies(a)
  <2>1. Over(a) /\ UNCHANGED <<bridges, record, maker>> /\ stray' = stray \cup Unrecorded(a)
    BY <1>10 DEF ScriptDies, windows
  <2> QED BY <2>1, OverKeeps
<1> QED BY <1>1, <1>2, <1>3, <1>4, <1>5, <1>6, <1>7, <1>8, <1>9, <1>10, CreatesKeeps, IdentifiesKeeps, EndsKeep
  DEF LanScript

\* What the user does with bridges of its own, and with a product's.
LEMMA UserKeeps ==
  ASSUME LanTyped, LanInv, LanUser
  PROVE  Made' /\ \A x \in Apps : (HasMade(x) /\ Owned(x))'
<1>1. UNCHANGED <<record, stage, before, made, stray>>
  BY DEF LanUser, UserBridges, UserUnbridges, Rebinds, locals
<1>2. ASSUME NEW ns \in SUBSET (Nics \cup Apps), UserBridges(ns)
      PROVE  Made' /\ \A x \in Apps : (HasMade(x) /\ Owned(x))'
  <2>1. PICK b \in Bridges : /\ maker[b] = "nobody" /\ bridges' = bridges \cup {b}
                             /\ maker' = [maker EXCEPT ![b] = "user"]
    BY <1>2 DEF UserBridges
  <2>2. \A c \in Bridges : maker'[c] = IF c = b THEN "user" ELSE maker[c]
    BY <2>1 DEF LanTyped, LanTypeOK
  <2>3. b \notin bridges /\ bridges \subseteq Bridges /\ \A x \in Apps : x # "nobody" /\ x # "user"
    BY <2>1, BridgeAssumption DEF LanInv, Made, LanTyped, LanTypeOK
  <2>4. \A x \in Apps : record[x].bridge # b /\ made[x] # b
    BY <2>1, <2>3 DEF LanInv, Made
  <2>5. Made'
    <3>1. IsFiniteSet(bridges')
      BY <2>1, FS_AddElement DEF LanInv, Made
    <3> QED BY <1>1, <2>1, <2>2, <2>3, <2>4, <3>1 DEF LanInv, Made
  <2>6. ASSUME NEW x \in Apps PROVE HasMade(x)'
    <3>1. HasMade(x) /\ \A c \in bridges : c \in bridges' /\ maker'[c] = maker[c]
      BY <2>1, <2>2, <2>3 DEF LanInv
    <3> QED BY <1>1, <2>1, <2>4, <3>1 DEF HasMade
  <2>7. ASSUME NEW x \in Apps PROVE Owned(x)'
    BY <1>1, <2>1, <2>2, <2>3 DEF LanInv, Owned
  <2> QED BY <2>5, <2>6, <2>7
<1>3. ASSUME NEW b \in Bridges, UserUnbridges(b)
      PROVE  Made' /\ \A x \in Apps : (HasMade(x) /\ Owned(x))'
  <2>1. UNCHANGED maker /\ bridges' = bridges \ {b} /\ \A x \in Apps : stage[x] # "identify"
    BY <1>3 DEF UserUnbridges, Destroyed
  <2>2. Made'
    <3>1. IsFiniteSet(bridges')
      BY <2>1, FS_RemoveElement DEF LanInv, Made
    <3> QED BY <1>1, <2>1, <3>1 DEF LanInv, Made
  <2> QED BY <1>1, <2>1, <2>2 DEF LanInv, HasMade, Owned
<1>4. ASSUME NEW b \in Bridges, NEW y \in Nics \cup Apps, Rebinds(b, y)
      PROVE  Made' /\ \A x \in Apps : (HasMade(x) /\ Owned(x))'
  <2>1. UNCHANGED <<maker, bridges>>
    BY <1>4 DEF Rebinds
  <2> QED BY <1>1, <2>1 DEF LanInv, Made, HasMade, Owned
<1> QED BY <1>2, <1>3, <1>4 DEF LanUser

-----------------------------------------------------------------------------
(* Whose addresses they are *)

\* A step of a script that restores nothing, and leaves Windows as it is.
LEMMA QuietKeeps ==
  ASSUME LanTyped, EthernetKept, NEW a \in Apps, stage[a] # "restore",
         UNCHANGED windows, torn \subseteq torn',
         \A x \in Apps \ {a} : stage'[x] = stage[x] /\ nic'[x] = nic[x]
  PROVE  EthernetKept'
<1>1. Bound' = Bound
  BY DEF Bound, windows
<1>2. \A n : (\E x \in Apps : nic[x] = n /\ stage[x] = "restore")
             => \E x \in Apps : nic'[x] = n /\ stage'[x] = "restore"
  OBVIOUS
<1> QED BY <1>1, <1>2 DEF EthernetKept, windows

\* A new bridge takes the addresses of what it binds, and an old one keeps its own.
LEMMA NewBridgeBinds ==
  ASSUME LanTyped, Made, NEW b \in Bridges, maker[b] = "nobody", NEW ns \in SUBSET (Nics \cup Apps),
         bridges' = bridges \cup {b}, members' = [members EXCEPT ![b] = ns]
  PROVE  Bound' = Bound \cup ns
<1>1. b \notin bridges /\ bridges \subseteq Bridges
  BY DEF Made, LanTyped, LanTypeOK
<1>2. members'[b] = ns /\ \A c \in bridges : members'[c] = members[c]
  BY <1>1 DEF LanTyped, LanTypeOK
<1> QED BY <1>2 DEF Bound

\* A bridge of an Ethernet adapter and the product's own is destroyed.
LEMMA DestroysEthernet ==
  ASSUME LanTyped, LanInv, NEW a \in Apps, NEW b \in bridges, Destroyed(b), MembersAre(nic[a], a),
         stage[a] \in {"undo", "remove"}, MovesOn(a, "restore"), UNCHANGED <<addressed, torn>>
  PROVE  EthernetKept'
<1>1. /\ stage'[a] = "restore" /\ UNCHANGED nic
      /\ \A x \in Apps \ {a} : stage'[x] = stage[x]
  BY DEF MovesOn, LanTyped, LanTypeOK
<1>2. \A n \in Nics : n # nic[a] => n \notin Bound
  BY BridgeAssumption DEF MembersAre
<1> SUFFICES ASSUME NEW n \in Nics \ (addressed \cup torn)
             PROVE  \E x \in Apps : nic'[x] = n /\ stage'[x] = "restore"
  BY DEF EthernetKept
<1>3. CASE n = nic[a]
  BY <1>1, <1>3
<1>4. CASE n # nic[a]
  <2>1. PICK x \in Apps : nic[x] = n /\ stage[x] = "restore"
    BY <1>2, <1>4 DEF LanInv, EthernetKept
  <2> QED BY <1>1, <2>1
<1> QED BY <1>3, <1>4

LEMMA ScriptEthernet ==
  ASSUME LanTyped, LanInv, NEW a \in Apps, LanScript(a) \/ ScriptDies(a)
  PROVE  EthernetKept'
<1>0. EthernetKept /\ Made
  BY DEF LanInv
<1>a. ASSUME Over(a) \/ \E to \in LanStages : MovesOn(a, to)
      PROVE  \A x \in Apps \ {a} : stage'[x] = stage[x] /\ nic'[x] = nic[x]
  BY <1>a DEF Over, MovesOn, LanTyped, LanTypeOK
<1>1. CASE \E n \in Nics, to \in {"setup", "remove"} : Begins(a, n, to)
  <2>1. /\ stage[a] = "idle" /\ UNCHANGED <<windows, torn>>
        /\ \A x \in Apps \ {a} : stage'[x] = stage[x] /\ nic'[x] = nic[x]
    BY <1>1 DEF Begins, LanTyped, LanTypeOK
  <2> QED BY <1>0, <2>1, QuietKeeps
<1>2. CASE Declines(a) \/ Prepares(a) \/ Identifies(a) \/ Claims(a) \/ Waits(a) \/ Finishes(a)
           \/ SkipsRemoval(a) \/ Forgets(a)
  <2>1. stage[a] # "restore" /\ UNCHANGED <<windows, torn>>
    BY <1>2 DEF Declines, Prepares, Identifies, Claims, Waits, Finishes, SkipsRemoval, Forgets
  <2>2. Over(a) \/ \E to \in LanStages : MovesOn(a, to)
    BY <1>2 DEF Declines, Prepares, Identifies, Claims, Waits, Finishes, SkipsRemoval, Forgets, LanStages
  <2> QED BY <1>0, <1>a, <2>1, <2>2, QuietKeeps
<1>3. CASE Creates(a)
  <2>1. PICK b \in Bridges, bind \in SUBSET {nic[a], a} :
          /\ maker[b] = "nobody" /\ bridges' = bridges \cup {b}
          /\ members' = [members EXCEPT ![b] = bind]
          /\ addressed' = addressed \ bind
          /\ Over(a) \/ MovesOn(a, "identify")
    BY <1>3 DEF Creates
  <2>2. stage[a] = "create" /\ UNCHANGED torn /\ bind \in SUBSET (Nics \cup Apps)
    BY <1>3, <2>1 DEF Creates, LanTyped
  <2>3. Bound' = Bound \cup bind
    BY <1>0, <2>1, <2>2, NewBridgeBinds
  <2>4. \A x \in Apps \ {a} : stage'[x] = stage[x] /\ nic'[x] = nic[x]
    BY <1>a, <2>1 DEF LanStages
  <2>5. \A n : (\E x \in Apps : nic[x] = n /\ stage[x] = "restore")
               => \E x \in Apps : nic'[x] = n /\ stage'[x] = "restore"
    BY <2>2, <2>4
  <2> QED BY <1>0, <2>1, <2>2, <2>3, <2>5 DEF EthernetKept
<1>4. CASE Undoes(a)
  <2>1. CASE MembersAre(nic[a], a) /\ made[a] \in bridges /\ Destroyed(made[a]) /\ MovesOn(a, "restore")
    BY <1>4, <2>1, DestroysEthernet DEF Undoes
  <2>2. CASE Over(a) /\ UNCHANGED <<bridges, members>>
    <3>1. stage[a] # "restore" /\ UNCHANGED <<windows, torn>>
      BY <1>4, <2>2 DEF Undoes, windows
    <3> QED BY <1>0, <1>a, <2>2, <3>1, QuietKeeps
  <2> QED BY <1>4, <2>1, <2>2 DEF Undoes
<1>5. CASE Removes(a)
  BY <1>5, DestroysEthernet DEF Removes
<1>6. CASE Restores(a)
  <2>1. /\ UNCHANGED <<bridges, members>> /\ stage[a] = "restore"
        /\ \/ MovesOn(a, "forget") /\ addressed' = addressed \cup {nic[a]} /\ torn' = torn \ {nic[a]}
           \/ Over(a) /\ torn' = torn \cup {nic[a]} /\ UNCHANGED addressed
    BY <1>6 DEF Restores
  <2>2. /\ addressed \cup torn \cup {nic[a]} \subseteq addressed' \cup torn' /\ Bound' = Bound
    BY <2>1 DEF Bound
  <2>3. \A x \in Apps \ {a} : stage'[x] = stage[x] /\ nic'[x] = nic[x]
    BY <1>a, <2>1 DEF LanStages
  <2>4. \A n : n # nic[a] /\ (\E x \in Apps : nic[x] = n /\ stage[x] = "restore")
               => \E x \in Apps : nic'[x] = n /\ stage'[x] = "restore"
    BY <2>3
  <2> QED BY <1>0, <2>2, <2>4 DEF EthernetKept
<1>7. CASE ScriptDies(a)
  <2>1. /\ UNCHANGED <<bridges, members, addressed>> /\ Over(a)
        /\ torn' = IF stage[a] = "restore" THEN torn \cup {nic[a]} ELSE torn
    BY <1>7 DEF ScriptDies, windows
  <2>2. \A x \in Apps \ {a} : stage'[x] = stage[x] /\ nic'[x] = nic[x]
    BY <1>a, <2>1
  <2>3. \A n : n \notin torn' /\ (\E x \in Apps : nic[x] = n /\ stage[x] = "restore")
               => \E x \in Apps : nic'[x] = n /\ stage'[x] = "restore"
    BY <2>1, <2>2
  <2>4. Bound' = Bound /\ torn \subseteq torn'
    BY <2>1 DEF Bound
  <2> QED BY <1>0, <2>1, <2>3, <2>4 DEF EthernetKept
<1> QED BY <1>1, <1>2, <1>3, <1>4, <1>5, <1>6, <1>7 DEF LanScript

LEMMA UserEthernet ==
  ASSUME LanTyped, LanInv, LanUser
  PROVE  EthernetKept'
<1>0. EthernetKept /\ Made /\ UNCHANGED <<stage, nic, torn>>
  BY DEF LanInv, LanUser, UserBridges, UserUnbridges, Rebinds, locals
<1>1. ASSUME NEW ns \in SUBSET (Nics \cup Apps), UserBridges(ns) PROVE EthernetKept'
  <2>1. Bound' = Bound \cup ns /\ addressed' = addressed \ ns
    BY <1>0, <1>1, NewBridgeBinds DEF UserBridges
  <2> QED BY <1>0, <2>1 DEF EthernetKept
<1>2. ASSUME NEW b \in Bridges, UserUnbridges(b) PROVE EthernetKept'
  <2>1. /\ addressed' = addressed \cup (members[b] \cap Nics)
        /\ bridges' = bridges \ {b} /\ members' = [members EXCEPT ![b] = {}]
    BY <1>2 DEF UserUnbridges, Destroyed
  <2>2. \A c \in bridges' : members'[c] = members[c]
    BY <2>1 DEF LanTyped, LanTypeOK
  <2>3. \A n \in Bound : n \in members[b] \/ n \in Bound'
    BY <2>1, <2>2 DEF Bound
  <2> QED BY <1>0, <2>1, <2>3 DEF EthernetKept
<1>3. ASSUME NEW b \in Bridges, NEW y \in Nics \cup Apps, Rebinds(b, y) PROVE EthernetKept'
  <2>1. b \in bridges /\ bridges' = bridges
    BY <1>3 DEF Rebinds
  <2>2. CASE members' = [members EXCEPT ![b] = @ \ {y}] /\ addressed' = addressed \cup ({y} \cap Nics)
    <3>1. \A c \in bridges : members[c] \ {y} \subseteq members'[c]
      BY <2>1, <2>2 DEF LanTyped, LanTypeOK
    <3>2. \A n \in Bound : n = y \/ n \in Bound'
      BY <2>1, <3>1 DEF Bound
    <3> QED BY <1>0, <2>2, <3>2 DEF EthernetKept
  <2>3. CASE members' = [members EXCEPT ![b] = @ \cup {y}] /\ addressed' = addressed \ {y}
    <3>1. y \in members'[b] /\ \A c \in bridges : members[c] \subseteq members'[c]
      BY <2>1, <2>3 DEF LanTyped, LanTypeOK
    <3>2. Bound \cup {y} \subseteq Bound'
      BY <2>1, <3>1 DEF Bound
    <3> QED BY <1>0, <2>3, <3>2 DEF EthernetKept
  <2> QED BY <1>3, <2>2, <2>3 DEF Rebinds
<1> QED BY <1>1, <1>2, <1>3 DEF LanUser

-----------------------------------------------------------------------------

LEMMA LanInitInv == LanInit => LanInv
<1> SUFFICES ASSUME LanInit PROVE LanInv
  OBVIOUS
<1>1. \A a \in Apps : stage[a] = "idle" /\ made[a] = NoBridge /\ record[a].bridge = NoBridge
  BY DEF LanInit, NoRecord
<1>2. Made
  BY <1>1, FS_EmptySet, BridgeAssumption DEF LanInit, Made
<1>3. \A a \in Apps : HasMade(a)
  BY <1>1 DEF HasMade
<1>4. (\A a \in Apps : Owned(a)) /\ EthernetKept
  BY DEF LanInit, Owned, EthernetKept
<1> QED BY <1>2, <1>3, <1>4 DEF LanInv

LEMMA LanInvKept == LanTyped /\ LanInv /\ [LanNext]_bridging => LanInv'
<1> SUFFICES ASSUME LanTyped, LanInv, [LanNext]_bridging PROVE LanInv'
  OBVIOUS
<1>1. CASE LanUser
  BY <1>1, UserKeeps, UserEthernet DEF LanInv
<1>2. ASSUME NEW a \in Apps, LanScript(a) \/ ScriptDies(a) PROVE LanInv'
  BY <1>2, ScriptKeeps, ScriptEthernet DEF LanInv
<1>3. CASE UNCHANGED bridging
  BY <1>3 DEF bridging, windows, locals, LanInv, Made, HasMade, Owned, EthernetKept, Bound
<1> QED BY <1>1, <1>2, <1>3 DEF LanNext

LEMMA OwnedBySomeone == LanTyped /\ LanInv => BridgesOwned
BY DEF LanInv, Made, Owned, BridgesOwned, LanTyped, LanTypeOK

\* The variables of lan-setup.ps1, its record and Windows' bridges have their
\* types, in every state.
THEOREM LanTypesHold == LanSpec => []LanTypeOK
<1>1. LanTyped => LanTypeOK
  BY DEF LanTyped
<1> QED BY LanInitTypes, LanTypes, <1>1, PTL DEF LanSpec

\* For any number of products, adapters and bridges: lan-setup.ps1 never records,
\* and so never destroys, a bridge that it has not made, and loses none that it
\* has but where it was cut short or told of a failure.
THEOREM NobodysBridgeIsTouched == LanSpec => []BridgesOwned
BY LanInitTypes, LanTypes, LanInitInv, LanInvKept, OwnedBySomeone, PTL DEF LanSpec

\* And an Ethernet adapter in no bridge has its addresses, or is the one that
\* its script is about to restore, or one whose restoration was cut short.
THEOREM EthernetIsGivenBack == LanSpec => []EthernetKept
<1>1. LanInv => EthernetKept
  BY DEF LanInv
<1> QED BY LanInitTypes, LanTypes, LanInitInv, LanInvKept, <1>1, PTL DEF LanSpec

-----------------------------------------------------------------------------
(* WinSettings: the lines of SHINOGI.INI *)

\* The pieces p[k], but for those at C, one after the other.
Gathered(C, p, n, g) ==
  g[0] = <<>> /\ \A k \in 1..n : g[k] = IF k \in C THEN g[k - 1] ELSE Append(g[k - 1], p[k])

LEMMA GatheredExists ==
  ASSUME NEW P, NEW n \in Nat, NEW C, NEW p \in [1..n -> P]
  PROVE  \E g \in [0..n -> Seq(P)] : Gathered(C, p, n, g)
<1> DEFINE A == Seq(P)
           goes(k) == [x \in A |-> IF k + 1 \in C THEN x ELSE Append(x, p[k + 1])]
           steps == [k \in Nat |-> IF k + 1 \in 1..n THEN goes(k) ELSE [x \in A |-> x]]
<1>1. ASSUME NEW k \in Nat, k + 1 \in 1..n PROVE goes(k) \in [A -> A]
  BY <1>1
<1>2. steps \in [Nat -> [A -> A]]
  <2> HIDE DEF goes, A
  <2>1. [x \in A |-> x] \in [A -> A]
    OBVIOUS
  <2> QED BY <1>1, <2>1
<1>3. PICK g \in [0..n -> A] : g[0] = <<>> /\ \A k \in 1..n : g[k] = steps[k - 1][g[k - 1]]
  <2>1. <<>> \in A
    OBVIOUS
  <2> HIDE DEF A, steps
  <2>2. Iterates(A, <<>>, steps, n)
    BY <1>2, <2>1, NatRecursion
  <2> QED BY <2>2 DEF Iterates
<1>4. ASSUME NEW k \in 1..n PROVE g[k] = IF k \in C THEN g[k - 1] ELSE Append(g[k - 1], p[k])
  <2>1. k - 1 \in Nat /\ k - 1 \in 0..n /\ (k - 1) + 1 = k
    OBVIOUS
  <2>2. g[k] = steps[k - 1][g[k - 1]] /\ steps[k - 1] = goes(k - 1) /\ g[k - 1] \in A
    BY <1>3, <2>1
  <2> HIDE DEF A
  <2>3. g[k] = goes(k - 1)[g[k - 1]]
    BY <2>2
  <2> QED BY <2>1, <2>2, <2>3
<1>5. Gathered(C, p, n, g)
  BY <1>3, <1>4 DEF Gathered
<1> QED BY <1>3, <1>5

\* What gathers the first n of f gathers as much of any sequence that agrees.
LEMMA GatheredSame ==
  ASSUME NEW n \in Nat, NEW m \in Nat, n <= m, NEW C, NEW D, NEW p, NEW q, NEW g, NEW h,
         Gathered(C, p, n, g), Gathered(D, q, m, h),
         \A k \in 1..n : (k \in C <=> k \in D) /\ p[k] = q[k]
  PROVE  g[n] = h[n]
<1> DEFINE T == {j \in 0..n : g[j] # h[j]}
<1>1. ASSUME T # {} PROVE FALSE
  <2>1. PICK j \in T : \A i \in T : j <= i
    <3>1. T \in SUBSET Nat
      OBVIOUS
    <3> QED BY <1>1, <3>1, LeastNat
  <2>2. j # 0
    BY <2>1 DEF Gathered
  <2>3. j \in 1..n /\ j \in 1..m /\ j - 1 \in 0..n /\ g[j - 1] = h[j - 1]
    BY <2>1, <2>2
  <2> HIDE DEF T
  <2>4. /\ g[j] = IF j \in C THEN g[j - 1] ELSE Append(g[j - 1], p[j])
        /\ h[j] = IF j \in D THEN h[j - 1] ELSE Append(h[j - 1], q[j])
    BY <2>3 DEF Gathered
  <2>5. g[j] = h[j]
    BY <2>3, <2>4
  <2> QED BY <2>1, <2>5 DEF T
<1> QED BY <1>1

-----------------------------------------------------------------------------
\* Whether a piece is of a res line, by the piece and the one before it.
LEMMA OfResStep ==
  ASSUME NEW f, NEW i \in Nat, i >= 1
  PROVE  OfRes(f, i) <=> IF f[i].start THEN IsRes(f[i]) ELSE i > 1 /\ OfRes(f, i - 1)
<1>1. i \in 1..i /\ i + 1..i = {}
  OBVIOUS
<1>2. CASE f[i].start
  <2>1. ASSUME NEW j \in 1..i, \A k \in j + 1..i : ~f[k].start PROVE j = i
    <3>1. j < i => i \in j + 1..i
      OBVIOUS
    <3> QED BY <1>2, <2>1, <3>1
  <2>2. OfRes(f, i) => IsRes(f[i])
    BY <2>1 DEF OfRes
  <2>3. IsRes(f[i]) => OfRes(f, i)
    BY <1>1, <1>2 DEF OfRes
  <2> QED BY <1>2, <2>2, <2>3
<1>3. CASE ~f[i].start
  <2>1. ASSUME OfRes(f, i) PROVE i > 1 /\ OfRes(f, i - 1)
    <3>1. PICK j \in 1..i : f[j].start /\ IsRes(f[j]) /\ \A k \in j + 1..i : ~f[k].start
      BY <2>1 DEF OfRes
    <3>2. j # i /\ j \in 1..i - 1 /\ i > 1
      BY <1>3, <3>1
    <3>3. \A k \in j + 1..i - 1 : ~f[k].start
      BY <3>1
    <3> QED BY <3>1, <3>2, <3>3 DEF OfRes
  <2>2. ASSUME i > 1, OfRes(f, i - 1) PROVE OfRes(f, i)
    <3>1. PICK j \in 1..i - 1 : f[j].start /\ IsRes(f[j]) /\ \A k \in j + 1..i - 1 : ~f[k].start
      BY <2>2 DEF OfRes
    <3>2. j \in 1..i
      OBVIOUS
    <3>3. ASSUME NEW k \in j + 1..i PROVE ~f[k].start
      <4>1. k = i \/ k \in j + 1..i - 1
        OBVIOUS
      <4> QED BY <1>3, <3>1, <4>1
    <3> QED BY <3>1, <3>2, <3>3 DEF OfRes
  <2> QED BY <1>3, <2>1, <2>2
<1> QED BY <1>2, <1>3

LEMMA IniFileIs ==
  ASSUME NEW f \in IniFiles
  PROVE  /\ f \in Seq(Pieces) /\ Len(f) \in Nat /\ f \in [1..Len(f) -> Pieces]
         /\ Len(f) > 0 => f[1].start
         /\ \A i \in 1..Len(f) : f[i] \in Pieces /\ f[i].start \in BOOLEAN
<1>1. f \in Seq(Pieces) /\ (f = <<>> \/ f[1].start)
  BY DEF IniFiles
<1>2. Len(f) \in Nat /\ f \in [1..Len(f) -> Pieces]
  BY <1>1
<1>3. \A i \in 1..Len(f) : f[i] \in Pieces
  BY <1>2
<1> QED BY <1>1, <1>2, <1>3 DEF Pieces

\* The loop of shinogi_write_resolution() skips the res lines.
LEMMA SkipsResLines ==
  ASSUME NEW f \in IniFiles, NEW i \in 1..Len(f)
  PROVE  Skips(f)[i] <=> OfRes(f, i)
<1> DEFINE n == Len(f)
           body(h, j) == IF f[j].start THEN IsRes(f[j]) ELSE h[j - 1]
           skip[j \in 1..n] == IF f[j].start THEN IsRes(f[j]) ELSE skip[j - 1]
           g == [j \in 1..n |-> OfRes(f, j)]
<1>1. n \in Nat /\ (n > 0 => f[1].start)
  BY IniFileIs
<1>2. ASSUME NEW j \in 1..n PROVE g[j] = body(g, j)
  <2>1. j >= 1 /\ j \in Nat /\ (j = 1 => f[j].start)
    BY <1>1
  <2>2. OfRes(f, j) <=> IF f[j].start THEN IsRes(f[j]) ELSE j > 1 /\ OfRes(f, j - 1)
    BY <2>1, OfResStep
  <2>3. CASE f[j].start
    <3>1. OfRes(f, j) <=> IsRes(f[j])
      BY <2>2, <2>3
    <3>2. OfRes(f, j) = IsRes(f[j])
      <4>1. IsRes(f[j]) \in BOOLEAN /\ OfRes(f, j) \in BOOLEAN
        BY DEF IsRes, OfRes
      <4> QED BY <3>1, <4>1

    <3>3. g[j] = OfRes(f, j)
      OBVIOUS
    <3> QED BY <2>3, <3>2, <3>3
  <2>4. CASE ~f[j].start
    <3>1. j - 1 \in 1..n /\ (OfRes(f, j) <=> OfRes(f, j - 1))
      BY <1>1, <2>1, <2>2, <2>4
    <3>2. g[j] = OfRes(f, j) /\ g[j - 1] = OfRes(f, j - 1)
      BY <3>1
    <3>3. OfRes(f, j) = OfRes(f, j - 1)
      BY <3>1 DEF OfRes
    <3> QED BY <2>4, <3>2, <3>3
  <2> QED BY <2>3, <2>4
<1>3. g = [j \in 1..n |-> body(g, j)]
  <2> HIDE DEF body
  <2>1. g = [j \in 1..n |-> g[j]]
    OBVIOUS
  <2> HIDE DEF g
  <2> QED BY <2>1, <1>2, Zenon
<1>4. skip = [j \in 1..n |-> body(skip, j)]
  <2> HIDE DEF g
  <2> QED BY <1>3
<1>5. Skips(f) = skip
  BY DEF Skips
<1> HIDE DEF skip, g
<1> DEFINE T == {j \in 1..n : ~(skip[j] <=> OfRes(f, j))}
<1>6. ASSUME T # {} PROVE FALSE
  <2>1. PICK j \in T : \A k \in T : j <= k
    <3>1. T \in SUBSET Nat
      BY <1>1
    <3> QED BY <1>6, <3>1, LeastNat
  <2>2. j \in 1..n /\ j >= 1 /\ j \in Nat
    BY <1>1, <2>1
  <2>3. skip[j] = IF f[j].start THEN IsRes(f[j]) ELSE skip[j - 1]
    <3> HIDE DEF n
    <3> QED BY <1>4, <2>2
  <2>4. OfRes(f, j) <=> IF f[j].start THEN IsRes(f[j]) ELSE j > 1 /\ OfRes(f, j - 1)
    BY <2>2, OfResStep
  <2>5. CASE f[j].start
    BY <2>1, <2>3, <2>4, <2>5
  <2>6. CASE ~f[j].start
    <3>1. j > 1 /\ j - 1 \in 1..n /\ ~(j <= j - 1)
      BY <1>1, <2>2, <2>6
    <3>2. skip[j - 1] <=> OfRes(f, j - 1)
      BY <2>1, <3>1
    <3> QED BY <2>1, <2>3, <2>4, <2>6, <3>1, <3>2
  <2> QED BY <2>5, <2>6
<1> QED BY <1>5, <1>6

\* Where f has the pieces of its res lines.
ResLines(f) == {i \in 1..Len(f) : OfRes(f, i)}

LEMMA OthersAre ==
  ASSUME NEW f \in Seq(Pieces)
  PROVE  \E h : Gathered(ResLines(f), f, Len(f), h) /\ Others(f) = h[Len(f)]
<1> DEFINE n == Len(f)
           C == ResLines(f)
           body(h, i) == IF i = 0 THEN <<>> ELSE IF OfRes(f, i) THEN h[i - 1]
                         ELSE Append(h[i - 1], f[i])
           kept[i \in 0..n] == IF i = 0 THEN <<>> ELSE IF OfRes(f, i) THEN kept[i - 1]
                               ELSE Append(kept[i - 1], f[i])
<1>1. n \in Nat /\ f \in [1..n -> Pieces]
  OBVIOUS
<1>2. PICK g \in [0..n -> Seq(Pieces)] : Gathered(C, f, n, g)
  <2> HIDE DEF n, C
  <2> QED BY <1>1, GatheredExists
<1>3. ASSUME NEW i \in 0..n PROVE g[i] = body(g, i)
  <2>1. CASE i = 0
    BY <1>2, <2>1 DEF Gathered
  <2>2. CASE i # 0
    <3>1. i \in 1..n
      BY <1>1, <2>2
    <3>2. i \in C <=> OfRes(f, i)
      BY <3>1 DEF ResLines
    <3> HIDE DEF C, n
    <3>3. g[i] = IF i \in C THEN g[i - 1] ELSE Append(g[i - 1], f[i])
      BY <1>2, <3>1 DEF Gathered
    <3> QED BY <2>2, <3>2, <3>3
  <2> QED BY <2>1, <2>2
<1>4. g = [i \in 0..n |-> body(g, i)]
  <2> HIDE DEF body
  <2>1. g = [i \in 0..n |-> g[i]]
    BY <1>2
  <2> QED BY <2>1, <1>3, Zenon
<1>5. kept = [i \in 0..n |-> body(kept, i)]
  BY <1>4
<1>6. Others(f) = kept[n]
  BY DEF Others
<1> HIDE DEF kept
<1>7. Gathered(C, f, n, kept)
  <2>1. kept[0] = <<>>
    <3>1. 0 \in 0..n
      BY <1>1
    <3> HIDE DEF n
    <3> QED BY <1>5, <3>1
  <2>2. ASSUME NEW i \in 1..n PROVE kept[i] = IF i \in C THEN kept[i - 1] ELSE Append(kept[i - 1], f[i])
    <3>1. i \in 0..n /\ i # 0
      BY <1>1
    <3>2. i \in C <=> OfRes(f, i)
      BY DEF ResLines
    <3> HIDE DEF n, C
    <3>3. kept[i] = body(kept, i)
      BY <1>5, <3>1
    <3> QED BY <3>1, <3>2, <3>3
  <2> HIDE DEF n, C
  <2> QED BY <2>1, <2>2 DEF Gathered
<1> QED BY <1>6, <1>7

LEMMA OfResSame ==
  ASSUME NEW f, NEW g, NEW i \in Nat, \A j \in 1..i : f[j] = g[j]
  PROVE  OfRes(f, i) <=> OfRes(g, i)
<1>1. ASSUME NEW j \in 1..i PROVE \A k \in j + 1..i : f[k] = g[k]
  OBVIOUS
<1> QED BY <1>1 DEF OfRes

\* A piece more.
LEMMA OthersAppend ==
  ASSUME NEW g \in Seq(Pieces), NEW x \in Pieces
  PROVE  LET h == Append(g, x)
             of == IF x.start THEN IsRes(x) ELSE Len(g) > 0 /\ OfRes(g, Len(g))
         IN  /\ OfRes(h, Len(h)) <=> of
             /\ Others(h) = IF of THEN Others(g) ELSE Append(Others(g), x)
<1> DEFINE h == Append(g, x)
           n == Len(g)
           of == IF x.start THEN IsRes(x) ELSE n > 0 /\ OfRes(g, n)
<1>1. /\ n \in Nat /\ Len(h) = n + 1 /\ h \in Seq(Pieces)
      /\ \A i \in 1..n : h[i] = g[i]
      /\ h[n + 1] = x
  BY AppendProperties
<1> HIDE DEF h, n
<1>2. ASSUME NEW i \in 1..n PROVE OfRes(h, i) <=> OfRes(g, i)
  <2>1. \A j \in 1..i : h[j] = g[j]
    BY <1>1
  <2> QED BY <2>1, OfResSame, <1>1
<1>3. OfRes(h, n + 1) <=> of
  <2>1. OfRes(h, n + 1) <=> IF x.start THEN IsRes(x) ELSE n + 1 > 1 /\ OfRes(h, n)
    <3>1. OfRes(h, n + 1) <=> IF h[n + 1].start THEN IsRes(h[n + 1])
                              ELSE n + 1 > 1 /\ OfRes(h, (n + 1) - 1)
      BY <1>1, OfResStep
    <3>2. (n + 1) - 1 = n
      BY <1>1
    <3> QED BY <1>1, <3>1, <3>2
  <2>2. n + 1 > 1 <=> n > 0
    BY <1>1
  <2>3. n > 0 => (OfRes(h, n) <=> OfRes(g, n))
    BY <1>1, <1>2
  <2> QED BY <2>1, <2>2, <2>3
<1>4. PICK a : Gathered(ResLines(g), g, n, a) /\ Others(g) = a[n]
  BY OthersAre DEF n
<1>5. PICK b : Gathered(ResLines(h), h, n + 1, b) /\ Others(h) = b[n + 1]
  BY <1>1, OthersAre
<1>6. a[n] = b[n]
  <2>1. \A k \in 1..n : (k \in ResLines(g) <=> k \in ResLines(h)) /\ g[k] = h[k]
    BY <1>1, <1>2 DEF ResLines, n
  <2> QED BY <1>1, <1>4, <1>5, <2>1, GatheredSame
<1>7. b[n + 1] = IF n + 1 \in ResLines(h) THEN b[n] ELSE Append(b[n], x)
  <2>1. n + 1 \in 1..n + 1 /\ (n + 1) - 1 = n
    BY <1>1
  <2> QED BY <1>1, <1>5, <2>1 DEF Gathered
<1>8. n + 1 \in ResLines(h) <=> of
  BY <1>1, <1>3 DEF ResLines
<1>9. Others(h) = IF of THEN Others(g) ELSE Append(Others(g), x)
  BY <1>4, <1>5, <1>6, <1>7, <1>8
<1> QED BY <1>1, <1>3, <1>9 DEF h, n

\* What shinogi_write_resolution() has written when it has come to piece i.
WrittenBy(f, size, out) ==
  /\ out[0] = <<>>
  /\ \A i \in 1..Len(f) :
       out[i] = IF ~OfRes(f, i) THEN Append(out[i - 1], f[i])
                ELSE IF \E j \in 1..i - 1 : OfRes(f, j) THEN out[i - 1]
                ELSE Append(out[i - 1], Res(size))

LEMMA WriteSizeIs ==
  ASSUME NEW f \in IniFiles, NEW size \in Sizes
  PROVE  \E out : /\ WrittenBy(f, size, out)
                  /\ WriteSize(f, size) = IF \E j \in 1..Len(f) : OfRes(f, j) THEN out[Len(f)]
                                          ELSE Append(out[Len(f)], Res(size))
<1> DEFINE n == Len(f)
           skip == Skips(f)
           body(h, i) == IF i = 0 THEN <<>>
                         ELSE IF ~skip[i] THEN Append(h[i - 1], f[i])
                         ELSE IF \E j \in 1..i - 1 : skip[j] THEN h[i - 1]
                         ELSE Append(h[i - 1], Res(size))
           out[i \in 0..n] == IF i = 0 THEN <<>>
                         ELSE IF ~skip[i] THEN Append(out[i - 1], f[i])
                         ELSE IF \E j \in 1..i - 1 : skip[j] THEN out[i - 1]
                         ELSE Append(out[i - 1], Res(size))
           C == {i \in 1..n : skip[i] /\ \E j \in 1..i - 1 : skip[j]}
           p == [i \in 1..n |-> IF skip[i] THEN Res(size) ELSE f[i]]
<1>1. n \in Nat /\ f \in [1..n -> Pieces]
  BY IniFileIs
<1>2. Res(size) \in Pieces
  BY DEF Res, Pieces
<1>3. p \in [1..n -> Pieces]
  <2> HIDE DEF n, skip
  <2> QED BY <1>1, <1>2
<1>4. PICK g \in [0..n -> Seq(Pieces)] : Gathered(C, p, n, g)
  <2> HIDE DEF n, C, p
  <2> QED BY <1>1, <1>3, GatheredExists
<1>5. ASSUME NEW i \in 0..n PROVE g[i] = body(g, i)
  <2>1. CASE i = 0
    BY <1>4, <2>1 DEF Gathered
  <2>2. CASE i # 0
    <3>1. i \in 1..n
      BY <1>1, <2>2
    <3>2. (i \in C <=> skip[i] /\ \E j \in 1..i - 1 : skip[j]) /\ p[i] = IF skip[i] THEN Res(size) ELSE f[i]
      BY <3>1
    <3> HIDE DEF C, p, n, skip
    <3>3. g[i] = IF i \in C THEN g[i - 1] ELSE Append(g[i - 1], p[i])
      BY <1>4, <3>1 DEF Gathered
    <3> QED BY <2>2, <3>2, <3>3
  <2> QED BY <2>1, <2>2
<1>6. g = [i \in 0..n |-> body(g, i)]
  <2> HIDE DEF body
  <2>1. g = [i \in 0..n |-> g[i]]
    BY <1>4
  <2> QED BY <2>1, <1>5, Zenon
<1>7. out = [i \in 0..n |-> body(out, i)]
  <2> HIDE DEF skip, n
  <2> QED BY <1>6
<1>8. WriteSize(f, size) = IF \E j \in 1..n : skip[j] THEN out[n] ELSE Append(out[n], Res(size))
  BY DEF WriteSize
<1> HIDE DEF out
<1>9. \A j \in 1..n : skip[j] <=> OfRes(f, j)
  BY SkipsResLines
<1>10. WrittenBy(f, size, out)
  <2>1. out[0] = <<>>
    <3>1. 0 \in 0..n
      BY <1>1
    <3> HIDE DEF n, skip
    <3> QED BY <1>7, <3>1
  <2>2. ASSUME NEW i \in 1..n
        PROVE  out[i] = IF ~OfRes(f, i) THEN Append(out[i - 1], f[i])
                        ELSE IF \E j \in 1..i - 1 : OfRes(f, j) THEN out[i - 1]
                        ELSE Append(out[i - 1], Res(size))
    <3>1. i \in 0..n /\ i # 0 /\ (\A j \in 1..i - 1 : j \in 1..n)
      BY <1>1
    <3> HIDE DEF n, skip
    <3>2. out[i] = body(out, i)
      BY <1>7, <3>1
    <3>3. (\E j \in 1..i - 1 : OfRes(f, j)) <=> (\E j \in 1..i - 1 : skip[j])
      BY <1>9, <3>1
    <3> QED BY <1>9, <3>1, <3>2, <3>3
  <2> QED BY <2>1, <2>2 DEF WrittenBy
<1>11. (\E j \in 1..n : OfRes(f, j)) <=> (\E j \in 1..n : skip[j])
  BY <1>9
<1> QED BY <1>8, <1>10, <1>11

\* A text whose res lines all have the size, and one that has such a line.
SizedBy(g, size) ==
  /\ g \in Seq(Pieces) /\ (Len(g) > 0 => g[1].start)
  /\ \A j \in 1..Len(g) : g[j].start /\ IsRes(g[j]) => g[j].text = size

HasSize(g, size) == \E j \in 1..Len(g) : g[j].start /\ g[j].text = size

LEMMA AppendSized ==
  ASSUME NEW size \in Sizes, NEW g, SizedBy(g, size), NEW x \in Pieces,
         Len(g) = 0 => x.start, x.start /\ IsRes(x) => x.text = size
  PROVE  /\ SizedBy(Append(g, x), size)
         /\ HasSize(g, size) \/ x = Res(size) => HasSize(Append(g, x), size)
<1> DEFINE h == Append(g, x)
           n == Len(g)
<1>1. g \in Seq(Pieces) /\ n \in Nat
  BY DEF SizedBy
<1>2. /\ h \in Seq(Pieces) /\ Len(h) = n + 1 /\ \A i \in 1..n : h[i] = g[i]
      /\ h[n + 1] = x
  BY <1>1, AppendProperties
<1> HIDE DEF h
<1>3. h[1].start
  BY <1>1, <1>2 DEF SizedBy
<1>4. ASSUME NEW j \in 1..Len(h), h[j].start, IsRes(h[j]) PROVE h[j].text = size
  <2>1. j \in 1..n \/ j = n + 1
    BY <1>1, <1>2
  <2> QED BY <1>2, <1>4, <2>1 DEF SizedBy
<1>5. ASSUME HasSize(g, size) PROVE HasSize(h, size)
  <2>1. PICK j \in 1..n : g[j].start /\ g[j].text = size
    BY <1>5 DEF HasSize
  <2>2. j \in 1..Len(h) /\ h[j] = g[j]
    BY <1>1, <1>2
  <2> QED BY <2>1, <2>2 DEF HasSize
<1>6. ASSUME x = Res(size) PROVE HasSize(h, size)
  <2>1. n + 1 \in 1..Len(h) /\ h[n + 1].start /\ h[n + 1].text = size
    BY <1>1, <1>2, <1>6 DEF Res
  <2> QED BY <2>1 DEF HasSize
<1> QED BY <1>2, <1>3, <1>4, <1>5, <1>6 DEF SizedBy, h

\* What has been written of f up to piece i keeps the other lines, and is fit
\* to be gone on with.
WrittenSoFar(f, size, i, g, kept) ==
  /\ SizedBy(g, size)
  /\ Others(g) = kept
  /\ i > 0 /\ ~OfRes(f, i) => Len(g) > 0 /\ ~OfRes(g, Len(g))
  /\ (\E j \in 1..i : OfRes(f, j)) => HasSize(g, size)

LEMMA ResIsRes == \A size \in Sizes : Res(size) \in Pieces /\ Res(size).start /\ IsRes(Res(size))
                                      /\ Res(size).text = size
  BY DEF Res, Pieces, IsRes

LEMMA WritesOn ==
  ASSUME NEW f \in IniFiles, NEW size \in Sizes, NEW i \in 1..Len(f), NEW g, NEW kept,
         WrittenSoFar(f, size, i - 1, g, kept)
  PROVE  WrittenSoFar(f, size, i,
           IF ~OfRes(f, i) THEN Append(g, f[i])
           ELSE IF \E j \in 1..i - 1 : OfRes(f, j) THEN g
           ELSE Append(g, Res(size)),
           IF OfRes(f, i) THEN kept ELSE Append(kept, f[i]))
<1>1. f[i] \in Pieces /\ Len(f) \in Nat /\ i \in Nat /\ i >= 1 /\ (i = 1 => f[i].start)
  BY IniFileIs
<1>2. OfRes(f, i) <=> IF f[i].start THEN IsRes(f[i]) ELSE i > 1 /\ OfRes(f, i - 1)
  BY <1>1, OfResStep
<1>3. g \in Seq(Pieces) /\ SizedBy(g, size) /\ Others(g) = kept /\ Len(g) \in Nat
  BY DEF WrittenSoFar, SizedBy
<1>4. (\E j \in 1..i : OfRes(f, j)) <=> OfRes(f, i) \/ \E j \in 1..i - 1 : OfRes(f, j)
  <2>1. \A j \in 1..i : j = i \/ j \in 1..i - 1
    BY <1>1
  <2>2. i \in 1..i /\ \A j \in 1..i - 1 : j \in 1..i
    BY <1>1
  <2> QED BY <2>1, <2>2
<1>5. CASE ~OfRes(f, i)
  <2> DEFINE h == Append(g, f[i])
             of == IF f[i].start THEN IsRes(f[i]) ELSE Len(g) > 0 /\ OfRes(g, Len(g))
  <2>1. ~f[i].start => Len(g) > 0 /\ ~OfRes(g, Len(g))
    <3>1. ~f[i].start => i - 1 > 0 /\ ~OfRes(f, i - 1)
      BY <1>1, <1>2, <1>5
    <3> QED BY <3>1 DEF WrittenSoFar
  <2>2. ~of
    BY <1>2, <1>5, <2>1
  <2>3. ~OfRes(h, Len(h)) /\ Others(h) = Append(kept, f[i])
    BY <1>1, <1>3, <2>2, OthersAppend
  <2>4. Len(h) > 0
    BY <1>1, <1>3, AppendProperties
  <2>5. Len(g) = 0 => f[i].start
    BY <2>1
  <2>6. f[i].start /\ IsRes(f[i]) => f[i].text = size
    BY <1>2, <1>5
  <2>7. SizedBy(h, size) /\ (HasSize(g, size) => HasSize(h, size))
    BY <1>1, <1>3, <2>5, <2>6, AppendSized
  <2>8. (\E j \in 1..i : OfRes(f, j)) => HasSize(g, size)
    BY <1>4, <1>5 DEF WrittenSoFar
  <2> HIDE DEF h
  <2>9. WrittenSoFar(f, size, i, h, Append(kept, f[i]))
    BY <2>3, <2>4, <2>7, <2>8 DEF WrittenSoFar
  <2> QED BY <1>5, <2>9 DEF h
<1>6. CASE OfRes(f, i) /\ \E j \in 1..i - 1 : OfRes(f, j)
  <2>1. HasSize(g, size)
    BY <1>6 DEF WrittenSoFar
  <2>2. WrittenSoFar(f, size, i, g, kept)
    BY <1>3, <1>6, <2>1 DEF WrittenSoFar
  <2> QED BY <1>6, <2>2
<1>7. CASE OfRes(f, i) /\ ~\E j \in 1..i - 1 : OfRes(f, j)
  <2> DEFINE h == Append(g, Res(size))
  <2>1. Others(h) = kept
    BY <1>3, ResIsRes, OthersAppend
  <2>2. SizedBy(h, size) /\ HasSize(h, size)
    BY <1>3, ResIsRes, AppendSized
  <2> HIDE DEF h
  <2>3. WrittenSoFar(f, size, i, h, kept)
    BY <1>7, <2>1, <2>2 DEF WrittenSoFar
  <2> QED BY <1>7, <2>3 DEF h
<1> QED BY <1>5, <1>6, <1>7

\* The size that is read from a text that has it and no other.
LEMMA ReadsSize ==
  ASSUME NEW size \in Sizes, NEW g, SizedBy(g, size), HasSize(g, size)
  PROVE  ReadSize(g) = size
<1> DEFINE good == {i \in 1..Len(g) : g[i].start /\ g[i].text \in Sizes}
<1>1. Len(g) \in Nat
  BY DEF SizedBy
<1>2. good # {} /\ good \in SUBSET Nat
  BY <1>1 DEF HasSize
<1>3. \E i \in good : \A j \in good : i <= j
  <2> HIDE DEF good
  <2> QED BY <1>2, LeastNat
<1>4. (CHOOSE i \in good : \A j \in good : i <= j) \in good
  <2> HIDE DEF good
  <2> QED BY <1>3
<1>5. \A i \in good : g[i].text = size
  BY DEF SizedBy, IsRes
<1> QED BY <1>2, <1>4, <1>5 DEF ReadSize

LEMMA NothingIsWritten == WrittenSoFar(<<>>, Default, 0, <<>>, <<>>) /\ Others(<<>>) = <<>>
<1>1. <<>> \in Seq(Pieces) /\ Len(<<>>) = 0
  OBVIOUS
<1>2. Others(<<>>) = <<>>
  <2>1. PICK h : Gathered(ResLines(<<>>), <<>>, Len(<<>>), h) /\ Others(<<>>) = h[Len(<<>>)]
    BY <1>1, OthersAre
  <2> QED BY <1>1, <2>1 DEF Gathered
<1> QED BY <1>1, <1>2 DEF WrittenSoFar, SizedBy

\* shinogi_write_resolution() keeps the lines that are not the size's, and what
\* it writes is read back.
LEMMA SizeIsWritten ==
  ASSUME NEW f \in IniFiles, NEW size \in Sizes
  PROVE  /\ WriteSize(f, size) \in IniFiles
         /\ Others(WriteSize(f, size)) = Others(f)
         /\ ReadSize(WriteSize(f, size)) = size
<1> DEFINE n == Len(f)
<1>1. n \in Nat /\ f \in Seq(Pieces) /\ f \in [1..n -> Pieces]
  BY IniFileIs
<1>2. PICK out : /\ WrittenBy(f, size, out)
                 /\ WriteSize(f, size) = IF \E j \in 1..n : OfRes(f, j) THEN out[n]
                                         ELSE Append(out[n], Res(size))
  BY WriteSizeIs
<1>3. PICK kept : Gathered(ResLines(f), f, n, kept) /\ Others(f) = kept[n]
  BY <1>1, OthersAre
<1> DEFINE T == {i \in 0..n : ~WrittenSoFar(f, size, i, out[i], kept[i])}
<1>4. ASSUME T # {} PROVE FALSE
  <2>1. PICK i \in T : \A j \in T : i <= j
    <3>1. T \in SUBSET Nat
      BY <1>1
    <3> HIDE DEF T
    <3> QED BY <1>4, <3>1, LeastNat
  <2>2. CASE i = 0
    <3>1. out[0] = <<>> /\ kept[0] = <<>>
      BY <1>2, <1>3 DEF WrittenBy, Gathered
    <3>2. <<>> \in Seq(Pieces) /\ Len(<<>>) = 0
      OBVIOUS
    <3>3. WrittenSoFar(f, size, 0, <<>>, <<>>)
      BY <3>2, NothingIsWritten DEF WrittenSoFar, SizedBy
    <3> QED BY <2>1, <2>2, <3>1, <3>3
  <2>3. CASE i # 0
    <3>1. i \in 1..n /\ i - 1 \in 0..n /\ ~(i <= i - 1)
      BY <1>1, <2>1, <2>3
    <3>2. WrittenSoFar(f, size, i - 1, out[i - 1], kept[i - 1])
      BY <2>1, <3>1
    <3>3. out[i] = IF ~OfRes(f, i) THEN Append(out[i - 1], f[i])
                   ELSE IF \E j \in 1..i - 1 : OfRes(f, j) THEN out[i - 1]
                   ELSE Append(out[i - 1], Res(size))
      BY <1>2, <3>1 DEF WrittenBy
    <3>4. kept[i] = IF OfRes(f, i) THEN kept[i - 1] ELSE Append(kept[i - 1], f[i])
      BY <1>3, <3>1 DEF Gathered, ResLines
    <3>5. WrittenSoFar(f, size, i, out[i], kept[i])
      BY <3>1, <3>2, <3>3, <3>4, WritesOn
    <3> QED BY <2>1, <3>5
  <2> QED BY <2>2, <2>3
<1>5. WrittenSoFar(f, size, n, out[n], kept[n])
  <2>1. n \in 0..n
    BY <1>1
  <2> QED BY <1>4, <2>1
<1> DEFINE g == WriteSize(f, size)
<1>6. SizedBy(g, size) /\ HasSize(g, size) /\ Others(g) = Others(f)
  <2>1. CASE \E j \in 1..n : OfRes(f, j)
    BY <1>2, <1>3, <1>5, <2>1 DEF WrittenSoFar
  <2>2. CASE ~\E j \in 1..n : OfRes(f, j)
    <3>1. SizedBy(out[n], size) /\ Others(out[n]) = kept[n] /\ out[n] \in Seq(Pieces)
      BY <1>5 DEF WrittenSoFar, SizedBy
    <3>2. SizedBy(Append(out[n], Res(size)), size) /\ HasSize(Append(out[n], Res(size)), size)
      BY <3>1, ResIsRes, AppendSized
    <3>3. Others(Append(out[n], Res(size))) = kept[n]
      BY <3>1, ResIsRes, OthersAppend
    <3> QED BY <1>2, <1>3, <2>2, <3>2, <3>3
  <2> QED BY <2>1, <2>2
<1> HIDE DEF g
<1>7. ReadSize(g) = size
  BY <1>6, ReadsSize
<1>8. g \in IniFiles
  <2>1. g \in Seq(Pieces) /\ (Len(g) > 0 => g[1].start)
    BY <1>6 DEF SizedBy
  <2>2. g = <<>> \/ Len(g) > 0
    BY <2>1
  <2> QED BY <2>1, <2>2 DEF IniFiles
<1> QED BY <1>6, <1>7, <1>8 DEF g

-----------------------------------------------------------------------------
(* WinSettings: types, and the drives of a launch *)

Values == UNION {Value(k) : k \in Keys}

SettingsTyped ==
  /\ SettingsTypeOK
  /\ file \in [Keys -> Values]
  /\ draft \in [Procs -> [Keys -> Values]]

\* What NoObjectTwice says of a launch, of drives d as they were when sc was
\* the scene.
InOrder(d, sc) ==
  LET used == {s \in Slots : d[s] # NoPath}
      named == [s \in used \cup {"c"} |-> sc[d[s]]]
  IN  /\ Reserved \notin used
      /\ \A s, t \in used \cup {"c"} : named[s] = named[t] => s = t
      /\ \A s \in used : named[s] \in IF s \in Images THEN Raws ELSE Dirs

\* From the dialog's checks on, while they are saved, and from the launch's own.
DrivesInOrder ==
  \A p \in Procs : run[p] \in {"save", "ready", "runs"} => InOrder(draft[p], seen[p])

LEMMA ValueIs == \A k \in Keys : \A v \in Value(k) : v \in Values
  BY DEF Values

LEMMA KeysAre ==
  /\ Slots \subseteq Keys /\ {"c", "size", "eth", "tap", "lan"} \subseteq Keys
  /\ \A s \in Slots : Value(s) = Paths \cup {NoPath}
  /\ Value("c") = Paths /\ Value("size") = Sizes /\ Value("eth") = Eths \cup {NoGuid}
  /\ Value("tap") = Taps \cup {NoGuid} /\ Value("lan") = BOOLEAN
  /\ Reserved \in Slots /\ "c" \notin Slots
  BY SettingsAssumption DEF Keys, Value, Slots

\* The orders are of keys, and of one length.
LEMMA OrdersAre ==
  /\ Len(LoadOrder) \in Nat /\ Len(LoadOrder) > 0 /\ Len(SaveOrder) = Len(LoadOrder)
  /\ \A i \in 1..Len(LoadOrder) : LoadOrder[i] \in Keys /\ SaveOrder[i] \in Keys
<1>1. SlotOrder \in Seq(Keys)
  <2>1. SlotOrder \in Seq(Slots) /\ Slots \subseteq Keys
    BY SettingsAssumption, KeysAre
  <2> QED BY <2>1
<1>2. /\ <<"c", "size">> \in Seq(Keys) /\ <<"lan", "eth", "tap">> \in Seq(Keys)
      /\ <<"size">> \in Seq(Keys) /\ <<"c", "eth", "tap", "lan">> \in Seq(Keys)
  BY KeysAre
<1> DEFINE a == <<"c", "size">> \o SlotOrder
           b == <<"size">> \o SlotOrder
<1>3. /\ a \in Seq(Keys) /\ Len(a) = 2 + Len(SlotOrder)
      /\ b \in Seq(Keys) /\ Len(b) = 1 + Len(SlotOrder)
  BY <1>1, <1>2, ConcatProperties
<1> HIDE DEF a, b
<1>4. /\ LoadOrder \in Seq(Keys) /\ Len(LoadOrder) = Len(a) + 3
      /\ SaveOrder \in Seq(Keys) /\ Len(SaveOrder) = Len(b) + 4
  <2>1. LoadOrder = a \o <<"lan", "eth", "tap">> /\ SaveOrder = b \o <<"c", "eth", "tap", "lan">>
    BY DEF LoadOrder, SaveOrder, a, b
  <2> QED BY <1>2, <1>3, <2>1, ConcatProperties
<1>5. Len(SlotOrder) \in Nat
  BY <1>1
<1>6. \A s \in Seq(Keys) : \A i \in 1..Len(s) : s[i] \in Keys
  OBVIOUS
<1> QED BY <1>3, <1>4, <1>5, <1>6

LEMMA FreshIs == Fresh \in [Keys -> Values] /\ \A k \in Keys : Fresh[k] \in Value(k)
<1>1. ASSUME NEW k \in Keys PROVE Fresh[k] \in Value(k)
  <2>1. CASE k \in Slots
    BY <2>1, KeysAre DEF Fresh
  <2>2. CASE k \notin Slots
    <3>1. Fresh[k] = CASE k = "c" -> CHOOSE path \in Paths : TRUE
                       [] k = "size" -> Default
                       [] k = "lan" -> FALSE
                       [] OTHER -> NoGuid
      BY <2>2 DEF Fresh
    <3>2. k \in {"c", "size", "eth", "tap", "lan"}
      BY <2>2 DEF Keys
    <3>3. (CHOOSE path \in Paths : TRUE) \in Paths
      BY SettingsAssumption
    <3>4. /\ k = "c" => Fresh[k] \in Paths
          /\ k = "size" => Fresh[k] = Default
          /\ k = "lan" => Fresh[k] = FALSE
          /\ k \in {"eth", "tap"} => Fresh[k] = NoGuid
      BY <3>1, <3>3
    <3>5. Fresh["lan"] = FALSE => Fresh["lan"] \in Value("lan")
      BY KeysAre
    <3> QED BY <3>2, <3>4, <3>5, KeysAre, SettingsAssumption

  <2> QED BY <2>1, <2>2
<1>2. Fresh = [k \in Keys |-> Fresh[k]]
  BY DEF Fresh
<1>3. \A k \in Keys : Fresh[k] \in Values
  BY <1>1, ValueIs
<1> HIDE DEF Fresh
<1> QED BY <1>1, <1>2, <1>3

LEMMA SettingsStart == SettingsInit => SettingsTyped /\ DrivesInOrder
<1> SUFFICES ASSUME SettingsInit PROVE SettingsTyped /\ DrivesInOrder
  OBVIOUS
<1>1. /\ file \in [Keys -> Values] /\ \A k \in Keys : file[k] \in Value(k)
  <2>1. PICK path \in {NoPath, Fresh["c"]} : file = [Fresh EXCEPT ![Reserved] = path]
    BY DEF SettingsInit
  <2>2. path \in Value(Reserved) /\ Reserved \in Keys
    BY FreshIs, KeysAre
  <2>3. path \in Values
    BY <2>2, ValueIs
  <2> HIDE DEF Values, Keys
  <2> QED BY <2>1, <2>2, <2>3, FreshIs
<1>2. ini \in [Dirs -> IniFiles] /\ scene \in Scenes
  BY SettingsAssumption DEF SettingsInit
<1>3. (CHOOSE sc \in Scenes : TRUE) \in Scenes
  BY SettingsAssumption
<1>4. 1 \in 1..Len(SaveOrder)
  BY OrdersAre
<1>5. /\ draft \in [Procs -> [Keys -> Values]]
      /\ \A p \in Procs, k \in Keys : draft[p][k] \in Value(k)
  BY FreshIs DEF SettingsInit
<1>6. /\ machine \in [eth : Eths \cup {NoGuid}, tap : Taps \cup {NoGuid}]
      /\ run \in [Procs -> Stages]
      /\ next \in [Procs -> {"off", "drives", "ready"}]
      /\ step \in [Procs -> 1..Len(SaveOrder)]
      /\ seen \in [Procs -> Scenes]
  BY <1>3, <1>4 DEF SettingsInit, Stages
<1>7. DrivesInOrder
  BY DEF SettingsInit, DrivesInOrder
<1> QED BY <1>1, <1>2, <1>5, <1>6, <1>7 DEF SettingsTyped, SettingsTypeOK

LEMMA QuitsTypes ==
  ASSUME SettingsTyped, NEW p \in Procs, Quits(p)
  PROVE  /\ run' \in [Procs -> Stages]
         /\ next' \in [Procs -> {"off", "drives", "ready"}]
         /\ step' \in [Procs -> 1..Len(SaveOrder)]
         /\ draft' \in [Procs -> [Keys -> Values]]
         /\ \A q \in Procs, k \in Keys : draft'[q][k] \in Value(k)
         /\ seen' \in [Procs -> Scenes]
<1>1. (CHOOSE sc \in Scenes : TRUE) \in Scenes
  BY SettingsAssumption
<1>2. 1 \in 1..Len(SaveOrder)
  BY OrdersAre
<1>3. draft' = [draft EXCEPT ![p] = Fresh]
  BY DEF Quits
<1>4. /\ draft' \in [Procs -> [Keys -> Values]]
      /\ \A q \in Procs, k \in Keys : draft'[q][k] \in Value(k)
  BY <1>3, FreshIs DEF SettingsTyped, SettingsTypeOK
<1> QED BY <1>1, <1>2, <1>4 DEF Quits, SettingsTyped, SettingsTypeOK, Stages

\* A key of p's settings gets a value of its own.
LEMMA KeyTypes ==
  ASSUME SettingsTyped, NEW p \in Procs, NEW k \in Keys, NEW v \in Value(k),
         draft' = [draft EXCEPT ![p][k] = v]
  PROVE  /\ draft' \in [Procs -> [Keys -> Values]]
         /\ \A q \in Procs, j \in Keys : draft'[q][j] \in Value(j)
<1>1. v \in Values
  BY ValueIs
<1>2. draft \in [Procs -> [Keys -> Values]]
  BY DEF SettingsTyped
<1>3. draft' \in [Procs -> [Keys -> Values]]
  <2> HIDE DEF Keys, Values
  <2> QED BY <1>1, <1>2
<1>4. ASSUME NEW q \in Procs, NEW j \in Keys PROVE draft'[q][j] \in Value(j)
  <2>1. draft'[q][j] = IF q = p /\ j = k THEN v ELSE draft[q][j]
    <3> HIDE DEF Keys, Values
    <3> QED BY <1>2
  <2>2. draft[q][j] \in Value(j)
    BY DEF SettingsTyped, SettingsTypeOK
  <2> QED BY <2>1, <2>2
<1> QED BY <1>3, <1>4

LEMMA LoadsTypes ==
  ASSUME SettingsTyped, NEW p \in Procs, LoadsKey(p)
  PROVE  SettingsTyped'
<1> DEFINE k == LoadOrder[step[p]]
           d == Identity(draft[p]["c"])
           value == IF k # "size" THEN file[k]
                    ELSE IF d \in Dirs THEN ReadSize(ini[d]) ELSE Default
<1>1. step[p] \in 1..Len(LoadOrder) /\ k \in Keys
  BY OrdersAre DEF SettingsTyped, SettingsTypeOK
<1>2. value \in Value(k)
  <2>1. ASSUME NEW f \in IniFiles PROVE ReadSize(f) \in Sizes
    <3> DEFINE good == {i \in 1..Len(f) : f[i].start /\ f[i].text \in Sizes}
    <3>1. good \in SUBSET Nat
      BY IniFileIs
    <3>2. ASSUME good # {} PROVE (CHOOSE i \in good : \A j \in good : i <= j) \in good
      <4>1. \E i \in good : \A j \in good : i <= j
        <5> HIDE DEF good
        <5> QED BY <3>1, <3>2, LeastNat
      <4> HIDE DEF good
      <4> QED BY <4>1
    <3>3. \A i \in good : f[i].text \in Sizes
      OBVIOUS
    <3> QED BY <3>2, <3>3, SettingsAssumption DEF ReadSize
  <2>2. CASE k # "size"
    <3>1. file[k] \in Value(k)
      BY <1>1 DEF SettingsTyped, SettingsTypeOK
    <3> QED BY <2>2, <3>1
  <2>3. CASE k = "size"
    <3>1. Value(k) = Sizes
      BY <2>3, KeysAre
    <3>2. d \in Dirs => ini[d] \in IniFiles
      BY DEF SettingsTyped, SettingsTypeOK
    <3> HIDE DEF d, k
    <3> QED BY <2>1, <2>3, <3>1, <3>2, SettingsAssumption
  <2> QED BY <2>2, <2>3
<1>3. draft' = [draft EXCEPT ![p][k] = value]
  BY DEF LoadsKey
<1> HIDE DEF value, k
<1>4. /\ draft' \in [Procs -> [Keys -> Values]]
      /\ \A q \in Procs, j \in Keys : draft'[q][j] \in Value(j)
  BY <1>1, <1>2, <1>3, KeyTypes
<1>5. run' \in [Procs -> Stages] /\ step' \in [Procs -> 1..Len(SaveOrder)]
  <2>1. run \in [Procs -> Stages] /\ step \in [Procs -> 1..Len(SaveOrder)]
    BY DEF SettingsTyped, SettingsTypeOK
  <2>2. CASE step[p] < Len(LoadOrder)
    <3>1. step' = [step EXCEPT ![p] = step[p] + 1] /\ UNCHANGED run
      BY <2>2 DEF LoadsKey
    <3>2. step[p] + 1 \in 1..Len(SaveOrder)
      BY <1>1, <2>2, OrdersAre
    <3> QED BY <2>1, <3>1, <3>2
  <2>3. CASE ~(step[p] < Len(LoadOrder))
    BY <2>1, <2>3 DEF LoadsKey, Goes, Stages
  <2> QED BY <2>2, <2>3
<1>6. UNCHANGED <<file, ini, scene, machine, acts, next, seen>>
  BY DEF LoadsKey
<1> QED BY <1>4, <1>5, <1>6 DEF SettingsTyped, SettingsTypeOK

LEMMA SavesTypes ==
  ASSUME SettingsTyped, NEW p \in Procs, SavesKey(p)
  PROVE  SettingsTyped'
<1> DEFINE k == SaveOrder[step[p]]
           d == Identity(draft[p]["c"])
<1>1. step[p] \in 1..Len(SaveOrder) /\ k \in Keys /\ draft[p][k] \in Value(k)
  BY OrdersAre DEF SettingsTyped, SettingsTypeOK
<1>2. UNCHANGED <<scene, machine, acts>>
  BY DEF SavesKey
<1>3. CASE Goes(p, "dialog") /\ UNCHANGED <<file, ini, next, step, draft, seen>>
  BY <1>2, <1>3 DEF Goes, SettingsTyped, SettingsTypeOK, Stages
<1>4. CASE ~(Goes(p, "dialog") /\ UNCHANGED <<file, ini, next, step, draft, seen>>)
  <2>1. file' \in [Keys -> Values] /\ (\A j \in Keys : file'[j] \in Value(j)) /\ ini' \in [Dirs -> IniFiles]
    <3>1. CASE k = "size"
      <4>1. /\ d \in Dirs /\ ini' = [ini EXCEPT ![d] = WriteSize(ini[d], draft[p][k])]
            /\ UNCHANGED file
        BY <1>4, <3>1 DEF SavesKey
      <4>2. draft[p][k] \in Sizes /\ ini[d] \in IniFiles
        BY <1>1, <3>1, <4>1, KeysAre DEF SettingsTyped, SettingsTypeOK
      <4>3. WriteSize(ini[d], draft[p][k]) \in IniFiles
        BY <4>2, SizeIsWritten
      <4> HIDE DEF d, k
      <4> QED BY <4>1, <4>3 DEF SettingsTyped, SettingsTypeOK
    <3>2. CASE k # "size"
      <4>1. file' = [file EXCEPT ![k] = draft[p][k]] /\ UNCHANGED ini
        BY <1>4, <3>2 DEF SavesKey
      <4>2. draft[p][k] \in Values
        BY <1>1, ValueIs
      <4> HIDE DEF k
      <4> QED BY <1>1, <4>1, <4>2 DEF SettingsTyped, SettingsTypeOK
    <3> QED BY <3>1, <3>2
  <2>2. CASE step[p] < Len(SaveOrder)
    <3>1. step' = [step EXCEPT ![p] = step[p] + 1] /\ UNCHANGED <<run, next, draft, seen>>
      BY <1>4, <2>2 DEF SavesKey
    <3>2. step[p] + 1 \in 1..Len(SaveOrder)
      BY <1>1, <2>2, OrdersAre
    <3> QED BY <1>2, <2>1, <3>1, <3>2 DEF SettingsTyped, SettingsTypeOK
  <2>3. CASE ~(step[p] < Len(SaveOrder)) /\ next[p] = "off"
    <3>1. Quits(p)
      BY <1>4, <2>3 DEF SavesKey
    <3> QED BY <1>2, <2>1, <3>1, QuitsTypes DEF SettingsTyped, SettingsTypeOK
  <2>4. CASE ~(step[p] < Len(SaveOrder)) /\ next[p] # "off"
    <3>1. Goes(p, next[p]) /\ UNCHANGED <<next, step, draft, seen>>
      BY <1>4, <2>4 DEF SavesKey
    <3>2. next[p] \in Stages
      BY DEF SettingsTyped, SettingsTypeOK, Stages
    <3> QED BY <1>2, <2>1, <3>1, <3>2 DEF Goes, SettingsTyped, SettingsTypeOK
  <2> QED BY <2>2, <2>3, <2>4
<1> QED BY <1>3, <1>4

\* What IDOK looks at and saves.
Confirmed(p, e) == [k \in Keys |-> IF k = "tap" THEN draft[p][k] ELSE e[k]]

LEMMA ConfirmsTypes ==
  ASSUME SettingsTyped, NEW p \in Procs, NEW e \in Entered, Confirms(p, e)
  PROVE  /\ SettingsTyped'
         /\ draft' = [draft EXCEPT ![p] = Confirmed(p, e)]
         /\ \A k \in Keys : Confirmed(p, e)[k] \in Value(k)
<1> DEFINE d == Confirmed(p, e)
<1>1. \A k \in Keys : d[k] \in Value(k)
  BY SettingsAssumption DEF Confirmed, SettingsTyped, SettingsTypeOK
<1>2. d \in [Keys -> Values]
  <2>1. \A k \in Keys : d[k] \in Values
    BY <1>1, ValueIs
  <2>2. d = [k \in Keys |-> d[k]]
    BY DEF Confirmed
  <2> HIDE DEF d
  <2> QED BY <2>1, <2>2
<1>3. draft' = [draft EXCEPT ![p] = d]
  BY DEF Confirms, Confirmed
<1> HIDE DEF d
<1>4. /\ draft' \in [Procs -> [Keys -> Values]]
      /\ \A q \in Procs, j \in Keys : draft'[q][j] \in Value(j)
  BY <1>1, <1>2, <1>3 DEF SettingsTyped, SettingsTypeOK
<1>5. /\ run' \in [Procs -> Stages] /\ step' \in [Procs -> 1..Len(SaveOrder)]
      /\ seen' \in [Procs -> Scenes]
  <2>1. 1 \in 1..Len(SaveOrder)
    BY OrdersAre
  <2> QED BY <2>1 DEF Confirms, Goes, SettingsTyped, SettingsTypeOK, Stages
<1>6. UNCHANGED <<file, ini, scene, machine, next>>
  BY DEF Confirms
<1> QED BY <1>1, <1>3, <1>4, <1>5, <1>6 DEF SettingsTyped, SettingsTypeOK, d

LEMMA SettingsTypesStep ==
  ASSUME SettingsTyped, [SettingsNext]_settings
  PROVE  SettingsTyped'
<1>1. CASE UNCHANGED settings
  BY <1>1 DEF settings, SettingsTyped, SettingsTypeOK
<1>2. CASE Rearranges
  BY <1>2 DEF Rearranges, SettingsTyped, SettingsTypeOK
<1>3. ASSUME NEW p \in Procs, WinMain(p) PROVE SettingsTyped'
  <2>1. CASE \E after \in {"off", "drives"} : Opens(p, after)
    <3>1. 1 \in 1..Len(SaveOrder)
      BY OrdersAre
    <3> QED BY <2>1, <3>1 DEF Opens, Goes, SettingsTyped, SettingsTypeOK, Stages
  <2>2. CASE LoadsKey(p)
    BY <2>2, LoadsTypes
  <2>3. CASE ChecksFolder(p)
    BY <2>3 DEF ChecksFolder, Goes, SettingsTyped, SettingsTypeOK, Stages
  <2>4. CASE ChecksDrives(p)
    <3>1. run' \in [Procs -> Stages]
      BY <2>4 DEF ChecksDrives, Goes, SettingsTyped, SettingsTypeOK, Stages
    <3>2. seen' \in [Procs -> Scenes]
      BY <2>4 DEF ChecksDrives, SettingsTyped, SettingsTypeOK
    <3>3. next' \in [Procs -> {"off", "drives", "ready"}]
      BY <2>4 DEF ChecksDrives, SettingsTyped, SettingsTypeOK
    <3>4. UNCHANGED <<file, ini, scene, machine, acts, step, draft>>
      BY <2>4 DEF ChecksDrives
    <3> QED BY <3>1, <3>2, <3>3, <3>4 DEF SettingsTyped, SettingsTypeOK
  <2>5. CASE ChecksLan(p)
    <3>1. UNCHANGED <<file, ini, scene, machine, acts>>
      BY <2>5 DEF ChecksLan
    <3>2. CASE Quits(p)
      BY <3>1, <3>2, QuitsTypes DEF SettingsTyped, SettingsTypeOK
    <3>3. CASE Goes(p, "runs") /\ UNCHANGED <<next, step, draft, seen>>
      BY <3>1, <3>3 DEF Goes, SettingsTyped, SettingsTypeOK, Stages
    <3> QED BY <2>5, <3>2, <3>3 DEF ChecksLan
  <2>6. CASE Leaves(p)
    BY <2>6, QuitsTypes DEF Leaves, SettingsTyped, SettingsTypeOK
  <2> QED BY <1>3, <2>1, <2>2, <2>3, <2>4, <2>5, <2>6 DEF WinMain
<1>4. ASSUME NEW p \in Procs, Dialog(p) PROVE SettingsTyped'
  <2>1. CASE SetsUpLan(p)
    <3>1. machine' \in [eth : Eths \cup {NoGuid}, tap : Taps \cup {NoGuid}]
      BY <2>1 DEF SetsUpLan, SettingsTyped, SettingsTypeOK
    <3>2. machine'.tap \in Value("tap") /\ "tap" \in Keys
      BY <3>1, KeysAre
    <3>3. /\ draft' \in [Procs -> [Keys -> Values]]
          /\ \A q \in Procs, j \in Keys : draft'[q][j] \in Value(j)
      <4>1. CASE UNCHANGED draft
        BY <4>1 DEF SettingsTyped, SettingsTypeOK
      <4>2. CASE draft' = [draft EXCEPT ![p]["tap"] = machine'.tap]
        BY <3>2, <4>2, KeyTypes
      <4> QED BY <2>1, <4>1, <4>2 DEF SetsUpLan
    <3> QED BY <2>1, <3>1, <3>3 DEF SetsUpLan, SettingsTyped, SettingsTypeOK
  <2>2. ASSUME NEW e \in Entered, Confirms(p, e) PROVE SettingsTyped'
    BY <2>2, ConfirmsTypes
  <2>3. CASE SavesKey(p)
    BY <2>3, SavesTypes
  <2> QED BY <1>4, <2>1, <2>2, <2>3 DEF Dialog
<1> QED BY <1>1, <1>2, <1>3, <1>4 DEF SettingsNext

-----------------------------------------------------------------------------
\* drives_valid() leaves no object behind two drives, and nothing at U:.
LEMMA ValidIsInOrder ==
  ASSUME NEW d, \A k \in Keys : d[k] \in Value(k), DrivesValid(d)
  PROVE  InOrder(d, scene)
<1> DEFINE used == {s \in Slots : d[s] # NoPath}
           named == [s \in used \cup {"c"} |-> scene[d[s]]]
<1>1. d["c"] \in Paths /\ NoPath \notin Paths
  BY KeysAre, SettingsAssumption
<1>2. \A s \in used \cup {"c"} : named[s] = Identity(d[s])
  BY <1>1 DEF Identity
<1>3. \A s \in used :
        /\ s # Reserved
        /\ named[s] \in IF s \in Folders THEN Dirs ELSE Raws
        /\ named[s] # named["c"]
        /\ \A t \in used \ {s} : named[t] # named[s]
  <2> HIDE DEF named
  <2> QED BY <1>2 DEF DrivesValid
<1>4. \A s \in used : s \in Images <=> s \notin Folders
  BY SettingsAssumption DEF Slots
<1>5. \A s, t \in used \cup {"c"} : named[s] = named[t] => s = t
  <2> HIDE DEF named, used
  <2> QED BY <1>3
<1> HIDE DEF named
<1>6. /\ Reserved \notin used
      /\ \A s \in used : named[s] \in IF s \in Images THEN Raws ELSE Dirs
  BY <1>3, <1>4
<1> QED BY <1>5, <1>6 DEF InOrder, named

LEMMA OrderStep ==
  ASSUME SettingsTyped, DrivesInOrder, [SettingsNext]_settings
  PROVE  DrivesInOrder'
<1> SUFFICES ASSUME NEW p \in Procs, run'[p] \in {"save", "ready", "runs"}
             PROVE  InOrder(draft'[p], seen'[p])
  BY DEF DrivesInOrder, InOrder
<1> USE DEF SettingsTyped, SettingsTypeOK
<1>1. CASE run[p] \in {"save", "ready", "runs"} /\ UNCHANGED <<draft[p], seen[p]>>
  BY <1>1 DEF DrivesInOrder
<1>2. CASE UNCHANGED settings \/ Rearranges
  BY <1>1, <1>2 DEF settings, Rearranges
<1>3. ASSUME NEW q \in Procs, Quits(q), q # p
      PROVE  UNCHANGED <<run[p], draft[p], seen[p]>>
  BY <1>3 DEF Quits
<1>4. ASSUME NEW q \in Procs, Quits(q) PROVE q # p
  BY <1>4 DEF Quits
<1>5. ASSUME NEW q \in Procs, q # p, WinMain(q) \/ Dialog(q)
      PROVE  UNCHANGED <<run[p], draft[p], seen[p]>>
  <2>1. CASE Quits(q)
    BY <1>3, <1>5, <2>1
  <2>2. CASE ~Quits(q) /\ WinMain(q)
    BY <1>5, <2>2 DEF WinMain, Opens, LoadsKey, ChecksFolder, ChecksDrives, ChecksLan, Leaves, Goes
  <2>3. CASE ~Quits(q) /\ (SavesKey(q) \/ SetsUpLan(q))
    BY <1>5, <2>3 DEF SavesKey, SetsUpLan, Goes
  <2>4. ASSUME NEW e \in Entered, Confirms(q, e) PROVE UNCHANGED <<run[p], draft[p], seen[p]>>
    BY <1>5, <2>4 DEF Confirms, Goes
  <2> QED BY <1>5, <2>1, <2>2, <2>3, <2>4 DEF Dialog
<1>6. CASE WinMain(p) /\ ~Quits(p)
  <2>1. CASE (\E after \in {"off", "drives"} : Opens(p, after)) \/ LoadsKey(p) \/ ChecksFolder(p)
    BY <2>1 DEF Opens, LoadsKey, ChecksFolder, Goes
  <2>2. CASE ChecksDrives(p)
    <3>1. DrivesValid(draft[p]) /\ seen'[p] = scene /\ UNCHANGED draft
      BY <2>2 DEF ChecksDrives, Goes
    <3>2. \A k \in Keys : draft[p][k] \in Value(k)
      OBVIOUS
    <3> QED BY <3>1, <3>2, ValidIsInOrder
  <2>3. CASE ChecksLan(p)
    BY <1>1, <1>6, <2>3 DEF ChecksLan
  <2> QED BY <1>6, <2>1, <2>2, <2>3 DEF WinMain, Leaves
<1>7. CASE SavesKey(p) \/ SetsUpLan(p)
  <2>1. CASE SetsUpLan(p)
    BY <2>1 DEF SetsUpLan
  <2>2. CASE SavesKey(p)
    <3>1. ~Quits(p)
      BY <1>4
    <3>2. run[p] = "save" /\ UNCHANGED <<draft, seen>>
      BY <2>2, <3>1 DEF SavesKey, Goes
    <3> QED BY <1>1, <3>2
  <2> QED BY <1>7, <2>1, <2>2
<1>8. ASSUME NEW e \in Entered, Confirms(p, e) PROVE InOrder(draft'[p], seen'[p])
  <2> DEFINE d == Confirmed(p, e)
  <2>1. DrivesValid(d) /\ seen'[p] = scene
    BY <1>8 DEF Confirms, Confirmed
  <2>2. draft'[p] = d /\ \A k \in Keys : d[k] \in Value(k)
    BY <1>8, ConfirmsTypes
  <2> HIDE DEF d
  <2> QED BY <2>1, <2>2, ValidIsInOrder
<1> QED BY <1>2, <1>4, <1>5, <1>1, <1>6, <1>7, <1>8 DEF SettingsNext, Dialog, DrivesInOrder

LEMMA SettingsInvariance == SettingsSpec => [](SettingsTyped /\ DrivesInOrder)
<1>1. SettingsTyped /\ DrivesInOrder /\ [SettingsNext]_settings => SettingsTyped' /\ DrivesInOrder'
  BY SettingsTypesStep, OrderStep
<1> QED BY SettingsStart, <1>1, PTL DEF SettingsSpec

\* Loading and saving key by key keep every key to its own kind of value, and
\* SHINOGI.INI a text of lines, for any slots, processes and files.
THEOREM SettingsTypesHold == SettingsSpec => []SettingsTypeOK
<1>1. SettingsTyped => SettingsTypeOK
  BY DEF SettingsTyped
<1> QED BY SettingsInvariance, <1>1, PTL

\* However the keys of several saves and loads are mixed, and wherever they
\* stop, no launch goes on with one object behind two drives, nor with one at
\* U:, as drives_valid() found them.
THEOREM NoObjectIsTwice == SettingsSpec => []NoObjectTwice
<1>1. DrivesInOrder => NoObjectTwice
  BY DEF DrivesInOrder, InOrder, NoObjectTwice
<1> QED BY SettingsInvariance, <1>1, PTL

\* A save changes no line of SHINOGI.INI but the size's, however long the lines
\* are and wherever fgets() cuts them, and every later launch reads the size
\* that was saved: for any text.
THEOREM IniIsKept == SettingsSpec => IniKept
<1>1. ASSUME SettingsTyped, SettingsNext, NEW d \in Dirs, ini'[d] # ini[d]
      PROVE  /\ Others(ini'[d]) = Others(ini[d])
             /\ \E p \in Procs : run[p] = "save" /\ ReadSize(ini'[d]) = draft[p]["size"]
  <2>1. PICK p \in Procs : SavesKey(p)
    BY <1>1 DEF SettingsNext, WinMain, Dialog, Opens, LoadsKey, ChecksFolder, ChecksDrives,
                ChecksLan, Leaves, SetsUpLan, Confirms, Rearranges
  <2> DEFINE k == SaveOrder[step[p]]
             c == Identity(draft[p]["c"])
  <2>2. run[p] = "save" /\ k = "size" /\ c \in Dirs /\ ini' = [ini EXCEPT ![c] = WriteSize(ini[c], draft[p][k])]
    BY <1>1, <2>1 DEF SavesKey
  <2>3. ini \in [Dirs -> IniFiles] /\ draft[p]["size"] \in Sizes
    BY KeysAre, <1>1 DEF SettingsTyped, SettingsTypeOK
  <2> HIDE DEF c, k
  <2>4. d = c /\ ini'[d] = WriteSize(ini[d], draft[p]["size"])
    BY <1>1, <2>2, <2>3
  <2> QED BY <2>2, <2>3, <2>4, SizeIsWritten
<1>2. SettingsTyped /\ [SettingsNext]_settings
        => [\A d \in Dirs : ini'[d] # ini[d] =>
              /\ Others(ini'[d]) = Others(ini[d])
              /\ \E p \in Procs : run[p] = "save" /\ ReadSize(ini'[d]) = draft[p]["size"]]_settings
  BY <1>1
<1> QED BY SettingsInvariance, <1>2, PTL DEF SettingsSpec, IniKept

-----------------------------------------------------------------------------
(* The instance of the four of them that TLC checks. *)

\* A step of it is a step of one part, and of every other a step or a stutter.
LEMMA InstanceSteps ==
  [MCNext]_all => [Next]_vars /\ [TapNext]_tap /\ [LanNext]_bridging /\ [SettingsNext]_settings
BY Zenon DEF MCNext, all

LEMMA InstanceStarts == MCInit => Init /\ TapInit /\ LanInit /\ SettingsInit
BY Zenon DEF MCInit, Rests

\* The variables of the four parts have their types in every behaviour of it.
THEOREM InstanceTypesHold == MCSpec => []SetupTypeOK
<1>1. MCSpec => Spec /\ TapSpec /\ LanSpec /\ SettingsSpec
  BY InstanceStarts, InstanceSteps, PTL DEF MCSpec, Spec, TapSpec, LanSpec, SettingsSpec
<1> QED BY <1>1, TypeCorrect, TapTypeCorrect, LanTypesHold, SettingsTypesHold, PTL DEF SetupTypeOK
=============================================================================
