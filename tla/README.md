# Verification of shinogi

shinogi runs an emulated Atari (QEMU, EmuTOS, FreeMiNT) with a host folder as
its drive C. This directory holds TLA+ models of the programs of this
repository that have state worth worrying about, the TLC configurations that
check them on small instances, and theorems that hold for every instance, with
proofs checked by TLAPS. `PROJECT.json` ties definitions to source lines.

## 1. The system

| Part | Source | State | Operations | What makes it hard |
|---|---|---|---|---|
| drive C helper, `shinogi-hostfsd` | `tools/hostfsd/shinogi-hostfsd.c`, protocol in `shinogi-hostfs-proto.h` | two fixed handle tables, the open descriptors, the folder itself | one request at a time: HELLO, OPEN, CREATE, CLOSE, READ, WRITE, STAT, OPENDIR, READDIR, READDIR_BATCH, CLOSEDIR, DELETE, MKDIR, RMDIR, RENAME, SETATTR, DFREE, CAPS | the guest may reset without the connection dropping; other host programs use the folder; power loss; names that differ in case |
| its stream | same file, `recv_exact`, `send_all`, `serve_client`, `main` | bytes of the frame so far, clients served | header, rest, answer; accept; `--once` | frames in pieces, connections that carry nothing, a bad length |
| its start-up | same file, `main`, `make_writable`, `signal_ready` | attributes of every file, listener, ready file | the writable pass, listen, announce | on Windows the pass runs beside the guest |
| Linux launcher | `tools/linux/shinogi.sh` | `qemu.pid`, `hostfs.pid`, the ready file and socket, the processes | `start`, `run`, `stop`, `status` | every command is a separate shell; a pid file outlives its process; windows are closed at any time |
| native launcher | `tools/shinogi-launcher.c` | helper's pid, run directory, drive C | lay drive C, read the screen size, fork helper, wait for the ready file, run QEMU, clean up | a helper that dies or is slow, a copy that is cut short, two launches |
| Windows launcher | `tools/win/shinogi-launcher.c` | handles of a helper for each folder drive, their ready files | `start_helper`, `run_qemu`, `stop_edition` | two instances, an edition being replaced |
| Windows settings | `tools/win/settings.c`, `drives.c`, `resolution.c` | `settings.ini`, SHINOGI.INI in drive C | load, check, edit, save | key by key, by several processes; objects that move; long lines |
| Windows network | `tools/win/network.c`, `network-config.c` | the guest's network files | `prepare_guest`, `write_atomic`, `check_lan` | a failure between two steps |
| TAP driver | `tools/win/install-tap.c`, `tap-adapter.ps1` | a device, its record in the registry | install, roll back, recover after a restart | a removal that waits for a restart, a time limit, a kill |
| LAN bridge | `tools/win/lan-setup.ps1` | the bridge, its record, Ethernet's addresses | set up, check, remove, roll back | two products, the user's bridges, a failure after the change |
| guest side | `tools/guest/*` | SHINOGI.INI | `setres`, a DHCP script | rewrites a file that is not its own |
| emulator, OS | submodules, downloads (not in the repository) | | | the environment of the models |
| packaging, fixtures, test harnesses | `tools/*.sh`, `tools/*.py`, `tests/` | | | build time only |

Interactions: the launcher starts the helper and waits for its *ready file*,
then starts QEMU, which connects to the helper's socket. The guest's driver
sends one request frame and waits for its answer. Killing the helper, closing
QEMU and resetting the guest are all normal ways to end.

The hazards - what can go wrong here that a test would hardly reach - are
listed with their lines in `PROJECT.json`; every property below is aimed at one.

## 2. Modules and the code

| Module | Models | State ↔ code | Actions ↔ code |
|---|---|---|---|
| `HostFolder` | the served folder and `resolve_path()` | `kind`, `ro`, `entry`: inodes, their write permission, directory entries | operators only: `Resolve` (the case-insensitive walk), one error operator per system call as `errno_to_gemdos()` reports it, `Make`, `Unlink`, `Move` |
| `Hostfsd` | `serve()`, both tables, sessions | `files`, `dirs` are the two static arrays, `fds` the process's descriptors, `mem`/`disk` the page cache and what survives a power loss, `link`/`greeted` the connection; `held`, `scan` are the guest's own handles and cookies | one action per protocol operation; `Hello`, `Connect`, `Disconnect` all contain `HandlesReset` as `handles_reset()` is called from each; `Reboot`, `HelperKilled`, `PowerLoss`, `HostPut`, `HostRemove`, `HostEdit`, `Writeback` are the world |
| `HandleService` | the promise of a handle in `shinogi-hostfs-proto.h` | `grant`, `open` | `Greet`, `Grant`, `Release`, `Lose`, `End` |
| `HostfsdScan` | history of an enumeration, for properties of `Hostfsd` | `source`, `kept`, `steady` only watch | `Watch`, joined to every step |
| `HostfsLink` | `recv_exact()`, `send_all()`, `serve_client()`, the accept loop | `wire` is the socket, `buf` is `req`, `out` the rest of an answer, `served` the counter of the function | `Receive` takes any number of bytes, `HeaderRead` counts and checks the length, `Serve`, `Send`, `Sent`, `SendFails`, `SessionOver` |
| `NativeLaunch` | `tools/shinogi-launcher.c` from `fork()` to `execlp()`, over `HostfsLink` | `launcher`, `polls`, `ready` | `Prepare`, `SeesReady`, `SeesHelperDead`, `PollsAgain`, `GivesUp`, `Exec`; QEMU and a program that probes the socket are its environment |
| `ShinogiSh` | `start`, `run`, `stop`, `status` of `tools/linux/shinogi.sh` | `pidfile`, `hostfsPid`, `ready` are the three files, `proc` the processes, `pc`/`cmd`/`then`/`child` one shell per terminal | one action per step other processes can see: a file tested, written or removed, a process started or killed |
| `HostfsdStartup` | `main()` up to the first client and `make_writable()` | `stage`, `ro`, `todo`, `hand`/`sawRo` (the attribute read and not yet cleared) | `Resolve`, `Walked`, `Open`, `Announced`; `Take`, `Clear`, `PassOver`; the guest's `SETATTR` |
| `GuestNet` | `prepare_guest()` and `write_atomic()` of `tools/win/network.c` | `config`, `backup`, `script` are MINT.CNF, SHNNET.BAK and SHNNET.SH, `old`/`oldScript` what was read of them, `want` the settings; `users` remembers what the user wrote | one action per write and per read it depends on: `Look`, `ReadScript`, `Backup`, `WriteScript`, `WriteConfig`, `Undo`; `Crash` and `UserEdits` are the world |
| `HostfsPath` | `resolve_path()` with `component_ok()`, `match_fold()` and `under_root()`, and `make_writable()`, over a tree with links | `tree` is the host's, `request`/`joined`/`above`/`at` the loop of `resolve_path()`, `ahead`/`touched` the recursion of the pass and what it changed | `Resolves`, `Join` (a component), `Check` (the parent and the leaf); `Descend` (a directory), `PassEnds` |
| `DriveC` | drive C of the native launcher, and `store()` of `tools/guest/setres.c` | `drive` is what each file is (`pristine`, `cut`, `own`), `ini` the lines of SHINOGI.INI, `place` `main()`, `cp`/`left` the copying process, `store` what `setres` is about to write; `chosen`, `had`, `kept`, `relaid` only watch | `Looks` (with `Unread`, the look that fails), `Lays`, `CopyEnds`, `LooksUpSize`, `FindsFirmware`; `Chooses`, `Writes` are `setres`; `Copies`, `Edits`, `Deletes` and the like are `cp`, the user and the guest |
| `TapInstall` | `Install-AtariTap` (`tap-adapter.ps1`) and `install-tap.exe`, which it starts | `nodes`, `going` are the devices and those a restart removes, `saved` the record, `setup` the script, `program`/`own`/`restart`/`line` the program and its last line; `lost` only watches | `Settled`, `Recovered`, `Starts`, `TimesOut`, `Records`; `Publish` to `Verify` and `RollBack`, a step of the program each; `Interrupted`, `KillFails`, `RecordsHalf`, `Restarts` |
| `LanBridge` | `tools/win/lan-setup.ps1` | `bridges`, `members`, `addressed` are Windows's, `record` the registry, `stage`/`nic`/`before`/`made` the script; `maker`, `stray`, `torn` only watch | one action per command that changes or reads something: `Prepares`, `Creates`, `Identifies`, `Claims`, `Waits`, `Finishes`, `Undoes`, `Removes`, `Restores`, `Forgets`; `ScriptDies`, `UserBridges`, `UserUnbridges`, `Rebinds` are the world |
| `WinSettings` | `settings_load()`, the checks of `WinMain()`, `dialog_proc()`, `drives_valid()`, `check_lan()`, `shinogi_read_resolution()` and `shinogi_write_resolution()` | `file` is `settings.ini`, `ini` the SHINOGI.INI of each folder, `scene` what paths name, `draft` the `Settings` of a process, `run`/`step` where it is; `seen` only watches | `LoadsKey`, `SavesKey` a key each; `ChecksFolder`, `ChecksDrives`, `ChecksLan`, `SetsUpLan`, `Confirms`; `Rearranges` is the user |
| `WinLauncher` | `start_helper()`, `stop_helper()`, `run_qemu()`, `stop_edition()` and the loops of `WinMain()` in `tools/win/shinogi-launcher.c` | for each launch `pc`, `at` (`d` of the loops) and `port` (a drive has one when its place in `helpers[]` is filled); `helper`, `qemu` the processes, `ready` the files all launches of an edition share, `stop`/`snapshot`/`todo`/`ok` those of `stop_edition()`; `heard` and `rivals` only watch | `ClearReady`, `Spawn`, `SeesPort`, `SeesHelperDead`, `GivesUp` are `start_helper()`; `RunQemu`, `SeesQemuEnd`, `StopHelper`; `Snapshot`, `StopOne`, `Stopped`; `Announce`, `HelperFails`, `SessionOver` the helper, `QemuJoins`, `QemuEnds`, `Kill` the world |

`HostFolder` is extended by `Hostfsd`, that by `HostfsdScan` and by the proof
modules; `HandleService` is instantiated in `Hostfsd`; `NativeLaunch` extends
`HostfsLink`. `ShinogiSh` and `HostfsdStartup` stand alone: they share only the
ready file with the rest, and each models the helper's part of it. `GuestNet`
stands alone too: it ends before the helper of the same launch is started, which
is where `WinLauncher` begins. `WinSettings` comes before both; `TapInstall` and
`LanBridge` are scripts that are run by themselves, and `LanBridge` takes what
`TapInstall` promises for granted. `HostfsPath` is the same `resolve_path()` as
`HostFolder`'s, over a tree with links instead of handles.

The `MC` modules hold the instances TLC checks. In every module an operator called
`X_Something` next to `X` is a plausible bug in `X`, kept to show that some
property notices it (`PROJECT.json`, "mutants").

Some of the `MC` modules hold several parts that share no variable (`MCStartup`,
`MCLinux`, `MCGuestNet`). A variable `part` is chosen in the
initial state and says which of them acts; the others rest in one of their
initial states. So each part is explored exactly as it would be by itself, its
properties are those of its own specification, and fairness is stated for the
steps of each part.

Modelling decisions a reader should know:

- *A request is one step.* The helper has one thread and nothing shares its
  tables; what can come between two requests (other programs, writeback, a
  reset, a kill, a power cut) is an action. On Windows the writable pass is a
  second thread, and `HostfsdStartup` splits its read and its clear.
- *Names are numbers.* The order of the numbers is `strcmp` order and `Fold`
  says which differ only in case. `GuestNames` are those `component_ok()` accepts.
- *Host semantics are POSIX* in `Hostfsd`, the helper is not root and the folder
  has no symbolic links there; links are what `HostfsPath` is about. Paths have at most two components. The empty path appears for
  `OPENDIR` only; a guest does not delete or rename the root.
- *Contents are one value.* Partial writes, positions and lengths are left out.
  `O_TRUNC` is not a write for the helper (the dirty flag stays clear), so an
  empty file is outside `CommittedWhenClosed`. Whether directory entries survive
  a power loss is left out: the helper never syncs a directory.
- *The environment keeps some rules.* A guest says HELLO before anything else
  (the driver does), other programs do not create names that differ only in
  case (the shipping rule in the comment of `match_fold()`), pids are not used
  again, at most one client is connected (QEMU's one chardev).
- *A process that is terminated is gone.* `TerminateProcess()` of a helper is one
  step with its end, and `DeleteFileA()` of a ready file does not fail. A process
  that `stop_edition()` may not open is not its concern, as in the code.
- *The tree of `HostfsPath` stands still during a request,* and a behaviour is about
  one request, from any tree. `resolve_path()` looks and the system call acts a
  moment later; the code makes no claim about a link that is moved between the two.
- *Settings are keys and values.* Read-only flags, the display mode, the MAC and
  static addresses are left out of `WinSettings`: they are loaded and saved like
  the others and nothing is checked against them. SHINOGI.INI is the pieces
  `fgets()` hands out, since the length of a line is what may go wrong.
- *`DriveC` has one `setres` at a time,* and nobody edits SHINOGI.INI while it
  writes. `SHINOGI_RES` and `SHINOGI_HOSTFS`, which go round the folder, are left out.
- *A look at drive C may fail.* `dir_is_empty_or_absent()` answers yes to every
  failure of `opendir()` (`shinogi-launcher.c:136-137`), and to a `readdir()` that
  fails at once. `Unread` is that step: the launch goes on to `mkdir()` and `cp`,
  which may well succeed in a folder that cannot be listed. `relaid` remembers the
  edited files of the tree that are there then, until they are edited again or
  deleted, and `UsersFilesKept` leaves them out, and nothing else of what is in the
  folder (section 6).
- *A ready file that cannot be written* is a helper that listens and that the
  launcher gives up on (`HelperRuns`). `listener_open()` and `signal_ready()` are
  one step of `NativeLaunch`: in between only a probe could connect, and would be
  accepted after both.
- *The folder `HostfsPath` serves is not the root of the host.* The text of `/` ends
  in the separator, so `under_root()` refuses everything in it on POSIX
  (`shinogi-hostfsd.c:555`); `TreesAssumption` excludes it.
- *An OPEN of a directory* is refused in one step with the `open()`, `fstat()` and
  `close()` it takes, so `HandleTable` does not see its descriptor.
- *A crash of `GuestNet` is a kill.* `write_atomic()` does not flush the temporary
  file before it renames it (`network.c:267-280`): what a power cut leaves of it is
  not modelled, and `NetAtomic` is not claimed for it.
- *A helper of `WinLauncher` that listens does not die by itself.* It may fail until
  then (`HelperFails`), and it goes after its session, by its launcher or by the
  installer. If somebody ends it before, its drive is gone until the next launch;
  `EveryDriveServed` is not about that.
- *A device is its identity in `TapInstall`;* the adapter's GUID and name, and the
  signatures, are left out. *In `LanBridge`* a product stands for its TAP adapter,
  DNS goes with the addresses, `netsh bridge destroy` does what its exit code says,
  and the user does not destroy a bridge in the moment in which a script looks
  for its own.
- *Time is abstract.* A timed wait ends by its event or gives up at any moment.

## 3. What the runs check

| Run | Configuration | Question | Distinct states |
|---|---|---|---|
| `files` | `MCHostfsd`, `Hostfsd_files.cfg` | opens, writes, closes, greetings, resets, kills, failing flushes and power losses over two slots: `HandleTable`, `HandleFidelity`, `CommittedWhenClosed` | 691,126 |
| `names` | `MCHostfsd`, `Hostfsd_names.cfg` | every name operation under both spellings of a name, in the root and one directory: `FoldUnique`, and the refinement `ServiceSpec` | 127,712 |
| `readonly` | `MCHostfsd`, `Hostfsd_readonly.cfg` | all operations against a `--read-only` helper: `FolderUntouched`, `ScanInOrder` | 10,507 |
| `scan` | `MCHostfsdScan`, `Hostfsd_scan.cfg` | a paged listing while files come and go: `ScanComplete`, `ScanEnds` (liveness) | 206,145 |
| `renamed` | `MCHostfsdScan`, `Hostfsd_renamed.cfg` | a finding, see 6 | |
| `startup` | `MCStartup`, `Startup.cfg` | a launch, its helper, QEMU and a probe: `QemuComesSecond`, `FailedLaunchLeavesNothing`, `InStep`, `OnceIsSpentOnASession`, `SessionEnds`, `SpentHelperEnds`. The writable pass on both platforms, from any attributes: `WritableForTheGuest`, `WritableInTheEnd`. Paths and the writable pass over a folder with links: `Contained`, `Reaches` | 168,002 |
| `unused` | `MCNativeLaunch`, `NativeLaunch_unused.cfg` | a finding | |
| `shell` | `MCLinux`, `Linux.cfg` | commands of one terminal, windows and processes that go at any time, a host restart before: `GuestRecorded`, `HelperRecorded`, `NothingLeft`, `GuestComesSecond`. Two launches over one drive C, which they may fail to read, the user and `setres`: `UsersFilesKept`, `ChosenSizeTakesEffect` | 4,035,354 |
| `watched` | `MCShinogiSh`, `ShinogiSh_watched.cfg` | a finding | |
| `setres` | `MCSetRes`, `DriveC_setres.cfg` | a finding | |
| `guestnet` | `MCGuestNet`, `GuestNet.cfg` | what the Windows edition sets up. Network files with failing writes, kills and edits in between: `UserTextKept`, `BootAsSelected`, `NetAtomic`, `OthersUntouched`. The driver: `EveryDeviceOwned`. The bridge: `BridgesOwned`, `EthernetKept`. Settings of two processes: `NoObjectTwice`, `IniKept`. The types of all four: `SetupTypeOK` | 1,414,498 |
| `windows` | `MCWinLauncher`, `WinLauncher.cfg` | two launches of one edition, helpers that fail or are slow, QEMU, kills and an installer: `EveryDriveServed`, `EndsClean`, `StopIsComplete`, `LeftoverNotBelieved`, `LaunchSettles` (liveness) | 360,526 |

Why the bounds are enough:

- *Two file slots, three inodes.* A slot can be confused with another, the table
  can be full, an inode can be deleted under an open handle and its number used
  for a new file. A third slot adds permutations. What the runs check of the
  table is in any case proved for every size (section 5). `names` has one slot,
  so `ServiceSpec` is checked there with a table that is full as soon as it is
  used; `TableImplementsService` is its proof for every size.
- *Three names, two equal when folded.* A case conflict needs two spellings; the
  third name is the directory. Paths of depth two cover a fold in the parent, in
  the leaf and in both. `NamesUnique` is proved for any set of names.
- *A page of 16 bytes or two entries,* entries of 7 to 9 bytes in `scan`: a batch is
  cut by each limit, and by neither.
- *Headers of 2 bytes, frames of up to 3, two frames, two connections.* A frame
  can arrive whole or byte by byte, be cut in its header or its body, declare a
  length below and above the range, and precede another. One of the connections
  may be the probe.
- *Five processes.* A session that went with the host leaves two numbers taken,
  then one whole new session and a further helper fit; from an empty host two
  sessions and a helper. Each property's mutant is found with three.
- *Two polls* of the 200: the helper can be ready at the first look, a later one
  or never.
- *Four items* for the writable pass, one of which cannot be changed.
- *Two texts of each sort and two LANs* for the guest's network: a backup can be
  of another text than the present one, one text mentions the hook without
  having it, and a LAN can follow another LAN or the Internet-only setup.

- *A tree of four directories, three files and two links* in `startup`, with every
  place and target of the links that differs in kind: into the folder, out of it,
  to each other, to nothing, to a neighbour whose name begins like the folder's.
  Names of at most three characters, paths of at most five (`MaxName`, `MaxPath`),
  requests on both sides of each limit; depth 3 (`MaxDepth`) lets the pass run
  into a link that goes round.
- *Two launches and two shipped files* for drive C: a copy can be cut before, at and
  after either, and be overtaken by a launch. `setres` keeps two lines (`Keep`)
  in `shell`, so every text is near the limit, and the 64 of the code in `setres`.
- *Three devices, two products, one restart* (`MaxBoots`) for the driver: each
  product can have one and an identity can be lost. The restart may fall between
  any two steps.
- *Two products, two Ethernet adapters, two bridges* for the LAN: one of the script's
  and one of the user's or the other product's, in both orders.
- *Two processes and four acts of the users* (`MaxActs`) for settings: a dialog that
  saves, a launch that reads in the middle of it, and an object that is moved. The
  two processes are symmetric: no definition tells them apart, and no liveness
  property is checked in that run.
- *Two launches,* the first with a drive beside C: a drive can fail after another
  is up, and a second launch can meet the first or what it left at any point. The
  installer looks while at most one launch has begun (`MaxAtStop`); it treats
  processes one by one, and a launch can begin after it looked.

`CHECK_DEADLOCK FALSE` appears where the system may stop: after a launch has
ended (both of `windows`), when a shell model has used its pids, and when the
startup or a request of `HostfsPath` is over and nothing is left to do. In `guestnet`
the end of a part (the bound of the acts) is a step that changes nothing, so that the
other parts are still checked for deadlock.

## 4. Fairness

- `scan`: `GuestReads`. A guest that lists a directory keeps asking (its
  `Fsnext` loop), and one that booted says HELLO. Nothing is assumed of other
  programs or of the disk.
- `startup`: weak fairness of the launcher and of the helper, two ordinary
  processes that wait for nothing but each other. None of QEMU: it may run for
  ever, so the liveness properties start from its end.
- `startup`, too: weak fairness of `main()` and of the pass. If the thread of Windows
  cannot be started nothing is promised, as in the code.
- `windows`: weak fairness of each launcher, which waits for a helper no longer
  than `READY_TIMEOUT_MS` and for the user only at a message box, which is
  answered. None of helpers, QEMU or the installer.
- `readonly`, `shell` and `guestnet` check safety only.

## 5. What is proved

Every safety property of a passing run is a theorem about its specification, for
all values of the constants that satisfy the named assumptions (and, where the
table says so, one more hypothesis). What is left to TLC alone is liveness.

| Module | Theorem | Says |
|---|---|---|
| `HostfsdProofs` | `TypeCorrect` | `Spec => []TypeOK` |
| `HostfsdHandles` | `TableCorrect`, `HandlesFaithful` | `Spec => []HandleTable`, `Spec => []HandleFidelity` |
| | `TableImplementsService` | `Spec => ServiceSpec`: `Hostfsd` implements `HandleService` |
| | `WritesCommitted` | `Spec => []CommittedWhenClosed` |
| `HostfsdFolder` | `NamesUnique`, `ReadOnlyUntouched` | `Spec => []FoldUnique`, `Spec => FolderUntouched` |
| | `NamesComeInOrder` | `Spec => []ScanInOrder` |
| | `NothingIsLeftOut` | `ScanSpec => []ScanComplete`, for pages of any length a name fits in |
| `StartupProofs` | `QemuIsSecond`, `FailedLaunchIsClean`, `OnceNeedsASession` | `LaunchSpec` implies `[]QemuComesSecond`, `[]FailedLaunchLeavesNothing`, `OnceIsSpentOnASession`, for any number of polls, frames and connections |
| | `StreamStaysInStep` | `LaunchSpec => []InStep`, for frames of any lengths |
| | `GuestFindsItWritable` | `StartupSpec => []WritableForTheGuest`, for any items |
| | `NothingLeavesTheFolder` | `BorderSpec => []Contained`, for any trees, links and requests |
| | `InsideIsReached` | `BorderSpec => [](Shallow => Reaches)`: the same in the other direction |
| | `JoinedIsAcceptable`, `FoldKeepsAcceptable` | whatever `resolve_path()` joins is acceptable; so is a name that differs in case only from one that is |
| `GuestNetProofs` | `UsersTextKept`, `BootsAsSelected`, `NetIsAtomic`, `OthersAreUntouched` | `Spec` implies `[]UserTextKept`, `BootAsSelected`, `NetAtomic`, `OthersUntouched`, for any texts and LANs |
| | `TapTypeCorrect`, `DevicesAreOwned` | `TapSpec => []TapTypeOK`, `TapSpec => []EveryDeviceOwned`, for any devices, products and restarts |
| | `NobodysBridgeIsTouched`, `EthernetIsGivenBack` | `LanSpec => []BridgesOwned`, `LanSpec => []EthernetKept`, for any products, adapters and bridges |
| | `NoObjectIsTwice`, `IniIsKept` | `SettingsSpec => []NoObjectTwice`, `SettingsSpec => IniKept`, for any slots, processes and texts of SHINOGI.INI |
| | `InstanceTypesHold` | `MCSpec => []SetupTypeOK`: a behaviour of the composed instance is one of each of its four parts |
| `LinuxProofs` | `StopFindsTheGuest`, `HelperIsKnown`, `NothingStays`, `StaleReadyIsNotBelieved` | `OneTerminal` and `Spec` imply `[]GuestRecorded`, `[]HelperRecorded`, `[]NothingLeft`, `[]GuestComesSecond`, for any number of processes and commands |
| | `FilesAreTheUsers`, `StoredSizeIsUsed` | `DriveSpec => []UsersFilesKept`, `DriveSpec => ChosenSizeTakesEffect`, for any launches, files, texts and `Keep` |
| `WinLauncherProofs` | `NoHelperLeft`, `SuccessIsComplete`, `NoLeftoverBelieved`, `EveryDriveIsServed` | `Spec` implies `[]EndsClean`, `[]StopIsComplete`, `LeftoverNotBelieved`, `[]EveryDriveServed`, for any launches, drives and folders |

The types of the other specifications are proved on the way (`LanTypesHold`,
`SettingsTypesHold`, `ShellTypesHold`, `LaunchTyped`, `StartupTyped`,
`DriveTyped` in `DriveInv`).

### Assumptions and hypotheses

The assumptions on constants are the types of the constants and:

- `HostFolder`, `Hostfsd`: paths have one or two components, folding keeps an
  acceptable name acceptable (which `FoldKeepsAcceptable` shows of `component_ok()`),
  and, for `FoldUnique`, the folder was shipped without case conflicts.
- `PageAssumption` (`Hostfsd`): an entry with its name fits in a page. Without it a
  batch could be empty and a listing end early; `shinogi-hostfs-proto.h:63-67`
  sizes the frame so that a name can never be what overflows it.
- `TreesAssumption` (`HostfsPath`): a host's tree is a tree, two entries of a
  directory have different names, only the root has none, a name contains no
  separator, and what is a link is no directory and no file.
- `CharsAssumption`: what `component_ok()` refuses has no case.

Two theorems carry a hypothesis that restricts the behaviour itself. Both are
satisfied by the instance TLC checks.

- `OneTerminal`: one shell, where guests are either started or run, and no QEMU goes
  between `start`'s two looks. None of the three can be dropped (without any one of
  them TLC finds `HelperRecorded` violated): `shinogi.sh` has
  no lock, `run` after `start` overwrites `hostfs.pid`, and a guest that goes
  between the looks is missed. They are hazards no property covers (7).
- `Shallow`: no directory in the folder is deeper than `MaxDepth`. `make_writable()`
  gives up there, and then `Reaches` is false. It concerns the pass; the half of
  `Reaches` about `resolve_path()` (`PathInv`) is proved without it.

### How the arguments go

*The handle table.* `TypeOK` is inductive, one lemma per operation; `ResolveReached`
says what a resolved path can be. `HandleFidelity` is not inductive alone: that a
handle still reaches its file after another one's CLOSE needs that no two slots
share a descriptor, which `HandleTable` says. Their conjunction `HandlesOK` is. The
induction does not look at twenty operations: `NextTableStep` shows that a step
takes a slot (`Taken`), drops one (`Dropped`), dirties one (`Dirtied`), empties both
tables (`Emptied`; `Restarted` when the process goes too), has the guest forget
(`Forgotten`), or leaves the tables (`Kept`). The invariant, the dirty files and the
refinement are proved per kind of step. The refinement maps `Taken` to `Grant`,
`Dropped` to `Release`, `Emptied` and `Restarted` to `Greet` or `End`, `Forgotten`
to `Lose`, the rest to stuttering: a slot handed out while in use would be a step
no action of `HandleService` allows. `CommittedWhenClosed` is inductive over
`HandlesOK`: a file ahead of its disk is open and dirty in some slot.

*Names.* `FoldUnique` follows from what each operation can add to a directory
(`Adds`): one name, that is there already or has no equal under folding, because
`resolve_path()` looked first (`ReachedUnique`).

*Enumerations.* `ListInv` says that a snapshot is strictly increasing and that what
was handed out is, up to the name the cookie stands on; a page is an increasing
run after the cookie, so its names come after all that were given. For
`ScanComplete`, `OwedInv` says that an entry which could be found all along is in
the snapshot (`OwedFound`), and has been given if its place is at or before the
cookie, or the listing is over (`OwedGiven`). The step that matters is a page that
ends at its limit: the entries it was cut before must not be lost, which needs
that the page's length, a sum over the entries, only grows (`SumMonotone`), and
that one entry always fits.

*The launch and the stream.* `LaunchOrder` ties the launcher, the helper and the
ready file: the helper listens once the ready file of this launch exists. `LinkInv`
is about the bytes: what is buffered and in the wire is, from the frame that is
being read on, what the guest sent (`Aligned`, `Taken`), in the phase of reading
the helper is in (`Phase`); a session that met an impossible length reads no more.
`InStep` is one part of it.

*The writable pass at start-up.* `PosixPass`: before the guest is served, what is
still read-only was not come to, is in the pass's hand, or cannot be changed.

*The border.* `under_root()` compares the texts of two paths. `TextParts` and
`SameText` say what a text is made of, and that two objects with one text are one,
because a name has no separator; so what `under_root()` accepts is in the tree
below the folder and the other way round (`UnderRootIsInside`,
`InsideIsUnderRoot`). `BorderInv` says that `at` is what the last component names in
`above`, so checking those two is checking the answer. For the other direction,
`PassInv` says that of the directories descended into at their own level every file
was changed and every directory was too or is still ahead; a directory may also be
visited through a link, at another depth, which is why levels appear. `PathInv` says
that what is joined so far is the name of the only object the request names so far:
`NamedIs`, `NamesOne` and `NamedThrough` are about that recursive definition, and
`JoinNamed` about one component.

*Case.* `JoinedIsAcceptable` is what the comment at `shinogi-hostfsd.c:715` takes for
granted: a name of the disk may replace the component that was checked and is not
checked again. `SameMark` and `SameDevice` say that folding changes no mark and no
device name.

*The guest's network.* `StillSo`: MINT.CNF is as it was read, SHNNET.SH as it was
read until it is written and as selected afterwards, and the backup was made before
either. With `TypeOK` and `UserTextKept` it is inductive; the action properties hold
of every step from such a state.

*The driver and the bridge.* `EveryDeviceOwned` needs to know what the script will
read (`Line`): while a program runs there is no record, and its identity is in its
line from the moment it is printed. `LanInv` says the same of the bridge:
what is on record or in a script's hand is of its own making (`Made`), how far each
script has come is told by its record and its hand (`HasMade`), and no bridge of a
script's is unknown to it (`Owned`), together with `EthernetKept`.

*Settings.* `DrivesInOrder` carries what `drives_valid()` found from the check through
the save to the launch, with the scene it was found in. `IniKept` is about three
recursive functions over a text of any length: the writer's, the reader's, and the
pieces that are no res line. The proof shows that both skip the same pieces, and
that the written text begins its first res line with the chosen size
(`SizeIsWritten`).

*The shell.* `ShellInv` is one predicate per terminal (`Safe`): the pid files name what
they are for, a running helper is recorded, about to be, or abandoned, and the
ready file is of a helper that listened.

*Drive C.* `DriveInv`: a file the user has is not among those a running copy will still
write, because a launch copies only into a folder in which nothing is, or which
it could not read; in the second case the step that decides so (`Unread`) moves the
edited files of the tree to `relaid`, and those are all that is given up. And the
file says the size that was stored last.

*The Windows launcher.* `Tracked` says where every running helper is known: waited for,
in `helpers[]` ahead of the last loop, or its launcher was killed. `Fresh` says that
who waits for a ready file that is there was waiting when it was written; `Past` and
`Ending` are about what `stop_edition()` found. For `EveryDriveServed`, `Served` adds
that launches which met no other are apart from each other (`Apart`), that a ready
file and a port are of the launch's own helper (`OwnFiles`, `OwnPorts`), that the
loop leaves no drive out (`LoopDone`), and that until QEMU joins, a drive's helper
listens and has no other client (`KeptFree`).

*Recursion.* Proofs about recursive functions rest on the module `Recursion`. A set of
numbers has a least element (`LeastNat`, from the well-founded order on the naturals); so
a recursive function on `0..n`, on the nodes of a forest, or a sum over the subsets of
`1..n` exists and obeys its equation (`NatRecursion`, `TreeRecursion`, `SumExists`),
and a claim about every argument is proved by a least counterexample. The library's
induction theorems, which take an operator as a parameter, are not used.

### What stays model-checked

Liveness (`ScanEnds`, `SessionEnds`, `SpentHelperEnds`, `WritableInTheEnd`,
`LaunchSettles`): TLAPS has no proofs of fairness. The four findings are
counterexamples of TLC's.

## 6. Findings

Four runs show a statement of the sources that the code does not keep.

- `renamed`: the protocol header says an enumeration sees the directory as it
  was at OPENDIR and skips only deleted entries. READDIR checks each entry under
  the *path* resolved at OPENDIR, so once that directory is renamed the
  enumeration ends at the next call, silently and with every entry in place.
- `unused`: the native launcher relies on the helper to end when the emulator
  disconnects. `--once` counts only sessions that carried a header, so a QEMU
  that exits before the guest's driver has spoken leaves the helper accepting
  for ever, and no process is left that knows of it.
- `watched`: `reap_if_gone()` explains that a foreground `run` cannot lose its
  helper because it writes no `qemu.pid`. A stale `qemu.pid` of an earlier
  background guest makes `status` in a second terminal do just that.

- `setres`: "a future setting written by something else must survive being edited
  here" (`setres.c:76-79`). `store()` keeps 64 lines, and the header each save
  writes is a line the next one keeps; after enough saves the settings at the end
  of the file are gone.

Met while modelling and seen in TLC with other constants, not kept as runs
(listed among the hazards):

- `run` neither reaps nor looks at the pid files. After `start` and the end of
  its guest, `run` overwrites `hostfs.pid` and orphans the first helper. The
  instance of `shell` has terminals that use one of the two, not both.
- `start` looks at the guest twice, in `reap_if_gone()` and again. A guest that
  goes between the two is neither reaped nor refused (`MayGoUnseen = TRUE`).
- On Windows the guest is served while the writable pass still runs, although
  the comment of the pass says it comes first; `WritableForTheGuest` is
  therefore stated for POSIX.
- A kill in the middle of `CopyFileA()` can leave part of a SHNNET.BAK. It does
  not match MINT.CNF, so every later LAN launch refuses until the user removes
  it. Nothing is lost (`UserTextKept`), the user has to act.
- Two launches of one edition on Windows share their ready files. Each may take
  the port of the other's helper, or delete the file the other waits for; nothing
  refuses a second launch. `EveryDriveServed` is stated for launches that met no
  other. A launcher killed while its helper starts is such a meeting too: the
  helper writes its ready file after the next launch has cleared its own.
- A launcher killed after a helper listens and before QEMU connects leaves it
  for ever, on Windows as on Linux: `--once` ends a helper after a session only.
- A removal of the LAN bridge whose `Restore-Ethernet` fails has destroyed the
  bridge and keeps the record. The next removal finds no bridge, skips the
  restoring, deletes the record and reports success (`lan-setup.ps1:174-184`),
  although the package's README.txt says that Remove LAN restores Ethernet.
  `EthernetKept` leaves out adapters whose restoration was cut short (`torn`).
- A script killed between the values `BridgeGuid` and `BridgeVerified`
  (`lan-setup.ps1:241-242`) leaves a record without the second, and `Assert-Ready`
  takes a missing value for a verified bridge. `BridgesOwned` leaves out bridges
  whose script ended before the first (`stray`).
- If `install-tap.exe` ends between the 90 seconds and `Kill()`, the exception
  throws its last line away, and with it the identity of a device that may be
  there (`tap-adapter.ps1:168-172`). `EveryDeviceOwned` leaves out identities lost
  that way, or by a script that is stopped (`lost`).
- A launch that cannot read drive C lays the tree over it. The comment promises the
  opposite: "Only when there is nothing there: a drive C with files in it belongs to
  the user, and re-laying the tree over it would overwrite their edited configs"
  (`shinogi-launcher.c:231-233`), but `dir_is_empty_or_absent()` returns 1 whenever
  `opendir()` fails (lines 136-137), and `cp -a` replaces what is there. With
  `UsersFilesKept` over all of `kept`, TLC finds it in four steps: `Edits` of a file
  of the tree, `Looks` (`Unread`), `Lays`, `Copies`. CUSTOM.IMG, SHINOGI.INI and
  whatever is edited once the copy has passed stay, which is what `UsersFilesKept`
  and `FilesAreTheUsers` do say.
- A copy of drive C that was cut short is never completed: the folder is not empty
  any more and counts as the user's. `UsersFilesKept` says no more than that later
  launches leave it alone.
- `stop_edition()` reports on the processes of its snapshot. What a launcher
  starts after it is not looked at.

## 7. Not modelled, and what is left

Left out for good: the platform layer of the helper (sockets, `statvfs`),
window controls, monitor and screenshot clients, `tap-setup.ps1` (which only calls
`Install-AtariTap`), NSIS scripts, packaging and test programs, the guest's DHCP
script; and EmuTOS, QEMU and FreeMiNT, whose sources are not in this repository.
DFREE's numbers, `fstat()` that fails and the text of labels are abstracted inside
modelled parts.

Partly modelled, and what is missing: `shinogi.sh` (the monitor commands, the copy
of drive C, `reset-drive-c`), the native launcher (display and arguments), the
Windows launcher (its command line, calls of `DeleteFileA()` that fail), Windows
settings (flags and addresses, the drives dialog), Windows network (the text of
the guest's script, the list of adapters), `lan-setup.ps1` (DNS, the log).

Hazards no property covers, each with its reason in `PROJECT.json`: two editions
that prepare one drive C at once (`GuestNet` has one launcher); `run` after `start`;
the gap between two looks of `start`; two launches of one edition; the guest and
Settings writing SHINOGI.INI at once.

Next: `GuestNet` with two editions; the copy of drive C in `shinogi.sh` over `DriveC`;
the pieces of the launchers above that have state.
