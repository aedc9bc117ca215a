# Verification of Archangel OS

Archangel OS is a single-user cockpit for a VPS: a Go daemon (`archangeld`,
`app/backend`) that listens only inside a WireGuard tunnel, a Flutter app
(`app/frontend`) that talks to it, and shell scripts (`infra`) that install it.
This directory holds TLA+ models of the parts of it that keep state, TLC
configurations that check them on small instances, and TLAPS proofs.

## 1. Inventory

| Component | State it keeps | Operations | Talks to | What makes it correct |
|---|---|---|---|---|
| Pairing (`cmd/archangeld`, `internal/tokenstore`, `internal/wgpeer`) | `tokens.json`, `tokens.json.tmp`, `wg0.conf`, the live interface, the daemon's startup copy | `pair`, `unpair`, `devices`, the reload on every request | devices API, WireGuard | names, tokens and addresses unique; a printed bundle works; a revoked one never does |
| Devices API (`internal/devices`) | none of its own | list, pair, unpair through `sudo systemd-run` | pairing, admin mode | an answer is true, and no device cuts itself off unasked |
| Admin mode (`internal/adminmode`) | the sudoers file | read, switch off; SSH switches on | devices, reboot, services | the app can give power up but not take it |
| Terminal (`internal/terminal`) | session counter, live connections, tmux server | connect, read, write, resize, ping, idle timeout, shutdown | WebSocket client, PTY | never more than three sessions, every slot given back |
| Docker (`internal/docker`) | stats cache, log sockets | list, create, act, stats, logs | Docker Engine | figures are recent and of a running container; one request makes one container; no port open to the world unasked |
| DevOps (`internal/devops`) | script directories; systemd's units and timers | services, deploy scripts, scheduled scripts | systemd, admin mode | what was saved is what runs, what was deleted is gone, and the server stays reachable |
| System (`internal/system`) | counters of the last pass, history rings, samples of processes, stats sockets | sample, stream, list processes, kill, reboot | /proc | figures that are true of the interval they claim |
| Files (`internal/files`) | `files_root` | list, preview, download | file system | what is served is what was asked for, and lies within the root |
| App: servers (`server_registry`, `local_kv_store`, `wireguard_controller`) | stored servers, active one, tokens, tunnel | pair, switch, remove | secure storage, tunnel service | the tunnel, the token and the active server belong together |
| App: connection (`archangeld_connection`) | pairing, phase, version | reachability check, grace | daemon | an answer is used for the server it came from |
| App: updates (`vps_setup_service`, `update_check_service`) | binary and backup on the server | update, verify, roll back | SSH | the server always has a binary that starts |
| App: views (`monitoring_service`, `terminal_session`, `containers_service`, …) | subscriptions, sockets | connect, reconnect, show | daemon | what is shown belongs to the current server |

Interactions. The app reaches `archangeld` by HTTP and WebSocket through the
tunnel, every request with the token that `pair` stored in `tokens.json`
(`auth.Middleware`). Pairing itself is a one-shot command, run by the owner over
SSH or by the devices API as root through `sudo -n systemd-run`, which Admin mode
allows. The app changes the server's installation only over SSH
(`vps_setup_service`). Inside the app, activating a server moves the token and
host into `archangeld_connection` and the tunnel configuration into
`wireguard_controller`; every view then reads its address from the connection.

What is hard here:

- several commands edit `tokens.json`, `wg0.conf` and the interface without a lock, and may fail or be killed at any step, those of the devices API included;
- two goroutines share one WebSocket: its write mutex, its read deadline, its slot;
- the tmux server is checked under a mutex and used after it;
- privileged commands outlive the requests that started them;
- five writes of one file make a server active, each with an `await` around it;
- one poller, many requests and the Docker Engine change what a cache of figures is about;
- counters of the kernel go back, and cores, interfaces and processes come and go between two readings;
- process lists overlap and share one map of samples;
- a script has copies in several directories, which requests search one system call at a time;
- a path is resolved, checked and opened again by name;
- `archangeld` asks systemd to restart `archangeld`, or the tunnel that its unit requires;
- answers arrive after the app has been pointed at another server;
- an update may stop between any two of its commands.

## 2. Plan

| # | Modules | Status |
|---|---|---|
| 1 | `DeviceRegistry`, `Pairing`, `PairingProofs` | modelled, checked, proved |
| 2 | `Terminal`, `TmuxServer`, `TerminalProofs` | modelled, checked, safety proved |
| 3 | `ServerActivation`, `ActivationProofs` | modelled, checked, proved |
| 4 | `Connection` | modelled, checked, safety proved; the other requests of the connection to come |
| 5 | `BackendUpdate` | modelled, checked, proved |
| 6 | `DevicesApi`, `DevicesApiProofs` | modelled, checked, proved |
| 7 | `Docker`, `DockerProofs` | modelled, checked, safety proved |
| 8 | `Monitor`, `Processes`, `Scripts`, `Files`, `Services`, composed by `Host`; `HostProofs` | modelled, checked, proved |
| 9 | terminal sessions of the app, composed with `Connection`'s pairings | to come: generations, timers, exit and reconnect |
| 10 | monitoring and the other clients of the app | to come: answers in flight across a change of server |
| 11 | setup wizard and uninstall | to come |
| 12 | versions, host keys | to come, as functions over bounded inputs |

Parts 9 to 12 are in the app; everything in the backend that keeps state is
modelled.

Abstract specifications: `DeviceRegistry` states what pairing promises;
`Pairing` is checked and proved to implement it for commands that do not overlap
(`RegistryImplemented`). What it promises of itself (`Safe`: no name holds a
retired credential, no two names the same one) is proved once, in `RegistrySafe`,
and the refinement carries what follows from it to the files of `Pairing`
(`RevokedForGood`). `DevicesApi`, whose commands do overlap, takes from it the
state it keeps of the paired devices, not its atomic steps.

## 3. Modules

**`DeviceRegistry`**: every name has at most one credential, granted once, never
again after its revocation.

**`Pairing`** (`cmd/archangeld/main.go`, `tokenstore.go`, `wgpeer.go`). `store`
and `tmp` are `tokens.json` and its temporary file, `conf` the `[Peer]` blocks of
`wg0.conf`, `live` the peers of the interface, `boot` the daemon's startup copy.
Each slot of `Procs` runs one command; each step that touches a file or the
interface is an action, in the order of the code. `Abort` ends a command at any
step, `Reboot` restores the interface from the file and kills the commands,
`RestartDaemon` reloads, `ReadFault` makes `tokens.json` unreadable. A credential
stands for a key pair with its token. `Serial` allows one command at a time, the
situation the comments of `tokenstore` assume; without it commands overlap.

**`Terminal`** (`terminal.go`): one connection's handler (`pc`), its PTY-output
goroutine (`rd`), the shell (`child`), the write mutex (`mu`), the read deadline
and the client. `active` is the counter of `tryAcquireSession`, taken by
compare-and-swap; `registered` is what `CloseAll` closes. A frame is one of three
kinds; a client talks, falls silent, stops reading or goes.

**`TmuxServer`** (`tmux.go`): `ensureServer` under its mutex, then a tmux client
that attaches or creates. `server` says whether the tmux server runs under the
user manager or inside the service. The last session may end at any moment, also
between the two; `outrun` is history, the connections to which that has happened.

**`ServerActivation`** (`server_registry.dart`, `local_kv_store.dart`,
`wireguard_controller.dart`, `archangeld_connection.dart`): `cache` and `disk`
are the map of `LocalKvStore` and its file; an operation in `op` makes one write
per step and enters its undo phase when one fails. `saving` is where the two
writes of the registry's `_persist` are that a load or a rename makes
(`PersistList`, `PersistActive`); `OtherKey` is the write of a key of other
services, which puts the same file in place again. `Kill` comes at any moment, in
an operation or between two, and may leave the file torn by the write it met;
`Launch` restarts the app from what the file holds. That `Rename`
starts only while no other operation is under way is an assumption.

**`Connection`** (`archangeld_connection.dart`): pairing, the reachability check
with its shared future, grace of three failures, and the version. Answers arrive
in any order. Servers may share an address, and the code tells them apart by it
(`HostOf`).

**`BackendUpdate`** (`vps_setup_service.dart`, `backend_update_dialog.dart`):
one action per command of `updateBackend`, with its early ends; `bin`, `bak` and
`staged` are the three files, `seen` the version the app last got.

**`DevicesApi`** (`devices.go`, `adminmode.go`, `auth.go`, the reboot handler,
and the two SSH scripts that write the sudoers file): a request is checked, asks
sudo, and waits for a transient `unit` that runs on when the request times out or
the daemon restarts. The unit of a pairing or a revocation, like a command the
owner runs by hand (`Hands`), loads the store into its `copy`, and later saves that
copy with its own change, without a lock: what others saved in between is lost, and
`undone` records whose credentials that brought back or dropped. A save is one step
here; that it truncates, writes and renames, and what it does to `wg0.conf` and the
interface, is in `Pairing`. A request records the credential and the name it came
with, and the credential it found under the name it wants to revoke. `Enabled`, the
probe of sudo, may also fail for being slow. A behaviour has one `setting`: which
requests and commands by hand there are, what they ask, and whether the scripts run.

**`Docker`** (`client.go`, `handlers.go`, `stats.go`, `ports.go`): every call to
the Engine is a step. `poll` is `refreshStats`, one pass after another: list,
prune, then a goroutine per container under a semaphore (`todo`, `asking`), whose
figures go to `cached` with their `age`. `listing` is `ContainersHandler` between
the Engine's list and the merge. A creation (`pc`, `spec`, `made`) goes through
create, at most one pull, one retry, and the start; an answer under way (`posted`)
may be lost. `log` is one log socket with its reading goroutine, which cancels the
context when the client hangs up. `state`, `owner`, `published` and `image` are the
Engine's. A behaviour has one kind of `traffic` beside the containers and the
Engine: lists, creations and logs share only those.

**`Host`** composes five modules that share only the process of `archangeld`:
when it fails or restarts itself (`DaemonEnds`), each loses what it had in memory,
requests included, and while it is down only the server goes on. `work` says which
part a behaviour exercises.

- **`Monitor`** (`collector.go`, `StatsWsHandler`): the kernel's counters, and
  those of the last pass, from which differences are taken modulo 2^64. Cores are
  matched by their place among the lines, as in the code. Any file may be
  unreadable in a pass; `cpuAssumed` and `netAssumed` say that what is shown are the
  constants of `FallbackCPU` and `FallbackNetwork`, of which the last also stand in
  when no interface is read. `ran`, `passed`, `moved` and `transferred` are history:
  what has really happened since the last reading.
  A stats socket (`sock`) has a queue of rate changes (`rateCh`).
- **`Processes`** (`processes.go`): lists that overlap, each reading one process
  after another; `seenUsed` and `seenAt` are `procCPUSamples`. Numbers are reused.
- **`Scripts`** (`deployments.go`): one script, its copy in each of
  `getDeployDirs`, and requests that list, get, save, delete and run it, one system
  call per step; `os.WriteFile` is an `Open` that truncates and a `Fill`.
- **`Files`** (`files/service.go`): `tree` says what each path is, or where its
  link leads; `Resolve` is `resolvePath`, `fstep` goes from it through stat to open.
  Whoever else uses the server changes `tree` between them.
- **`Services`** (`services.go`, `scheduled.go`, `adminmode.run`): requests up to
  `sudo systemd-run`, and the `job` systemd then has, which neither the request's
  ten seconds nor the end of `archangeld` stops. A restart is two steps of it.
  `archangel.service` requires `Tunnel` (`archangel.service:3-5`): stopping the
  tunnel, for a restart too, stops `archangeld` (`Halves`), starting `archangeld`
  starts the tunnel, and a tunnel that cannot be started leaves it down
  (`SystemdStarts`).

`MC*` modules hold the elements of the sets and the symmetries.

## 4. Runs

| Run | Instance | What it shows |
|---|---|---|
| `pairing_serial` | one command at a time, 2 names, 5 credentials, 3 addresses, an upgraded installation | the store always parses, addresses are distinct, bundles work and revoked devices stay out while the daemon can read the store, names stay unique, and the store implements `DeviceRegistry`, across failures, kills, reboots and an unreadable store |
| `pairing_revoke_race` | 2 commands at once | finding: a revoked token comes back when a `pair` that loaded earlier saves later |
| `terminal_slots` | 2 clients, 1 slot, stalls | counter exact and capped, no zombies |
| `terminal_live` | 1 client | a silent or gone client gives its slot back |
| `terminal_lost_wakeup` | 1 client | finding: a deadline refreshed after it was forced keeps a session whose shell has exited |
| `tmux_server` | 3 connections, 2 sessions | the server comes to run inside the service only through a client whose server ended after `ensureServer` had found it; every connection that waits for `ensureServer` gets a shell or ends |
| `activation` | 2 servers, one operation at a time; `Settings`: failing writes of an activation and its undo code, or kills with writes of every kind failing | without kills and failing writes of the registry, registry, live pairing and tunnel agree; in both, a pairing or switch whose activation fails is undone, if what undoes it does not fail too; after kills too, inside a write or between operations, an app with servers has an active one |
| `connection` | 3 servers at 2 addresses, 2 checks in flight | "reachable" is an answer from the address the app is paired with; a server that stays up is shown so |
| `update` | 4 updates, builds that start or do not | a whole binary in place, one that starts kept, success true |
| `devices_api` | 2 names, 3 credentials; `Settings`: 2 overlapping pairings or revocations, or 1 request of any kind beside a command by hand and the scripts | answers are true unless the save of an overlapping command undid them, and no request cuts its own device off unasked, by whatever copy it changes |
| `docker` | 2 containers, one with a TTY, 2 creations, an Engine that comes and goes | the cache follows the Engine, figures are recent, a request makes one container and says so truly; an entry of a container that is gone goes, and a log handler ends with its client |
| `host` | 2 cores, 2 links, 2 processes and 2 lists, 2 script directories and 2 requests, 3 paths, 2 requests about 3 units: the tunnel, `archangeld` and another | a core's share is its own, the amounts behind rates are real and constants marked, a socket's interval follows the changes that were queued; a script saved alone comes after none but foreign copies, a script deleted with no save beside it is gone; what is served is what was asked for unless files change under it; no request leaves a lifeline stopped |

The inductive invariants and the type invariants that section 5 lists as proved
were checked by TLC on these instances before they were proved; the runs no longer
repeat them, nor the other theorems section 5 shows in italics. A run keeps what a
change of the code would break first.

Bounds. Two actors are enough for every race the code has: no step looks at more
than one other command, request or connection, and a third only repeats a role.
Credentials are never used twice, so their number bounds how many pairings a
behaviour has: five leave room for a device from before keys were recorded, a
leftover peer, a pairing, its revocation and another pairing (with overlapping
commands, two already collide). Three addresses make `NextFreeIP` run out.
`MaxSessions` is 3 in the code: one slot for two clients is the first instance
in which it binds. `MaxAttempts = 4` updates let an interrupted one be followed
by a failing and a successful one; `MaxPolls` is the code's 10. `Grace` is the
code's. In `docker`, `MaxAge = 0` lets a tick make every figure stale, and one
slot of the semaphore for two containers makes the second wait. In `host`,
counters reach 2 between passes and 4 in all, two cores are the fewest that can
change places, three passes overflow rings of two, a queue of two holds fewer
rate changes than a client can send, two process numbers of which one is reused
and three times let a newer sample be replaced by an older one and by one of
another process, and two directories are the fewest in which copies shadow each
other; the tunnel and `archangeld` are the lifelines of which one requires the
other. In `devices_api`, what two requests do to each other and what the owner's
commands and scripts do to one are separate settings: a third actor would only
repeat the role of the second. `Width = 16` stands for 2^64: the assumption is
that no counter reaches half of it.

Fairness. `Terminal!FairSpec`: each goroutine's next step is taken (the Go
scheduler), a write returns unless the client has stopped reading, and the idle
deadline passes. Nothing is assumed of clients and shells. `TmuxServer!TmuxFairSpec`:
every tmux command returns (`ensureServer` has a timeout of 15 s) and a Go mutex
does not starve a waiter. `Connection!FairSpec`: the timer of the app asks again,
every request ends within its timeout; servers may come and go. `Docker!FairSpec`:
the poller's goroutine goes on, its calls end within four seconds, a list succeeds
if the Engine answers again and again (strong fairness), and a log handler's calls
return once their context is cancelled; nothing is assumed of containers and
clients. `Host` states no liveness: its requests end because every call they make
is bounded or local.

## 5. What is proved

The TLAPS proofs hold for every value of the constants that meets the `ASSUME` of
the module, and for no other bound. Each follows one scheme: an inductive
invariant, also checked by TLC, holds initially, is kept by every action (one
step per action), and implies the property.

| Module | Invariant | Why the property alone is not inductive | Theorems (in italics: of no run) |
|---|---|---|---|
| `PairingProofs` | `SerialInv`, under `Serial` | each step needs to know what the command's earlier steps left in the files: `PairProgress`, `UnpairProgress`, `SaveProgress`, and what `fate` says of them | `TypeCorrect`, `StoreParses`, `AddressesDistinct`, *`TokensHavePeers`*, `UnpairedPeersGone`, `RevokedStaysOut`, `BundlesWork`, `RegistryImplemented`, *`RevokedForGood`*; with a readable store also *`DaemonStaysUp`* |
| `PairingProofs` | `SnapshotsInv`, commands overlapping | a save writes a snapshot: each command's copy has to be sound, not only the store | `DevicesUnique` |
| `TerminalProofs` | `HandlerInv` | the count is a cardinality of the handlers past the compare-and-swap; `PairInv` ties the two goroutines through the mutex | `CapHolds`, `ShellsReaped`, *`WritersExclude`*, *`TypeCorrect`*, *`WaitsHaveEnds`* (with `WaitInv`) |
| `TerminalProofs`, of `TmuxServer` | `SandboxInv` | a client about to attach finds the server, unless it has been outrun | `ShellsOutsideSandbox`, *`ClientsKeepSessions`* |
| `ActivationProofs` | `RegistryInv`, `UndoInv` | undo code relies on what the operation recorded when it began (`PreviousKnown`) and on how far it had come (`UndoOf`) | `TypeCorrect`, `ServersHaveActive`, `FailedActivationsUndone`, *`RegistryInvariant`*, *`UndoInvariant`* |
| `ActivationProofs` | `LiveInv` | between two writes, connection and tunnel lag behind the registry by what is still to do (`LiveOf`) | `LiveServerActive`, `TunnelOfActive`, *`LiveInvariant`* |
| `ActivationProofs` | `ClearInv`, `KeptInv` | the file lags behind the map while a write is under way, and the map behind the app until the operation's last write (`KeptOf`) | *`ClearingLeavesNothing`*, *`KeptInvariant`*, *`RelaunchesRestore`* |
| `Connection` | `CheckInv` | the latest check of this pairing is the one in flight | `ShownServerAnswered`, *`ChecksShared`* |
| `BackendUpdate` | `UpdateInv` | what each step knows of the binary, its copy and the running build | `DamagedNeverInstalled`, `EveryUpdateKeepsStartable`, `SuccessTrue`; *`RollbackTrue`*, *`CompleteUpdatesKeepStartable`* |
| `DevicesApiProofs` | `ApiInv` | a command may save a copy as old as itself: a credential has one name in the store and in every copy of it (`CopiesInv`, `Belongs`), so what a request found, and the caller it compared with, are under their names or nowhere | `AnswersTrue`, `OwnDeviceKept` |
| `DockerProofs` | `DockerInv` | what is still to be sampled, or being sampled, was running when the pass listed it; a container is its request's from the creation to the answer | `CacheIsOfLastPass`, `FiguresAreRecent`, `CreatesOnce`, `SuccessIsStarted`; *`DockerTypeCorrect`*, *`SamplesAreBounded`*, *`PublishesAsAsked`*, *`GarblesOnlyIfGuessed`* |
| `HostProofs` | one per part: `CpuInv`, `NetInv`, `DiskInv`, `HistoryInv`, `SockRest`, `ProcessInv`, `PlacedInv`, `SavesInv`, `FileInv`, `ServiceInv` | a lemma says which steps of a part a step of the host may be, so each part is shown by its own steps: the counters since the last reading add up (`Since`), a process has no more ticks between two readings of it than there was time, whichever came first (`Steady`), a save that is under way has passed only copies it may not write | `UsagesAreShares`, `AmountsReal`, `RatesFollow`, `SharesFit`, `ScriptsRunAsSaved`, `DeletedScriptsAreGone`, `ServesTheAskedFile`, `LifelinesStay`; *`HostTypeCorrect`*, *`HistoriesAreRecent`*, *`SamplesArePruned`*, *`ListingAgrees`* |

The refinement. `RegistryImplemented` shows that under `Serial` every step of
`Pairing`, seen through the mapping from `tokens.json` to names and credentials,
is a stutter, exactly one `Grant` of a credential never granted before to a free
name, or exactly one `Revoke`. It needs `SerialInv`: a save that replaces the file
must differ from it by this command's own entry alone.

Hypotheses of `ActivationProofs`. `TypeCorrect`, `RegistryInvariant` and
`ServersHaveActive` have none: any number of operations may overlap, any write may
fail, the app may be killed at any step. The others assume `OneAtATime`, that the
user waits for one operation before starting the next (section 6 says what happens
otherwise), and what their settings say: `FailedActivationsUndone` that the phase
the undo code ends in, the reactivation of the previous server or the clearing where
there was none, has no failing write (it says nothing of an operation that ends at
the registry's own first write, before the code that undoes), `LiveServerActive` and
`TunnelOfActive` that faults are `Forgiving`, `ClearingLeavesNothing` that the
deletes of the clearing succeed (whatever failed before, kills included; it is the
promise of the comment of `removeActiveServer` that no stale credentials remain),
`RelaunchesRestore` that no write fails, while kills may come at any step, a write of
the file included: of a kill with no operation and no write of the list under way
(`Settled`) it excludes only that this kill tears the file in the write of another
key.
Its assumptions on constants only keep the values apart that the code keeps apart:
`None` is no server and no profile, and a torn file is no map.

`WaitsHaveEnds` is the safety half of `SlotsComeBack`, for every number of
connections: no handler reads without a deadline, and the mutex and the join
between a handler and its goroutine form no cycle; a write to a client that has
stopped reading is all that can hold either up.

Only model-checked: what is temporal (`SlotsComeBack`, `ConnectionsGetShells`,
`RecoveryShown`, `EntryGoes`, `LogsEnd`), since the prover has no rule for fairness
and `ENABLED`. Every other property of a passing run is a theorem.

## 6. Where code and comments disagree

Two runs end in a counterexample, each against a sentence of the source that
`PROJECT.json` quotes: `pairing_revoke_race` and `terminal_lost_wakeup`.

The models show more of them, which no run keeps; the constants reproduce them:

- overlapping commands (`Serial = FALSE`): a second save truncates the temporary file that a first is about to rename (`StoreAlwaysParses`), two pairings get one address (`DistinctAddresses`), `RemovePeer` brings a removed peer back (`UnpairedPeerGone`);
- an unreadable store (`ReadFaults`): the daemon falls back to its startup copy and accepts who was revoked since (`RevokedLosesAccess` and `PrintedBundleIsAccepted` speak of a readable store for that reason);
- a client that never reads (`Stalls`): the handler waits for a write without a deadline (`SlotsComeBack`);
- the last tmux session ending between `ensureServer`'s answer and the start of the client: the client starts the server inside the service, where the next restart of `archangeld` ends its shells, against `tmux.go:24-26` ("killing the client or restarting archangeld leaves the shells alive and re-attachable"). `ServerOutsideSandbox` says that this is the only way;
- activation with two operations at once, with kills, or with a failing write of the registry (`Procs`, the `crashes` and `faults` of a setting): registry and live pairing differ (`ActiveIsLive`, which speaks of the other settings). `server_registry.dart:413` and `:466` stand before the `try` blocks, so what they throw undoes nothing, and the list already shows the new server; a kill after them leaves a file from which the next launch takes the new active server with the old host and token;
- two commands of the devices API that overlap (`DevicesApi!UnitLoads`, then two saves): the later save drops what the earlier one granted or brings back what it revoked, after both devices were told that it was done (`AnswersAreTrue` says that this is all that can make an answer untrue; `pairing_revoke_race` shows it on the files);
- the refresh of an update that tests for the grant, then an off request, then the refresh's write (`RefreshTest`, `UnitRemovesGrant`, `RefreshWrite`): Admin mode is on again, where `vps_setup_service.dart:104-107` says that an update "never silently turns Admin mode back on"; and a probe of sudo that takes two seconds (`adminmode.go:117`) makes an off request answer that Admin mode is off while the grant is there;
- a restart of the tunnel, which `services.go:41-49` allows since only a stop would lock the owner out: it stops `archangeld`, which requires the tunnel, and when `wg-quick` then fails leaves both down (`LifelineStays` allows exactly this: a unit left down for its dependency is none of the request's);
- two servers at one address, as every default install has (10.10.0.1:8443, `server_registry.dart:59-61`): the health checks tell servers apart by address alone, so the late answer of one counts for the other (`AnswerFromThisAddress` speaks of addresses for that reason), while `archangeld_connection.dart:29-31` keeps a generation so that listeners can tell servers apart "even when two servers share the same host:port"; and the version shown is not reset by pairing;
- a second update after an interrupted one copies the unproven binary over the backup (`StartableKept`, with `Interrupted`), and a rollback that fails is reported like one that worked (`RollbackIsTrue`, with `RollbackFails`).

Further observations made while modelling, which no property states, since each is
what one line of the code says:

- `services.go:20-22` says that `TriggerScheduled` can only start managed units; `scheduled.go:137-142` starts the service of any timer that `list-timers` shows;
- the disk counters add up partitions and the disks they are on, so rates are doubled; after a file that could not be read, or an interface that was away, a difference spans several intervals and is divided by one (`collector.go:575-578`), so `AmountsAreReal` speaks of amounts;
- a rate change that finds the queue full is dropped (`handlers.go:195-198`): the client's last wish is then not followed (`lost`);
- where `/proc/stat` cannot be read the collector shows constants (`FallbackCPU`), where no interface is read it shows an eth0 at 512000 and 204800 bytes a second and adds it to totals and history (`FallbackNetwork`, `collector.go:597-601`), and `collector.go:413` calls itself without end when `/proc/meminfo` cannot be read;
- a core whose idle time goes back, or cores that change places, give a meaningless share for one interval: `UsageIsShare` excludes exactly these;
- the comment of `ReadFilePreview` names a parameter `maxBytes` that does not exist, a file that cannot be read to its end is shown as if it had ended there, and a line that is cut for its length says so in its text, while the preview is not marked as truncated (`files/service.go:350`, `:361-364`);
- a link changed between `resolvePath` and the open (`files/service.go:296`) is followed to wherever it then leads, also out of `files_root`, which lines 20-31 describe as the boundary (`ServesWhatWasAsked` speaks of requests during which no file changes);
- `RunDeployment` runs the first copy it finds, also one that `archangeld` may not write, while a save passes that one over and stores a later copy: what was saved is then not what runs; and a save that overlaps a delete may leave either's result, directory by directory (`RunsWhatWasSaved`, `DeletedIsGone` exclude both);
- a listing may show `deploy-*` files whose names every operation then refuses; a save truncates the script in place, so a process that ends there leaves half of it to be run (`sound`);
- `parseCaddyfile` takes nested blocks for domains.

## 7. What is not modelled

Parts that are planned are in section 2. Not planned: screens and widgets, whose
behaviour is in the services they call; the native tunnel code and platform
runners, which `ServerActivation` models from their use; the reverse-proxy view,
routing, configuration and the frames on the wire, which keep no state;
generated plugin code, assets, packaging and continuous integration. Inside the
modelled parts, the wording of messages, logging, the contents of terminal
frames, encryption and the parsing of command output are left out, and a
WireGuard key pair with its token is one value. `DevicesApi` has no second
sudoers rule and no copy of Admin mode in the app. `Pairing` abstracts the order
of blocks in `wg0.conf`. `Docker` leaves out names, labels and the arithmetic of
figures; `Monitor` memory, disk space and frequencies, which are read and shown;
`Processes` the fields of a process that are copied, and renice; `Files` sizes,
owners, the limits of a preview and the search for binary content; `Services`
what the listings show. `ShareFits` takes reading a stat file and the clock for
one moment: the code's cap at 100 percent is for the difference.

Hazards that no model reaches yet, beside those `PROJECT.json` lists: handlers that
still hold shells when the process ends (`terminal.go:79`; systemd ends them with
the service); user operations of the app that overlap (`server_registry.dart:374`:
`Procs` allows it, and then `ActiveIsLive` fails); a write of the store that failed
stays in the map (`local_kv_store.dart:114`, modelled by `cache` and `disk`, and
seen by the next launch); the version kept across servers
(`archangeld_connection.dart:84`); the rm of an off request that outlives its five
seconds (`adminmode.go:159`); a reboot announced before it is tried
(`system/handlers.go:147`); a device whose key
was not recorded, which leaves its peer (`main.go:453`); a socket
of an earlier connection of a terminal session (`terminal_session.dart:353`); a
kill by a number shown seconds ago (`processes.go:272`); a deploy script whose
children hold its output beyond 120 s (`deployments.go:198`).

## 8. Running

    tlc -config PairingSerial.cfg MCPairing.tla
    tlapm PairingProofs.tla

`PROJECT.json` lists every run with its module, the mutants that show each
property can fail, and the lines of source each definition stands for.
