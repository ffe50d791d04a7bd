# Verification of distil-proxy

TLA+ models of the `distil-proxy` daemon and command line, the TLC instances
that check them, and TLAPS proofs about all of them: every safety property that a
run checks is also a theorem. Every definition
is written from the Go source; `PROJECT.json` names the lines behind each one
(`map`), the hazards of the code and the properties aimed at them (`hazards`),
the runs, and the mistakes that each property is shown to catch (`mutants`).
Paths below are relative to `src/internal/` unless they say otherwise.

## 1. The system

`distil-proxy` runs on a user's machine. Its daemon keeps a websocket to a
server, receives *fetch* jobs, performs the HTTP requests and sends back the
answers. A command line starts, stops and inspects the daemon; a service manager
(systemd, launchd) may run it instead; and both the daemon and the command line
can replace the installed binary by a newer one.

| component | source | state | operations |
|---|---|---|---|
| websocket client | `ws/client.go` | connection, reconnect delay, write mutex, heartbeat goroutine and its error channel | `Run`, `runSession`, `heartbeatLoop`, `handleMessage`, `handleFetch`, `writeJSON` |
| job registry | `jobs/registry.go` | ids of jobs in flight | `Start`, `Finish`, `CancelAll` |
| metrics, hooks | `observability/metrics.go`, `daemon/service.go:243-269` | counters, published state | `IncConnectAttempts`, `IncReconnects`, `RecordJob`, the four hooks |
| upgrade manager | `upgrade/manager.go` | the binary, `.new`, `.bak`, `upgrade.json` | `HandleStartup`, `CheckAndUpgrade`, `MarkCleanShutdown` |
| version comparison | `upgrade/version.go` | - | `isNewerVersion`, `normalizeVersion` |
| daemon lifecycle | `daemon/service.go` | PID file, `status.json`, `status.json.tmp`, the processes | `Start`, `StartForeground`, `Run`, `Stop`, `Restart`, `Status` |
| daemon run loop | `daemon/service.go:165-411` | status under `statusMu`, ticker, upgrade goroutine, run context | `Run`, `restartProcess` |
| fetch executor | `fetch/executor.go` | - | `Fetch` |
| configuration | `config/config.go` | `config.json`, `config.json.tmp` | `Load`, `Save`, `ApplyDefaults`, `Validate` |
| command line | `cli/*.go` | the authentication flow | `auth`, `run`, `start`, `stop`, `restart`, `status`, `upgrade`, `uninstall` |
| service manager units | `platform/service*.go` | unit files | install, uninstall |
| log tail, process identification | `daemon/service.go:567-740`, `842-905` | - | `ReadLogTail`, `commandMatchesExecutable` |
| logger, browser | `observability/logger.go`, `platform/browser.go` | - | output only |

How they interact:

- The daemon's `Run` owns one client and calls `HandleStartup` before it,
  `CheckAndUpgrade` beside it (a goroutine with a ticker) and `MarkCleanShutdown`
  after it. After a rollback or an applied upgrade it replaces itself by `exec`.
- The client tells the run loop of states, heartbeats, job results and errors
  through hooks; the hooks count, and write `status.json`.
- Within the daemon, the main goroutine (through the hooks), a ticker and the
  upgrade goroutine share one status, which `statusMu` protects, and two flags:
  the cancelled `runCtx` and `upgradeRequested`.
- The command line and the daemons share **only files and signals**: no lock
  protects the PID file, the status file, the configuration, their temporary
  files, or the binary's temporary file. The command line recognises a daemon by
  the number in the PID file and by the command line of that process.
- The service manager starts `start --foreground` and restarts it whenever it
  ends.

What is hard in this code: two goroutines on one connection; a heartbeat that
must not outlive its session; half-open links; jobs that must be answered once
although links come and go; upgrades that can be cut anywhere and must be taken
back exactly when the new build fails; a shutdown, a restart and an upgrade that
reach `Run` at once; and several processes that change the same few files without
a lock.

## 2. The modules

| module | what it is |
|---|---|
| `WSClient` | the websocket client, its registry, its counters and published state (component) |
| `ProxyLink` | what the client promises the server (abstract specification) |
| `WSClient_proofs` | theorems about `WSClient` |
| `Upgrade` | the upgrade manager, driven by the daemon and the command line (component, composes three actors) |
| `Upgrade_proofs` | theorems about `Upgrade` |
| `Lifecycle` | commands, service manager and daemons over the state files (component, composes callers and processes) |
| `Lifecycle_proofs` | theorems about `Lifecycle` |
| `DaemonRun` | the daemon process from inside: `Run`, its ticker, its upgrade goroutine, signals and exec (component, composes three goroutines) |
| `DaemonRun_proofs` | theorems about `DaemonRun` |
| `Settings` | the configuration file, the commands that load and save it, the daemons that read it, and the files by which `auth` finds them (component, composes shells and daemons) |
| `Settings_proofs` | theorems about `Settings` |
| `LogTail`, `Fetch` | two sequential algorithms that read a stream: the tail of the log, the body of a response |
| `LogTail_proofs`, `Fetch_proofs` | theorems about them |
| `NatLemmas` | induction, recursion and remainders, for `WSClient_proofs` and `LogTail_proofs` |
| `MCWSClient`, `MCUpgrade`, `MCLifecycle`, `MCDaemonRun`, `MCSettings`, `MCReads` | instances for TLC: sets of ids, kinds, builds, callers, keys and texts |

An operator named `Buggy...`, or one of `Unbuffered`, `PartlyMarked` and
`InvertedVerdict`, is a wrong version of the definition that follows it. No
specification uses it: the mutation runs put it in place of the right one to show
that a property can fail.

### 2.1 `WSClient`

Two goroutines and an environment. `pc` says where the goroutine that calls
`Client.Run` stands (dialling, in the `select` of the read loop, blocked in
`conn.Read`, in `Fetch`, waiting for or holding `writeMu`, in the defers of
`runSession`, deciding, waiting for the timer); `hb` says where the heartbeat
goroutine of the current session stands.

| code | model |
|---|---|
| `Run` 95-131 | `Dial...`, `Decide`, `TimerFires`, `Stop` |
| `runSession` 133-187 | `Dial...`, `Select...`, `ReadFails`, `CancelSession`, `AwaitHeartbeat` |
| `heartbeatLoop` 189-206 | `Heartbeat...` |
| `handleMessage` 208-233 | `HandleMalformed`, `HandleIgnored`, `HandlePing`, `HandleFetch` |
| `handleFetch` 235-304 | `HandleFetch`, `FetchReturns`, `FetchPanics`, `MainLock`, `MainWrite...` |
| `writeJSON` 320-331 | `Lock`, `WriteSucceeds`, `WriteFails` for either goroutine |
| registry | `RegistryStart`, `RegistryFinish`, `CancelAll` |
| hooks and metrics | `EmitState`, `EmitJobResult` |

The network is a FIFO of the messages the server sent and a link that ends by a
close frame, by a reset, or **silently**: nothing arrives any more, and up to
`SendBuffer` writes still succeed before one fails. A write may fail for five
reasons (the context, a closed connection, a closing handshake in progress, a dead
link, the write timeout), and only the timeout surely closes the connection.
Steps of one goroutine between two points where anything else can matter are one
action. Payloads are abstracted to six kinds of frame, of which `malformed`
stands for everything `handleMessage` returns a decode error for.

`taken`, `answered`, `jobsTaken` and `streak` are history variables: the model's
actions never read them.

### 2.2 `ProxyLink`

A link is up, down or stopped, and owes the answer of at most one job. `Take`
needs that nothing is owed; losing the link forgets what is owed. `WSClient`
implements it under the mapping `LinkState` and `Owed` (property `LinkSpec`).

### 2.3 `Upgrade`

The state is what is on disk (`bin`, `new`, `bak` with its temporary file `bakTmp`, `st`
with its temporary file `stTmp`), and three actors on it: the daemon's main goroutine
(`dpc`), its upgrade goroutine and a process of `distil-proxy upgrade` (`upc`), which may
act, fail or be cut between any two steps.

| code (`upgrade/manager.go`) | model |
|---|---|
| `CheckAndUpgrade` 134-185 | `FetchLatest`, `Download`, `Verify`, `CopyBinary`, `Backup`, `SaveState`, `Replace`; `Abandon` for a failure of any of them |
| `saveState` 248-259, of any of the three actors | `OpenState` (which truncates), `WriteState`, `RenameState` |
| `replaceFile` 369-378, where the first rename fails and the target is removed | `RemoveTarget`, `MainRemovesTarget`, `UnlinkState` |
| `HandleStartup` 94-132 | `LoadState` with its `Verdict`, then `MarkStarted`, `ClearState`, `RemoveBackup`, `Rollback`; `StartupFails` |
| `MarkCleanShutdown` 261-280 | `MarkLoad`, `MarkSave`, `MarkFails` |
| `restartProcess`, a SIGTERM, the ends of `Run` | `Restart`, `Terminate`, `Exit`, `Crash` |

`upgrade.json.tmp` is one file for all. As a writer goes on writing to the inode it has
opened, `fd` says which name that inode has by now: the temporary file, the state (another
writer has renamed it) or none. Bytes written over another's may leave a `Torn` file. The
chmod behind a replacement may fail: the build is then installed and nobody is told
(`unannounced`). Other failures leave what has been done, or remove a target (`removed`).
`crossed` records the two ways in which the daemon and the command cross: a rollback in the
middle of the command's upgrade, and a daemon that gives up or ends with a record written
and not renamed while the command saves its own. These three, with `fresh` and
`lastExit`, are history variables.

The post-upgrade hook of the command line stops and starts the daemon; the model
lets that happen at any time. Builds are numbered in the order of publication, and
`VersionOf` gives each its version, so that two builds may carry the same version
(`needsUpgrade` compares checksums then). `BadBuilds` always crash once they run. The
rollback window is the field `recent` of the state, which `WindowPasses` takes back;
without that action (`MaxWindows = 0`) restarts always fall within the window. A download
that was cut leaves nothing, since it gets its name only by a rename; its temporary file
is left out.

### 2.4 `Lifecycle`

Callers (shells and the service manager's job) and processes. Each caller's
command is a sequence of steps, one per file operation, process look-up or
signal, so that everything may happen between any two; a process is "free" (not
spawned), a daemon at some point of `Run`, "dead", or another program that got its
number: "foreign", or a "latecomer" if a `Stop` was then between its check and its
signal. Of `status.json` the model keeps whose status it is and whether it says
*running*. Writing it is three steps (truncate the shared temporary file, write, rename);
`tmpFD` and `statusFD` say who still has the inode open that has this name by now. Writing the
PID file is one step or, with `AtomicPID = FALSE`, truncating it and then writing.

| code | model |
|---|---|
| `Run` 165-216, 324-363 | `DaemonWritesPID`, `DaemonOpensTmp`, `DaemonWritesTmp`, `DaemonRenames`, `DaemonRenameFails`, `ClientReturns`, `DaemonReadsPID`, `DaemonRemovesPID`, `UpdateFails`, `DaemonCrashes` |
| `restartProcess` 401-411 | `Exec`: the same process boots again, and a SIGTERM that the old image had caught is lost |
| `Start` 87-141 | `ReadPID`, `AlreadyRunning`, `StalePID`, `UnlinkPID`, `Spawn`, `StartWritesPID`, `StartWritesStatus`; `StartCannotWritePID`, `StartCannotWriteStatus` and `StartUndoes`, which end the child |
| `StartForeground` 144-162 | the same up to `Spawn`; `Run` then is the caller's own process |
| `Stop` 414-465, `Restart` 468-473 | `StopReadsPID`, `StopChecks`, `Signal`, `StopWaits`, `StopUnlinks`, `MarkStopped`, `MarkFails`, `AfterStop` |
| `Status` 476-508 | `StatusReads`, `StatusReadsPID`, `StatusChecks`, `StatusUnlinks` |
| look-ups and file operations that fail | `LookupFails`, `Errors` |
| the operating system | `Kill` of a caller, `Reuse` of a number, `Reboot` |

A failing look-up counts as "no daemon" in the code (`daemon/service.go:552-565`); `misled`
records that one has. `Stop` ignores the error of `markStopped`; the result
`unshown` tells such a stop from one that is `ok`.

### 2.5 `DaemonRun`

One process and three goroutines; `main`, `ticker` and `upgrader` say where each
stands, and `upd` how far the `updateStatus` of each has come: it wants the mutex,
has it, has taken the snapshot of the metrics, has written the temporary file.
`exec` puts the next image in the same process: memory starts anew, the files
stay. All counters that `Snapshot` copies are one, `jobs`.

| code (`daemon/service.go`) | model |
|---|---|
| `Run` 165-199 | `Boots`, `WritesPID`, `FirstStatus` |
| `updateStatus` 200-216 | `Lock`, `Snapshot`, `WriteTmp`, `Rename`, `WriteFails`, for each goroutine |
| the startup check 218-241 | `HandleStartup` |
| hooks 243-269, ticker 271-293 | `StartClient`, `OtherHook`, `OnJobResult`, `Tick`, `TickerStops` |
| upgrade goroutine 295-321 | `ChecksUpgrade`, `UpgradeChecked`, `RequestsUpgrade`, `UpgraderCancelsRun`, `UpgraderStops` |
| 324-363, `restartProcess` 401-411 | `ClientReturns`, `CancelsRun`, `JoinsTicker`, `Decides`, `MarkCleanShutdown`, `FinalStatus`, `RemovesPID`, `ReturnsError`, `Restarts` |
| `main` of `cmd/distil-proxy` | `Signal` |

### 2.6 `Settings`

Shells, each with at most one command, and daemons. A command loads the whole
file, may wait for the server, and writes the whole file back. Because all use
`config.json.tmp`, a file is an **inode** (`disk`), which the names `config` and
`tmp` refer to and which a command may still have open (`fd`) when another
has renamed it. `Save` is three steps: `OpenTmp` (which truncates), `WriteTmp`,
`RenameTmp`. A write into a file that another has filled meanwhile may leave the
other's longer text behind it (`Torn`). A command may end at any step (`Ends`): an
error, a timeout, Ctrl-C. `auth` ignores every error of `Load`, so it may go on from an
empty configuration although the file is good (`misread`).

`auth` then restarts the daemon and polls `daemon.pid` and `status.json` until they say
connected. The model has daemon processes (with the configuration each has read), the
number in the PID file and, as `status`, what the daemon that last wrote "connected" has
read. Anybody may start, launch, stop, kill or upgrade daemons at any time, a look-up
may fail, and `missed` records that the `Stop` of a command went on although a
daemon was there. `saves` numbers the published configurations, so that one can say which
of them a daemon has read; `clash` records that two commands were inside `Save` at once.
`clash`, `misread`, `missed` and `saved` are history variables.

| code | model |
|---|---|
| `auth` with a key or by dialogue, `saveAuthKeyWithVerificationKey` (`cli/commands.go` 300-338) | `Auth`, `Changed`, `Fresh`, then `Save` and the restart |
| `status`, `dashboard`: `lookupAccountForConfig` 468-481 | `Show`, `AccountFound`, then `Save` |
| `start`, `stop`, `restart`, the end of `upgrade` | `Restart`, `Ends` |
| `config.Load` 174-210, `Save` 214-242 | `Published`, `Unreadable`; `OpenTmp`, `WriteTmp`, `RenameTmp` |
| `Stop`, `Start`, `Status` (`daemon/service.go`) | `StopReads`, `StopEnds`, `StartSpawns`, `StartAnnounces`, `StartFails`, `StatusUnlinks` |
| `waitForDaemonConnected` 364-393 | `SaysConnected`, `Connected` |
| `__run` 617-641, `start --foreground` 38-55 | `DaemonLoads`, `Launch` |
| `Run` | `DaemonAnnounces`, `Publishes`, `Execs`, `Dies` |

An operation on the PID or the status file is one step here, and so are a look-up with the
removal that follows it, and the PID and the first status of a daemon; `Lifecycle` takes
them apart. At first the email in the file, if there is one, is that of the key.

### 2.7 `LogTail` and `Fetch`

`LogTail` is `ReadLogTail` call by call of `bufio.Reader.ReadLine`: a line that
ends within the buffer, a full buffer without an end (`isPrefix`), the rest of the
file without one, and the end of the file. Characters are an end of line or
anything else. The log may grow by whole lines at any moment, as the logger
writes a line with one call; were half a line written while the reader is at the
end of the file, the reader would take each half for a line. What a tail should be
(`TailIsExact`) is said without buffer and ring: `Split` takes the log one character
at a time into its lines and the beginning of the next.

`Fetch` is the reading of a body through `io.LimitReader`, piece by piece, with
sizes of a small width that wraps like an `int64`.

## 3. What TLC checks

| run | instance | shows |
|---|---|---|
| `ws_safety` | 2 job ids, all 6 kinds, 2 messages, 2 faults, delays 1..3 | mutex, registry, books of jobs, reconnect delay, counters, scope of the heartbeat, the refinement of `ProxyLink`, and no deadlock before `Run` returns |
| `ws_live` | 1 job id, jobs and pings, 1 message, 2 faults | a cancelled client ends, a silently dead link is noticed, a lost link is replaced, every job leaves the registry |
| `up_daemon` | 4 builds with versions 1, 2, 2, 3; the daemon alone upgrades; 2 crashes, 2 failures (a failed chmod and a removed target among them), 3 windows | only verified builds get installed, each on probation unless its chmod failed; a rollback restores the version the upgrade came from, or after a failed operation at worst the running build or one whose chmod failed |
| `up_live` | versions 1, 2, 2, the third build bad; 1 crash, 1 failure | a bad build does not stay, but for the two failures the property names |
| `up_cli` | the same builds as `up_daemon`; the command line alone upgrades, beside a daemon that starts, runs and stops; 1 crash, 1 failure, 1 window | no rollback after a clean stop, whatever the command line does, until the two cross |
| `lc_one` | one shell, 3 commands out of `start`, `stop`, `restart`, `status`; 2 processes; 1 each of update, crash, failed operation or look-up, reboot, reused number, exec | one daemon at a time, always found by the next command; what `start` and `stop` report is so; other programs are not signalled |
| `lc_both` | a shell (`start`, `stop`) and systemd, 2 commands, 2 processes; 1 each of update, crash, killed caller, exec; PID file written in two steps | a failed start leaves no child, a stop ended its daemon, and a daemon that got SIGTERM ends or is replaced by the next image |
| `up_probation` | 3 versions, the daemon alone, SIGTERM in the middle of an upgrade | finding 1 |
| `dr_one` | one job, two images, one failed write, a signal at any moment | what is published does not go back and is complete at the end; a stopped daemon is not shown as running; the clean way out follows a signal; every image that is signalled or upgraded ends |
| `cf_shared` | 2 shells, 2 keys of 2 accounts, 2 inodes, 2 saves, 2 daemon processes | the email is the key's; separate saves that have read the file keep the user's settings; the status in which `auth` finds connected is of a daemon that has read what it saved |
| `cf_atomic` | the same instance | finding 2 |
| `reads` | logs of up to 7 characters that grow, 0 to 3 lines, a buffer of 2; bodies of up to 6 bytes, limits -1 to 7 of a width that ends at 7 | the tail is exact; a body is whole or refused |

The bounds. In `ws_safety` two messages are a job and its redelivery, or a job
and any other kind; two faults are two failing sessions in a row, enough for the
delay to reach its cut (1, 2, 3), or a dead link and a write that times out on
the same session. In `up_daemon` the four builds give an ordinary upgrade, one
within the same version and one after it, which is where a leftover backup or
state of an earlier upgrade can be met; two crashes and two failures are one of each
in each of two upgrades. In `lc_one` three commands and
two processes are a start, its end and a second start, or a start and two commands on
what is left of its daemon, while one of everything else happens anywhere; the
proofs have no such bounds.
In `dr_one` one job is enough for a count that is published late or twice, the
second image for a signal or a status that crosses the exec. In `cf_shared` two
saves are one that is overtaken and the one that overtakes it, two processes a daemon
from before and the one `auth` has started; two inodes are all that two saves can use,
as a third one gives the same states. Shells, inodes, processes, and the keys together with their accounts are
interchangeable, which the symmetry set says (no liveness is checked there). The
constraint `Apart` of `MCSettings` keeps two questions apart: once a daemon has been
started TLC follows only saves that do not overlap, and contents that are all alike, as
what daemons do depends on the order of the saves alone; the proofs have no such
restriction. In
`reads` a line is shorter than, as long as and longer than the buffer, the ring
is left part empty, filled exactly and gone round, and `MCReads` has one of the
two readers do little while the other does everything. `MCWSClient` adds a
stuttering step for a client that has returned, so that TLC reports any other
state without a step. The runs of `Lifecycle` and `Upgrade` switch deadlock
checking off: the commands are bounded and nothing happens when they are used up, and
a binary that a failed replacement has removed does not start. So do `dr_one` and `reads`, whose process or call is over at some point.

### Fairness

- `WSClient`: a goroutine that can run is run; dials, writes, closes and fetches
  have deadlines; timers fire. The mutex is strongly fair for either goroutine
  (`sync.Mutex` hands itself to a starving waiter), and so is the heartbeat's
  exit: its `select` meets a `Done` that stays ready, a tick comes once per
  interval, longer than a write may take, and Go picks among ready cases at
  random. Nothing is assumed of the server, the network or the caller.
- `Upgrade`: the service manager starts the daemon again (`Restart=always`,
  `KeepAlive`), its main goroutine runs on, and a bad build does crash. Upgraders get no
  fairness. In `up_live` the restart comes within the rollback window, which
  systemd's `RestartSec=5` gives and launchd's throttle may not.
- `Lifecycle`: daemons run on, and one whose context is
  cancelled sees it (strong fairness against its endless status updates). Nothing is
  assumed of the commands.
- `DaemonRun`: `statusMu` is handed to whoever has waited; a `select` does not
  overlook a channel that stays ready (the ticker's, the client's); the client
  returns once its context is done, which is `StopsWhenCancelled` of `WSClient`; a
  check for upgrades ends by its timeouts. Jobs, ticks and signals need not come.

### Findings

Each is a run that TLC ends with a counterexample.

1. `up_probation`: `Run` does not wait for the upgrade goroutine before
   `MarkCleanShutdown`, which writes back a state it read earlier, through the temporary
   file the goroutine uses too. A SIGTERM
   during an upgrade can install a build without its probation. This is why
   `up_daemon` has `StopMidUpgrade = FALSE`.
2. `cf_atomic`: two saves at once share `config.json.tmp`. One renames the file the
   other has just truncated, and `config.json` cannot be read until the other has
   written, or at all if it is interrupted. `Save` says it is atomic.

Met while modelling, with instances that are not kept as runs. They are the
limits of the properties above, and the reason for the assumptions of the theorems:

- A session that ends without an error publishes no state
  (`ws/client.go:106-113`); while the client waits out its delay without a
  connection, `status` says "connected to ...". `StateShown` is what does hold.
- The daemon and `distil-proxy upgrade` share one temporary path
  (`daemon/service.go:394`, `cli/commands_upgrade.go:63`): with `Upgraders =
  {"daemon", "cli"}`, `InstalledVerified` fails, as one installs what the other has
  downloaded and not verified (`upgrade/manager.go:155-176`).
- In the same instance, with a crash, `RollbackRestoresPrevious` fails: the second
  upgrader backs up the build the first has just installed.
- In the same instance, with three versions, a crash and a failed operation,
  `NoRollbackAfterCleanStop` fails, by lost updates of `upgrade.json`. A command that
  has looked up release 2 before the daemon's upgrade to 3 installs 2 over it, as it
  compares with its own version; a second command upgrades to 3 again. The daemon,
  which has read the state before and marks it started after, writes its old state
  over theirs (`upgrade/manager.go:109-113`). It crashes, release 2 starts, cannot
  remove the state about 3, and is stopped cleanly, which leaves a state about another
  version alone; the second command then installs 3, and the next start takes the
  state for that of a crashed 3. Either upgrader alone does not do this, however
  often anything fails: `NoRollbackAlways` and `CommandNoRollback`.
- `upgrade.json.tmp` is shared as well (`upgrade/manager.go:254-258`). A daemon that dies
  between writing the record "started" and renaming it can have it published later
  by a `distil-proxy upgrade` that is saving meanwhile, and a clean stop can then be followed
  by a rollback. `NoRollbackAfterCleanStop` is not claimed once the two have `crossed`.
- The fallback of `replaceFile` removes its target before the second rename
  (`upgrade/manager.go:375-378`). A crash or an error in between leaves no binary, which
  nothing starts, or no `upgrade.json`, without which a bad build stays: the disjunct
  `removed` of `InstalledVerified` and `BadBuildTakenBack`.
- A chmod that fails behind the rename (`upgrade/manager.go:179-181`) ends the upgrade with
  an error although the build is installed. The old image runs on; the next check upgrades
  again and makes the unannounced build the backup of its own version, so that a rollback
  installs a third build, and a bad build whose installation ended like this
  is not taken back before it is started. The properties name it (`unannounced`).
- A rollback may install the running build once more, the daemon alone upgrading: the
  state of an upgrade could not be removed or marked, a later upgrade was cut between
  `Backup` and `SaveState` and has replaced the backup, and a crash in the window then
  makes the old state count. `RollbackRestoresPrevious` allows this after a failed
  operation, and never another build than these two.
- With two shells, two starts at once launch two daemons, of which the PID file
  names one (`daemon/service.go:92`, `114-118`): `AtMostOneDaemon` fails.
- A single `start` may fail although nothing is wrong: parent and child share
  `status.json.tmp`; whoever renames second fails, and if that is `Start`, it kills
  a healthy child (`daemon/service.go:133-137`, `819-825`). Or it reports success and the
  child ends of the missing file, with a `status.json` the one has truncated under
  the other, which nobody can read: `StatusIsTheChilds` claims that the file is there, and
  whose it is where it can be read.
- A process look-up that fails counts as no daemon (`daemon/service.go:552-565`): `start`
  then launches a second one, and `stop` removes the PID file of a daemon that runs and
  reports success. The properties about daemons are claimed while none has (`misled`).
- `Stop` ignores a failed write of the status (`daemon/service.go:519`): it may return nil
  while `status.json` says *running*. `StopIsShown` is about the stops whose write worked.
- Between the look-up of `Stop` and its signal (`daemon/service.go:430-438`) the daemon may
  end and another program get its number: that program gets the SIGTERM.
- With `AtomicPID = FALSE` a single shell gets two daemons: a second `start`
  reads the PID file that the first one's child has just truncated, and takes the
  parse error for no daemon (`daemon/service.go:523-526`, `767`).
- With a shell that only asks for the status and a service manager that
  restarts daemons, `DaemonFound` fails: `Status` judges a PID stale and then
  removes whatever the file has become (`daemon/service.go:487-492`).
- Under a service manager a report may show the predecessor's status: `Run` writes
  the PID before the status (`daemon/service.go:175-199`).
- A daemon that was signalled need not end, though the image that got the signal
  does (`ImageEnds`, `SignalledEnds`): when SIGTERM arrives after the client returned for an upgrade,
  or during the rollback of `HandleStartup`, the exec loses it and the next image
  runs on (`daemon/service.go:327`). `Stop` then times out.
- `status` and `dashboard` save the email of the key they loaded **before** asking
  the server; if `auth` has saved another key meanwhile, the old key is back, and
  the daemon that `auth` restarts may run with it (`cli/commands.go:477`).
  `ConnectedIsNew` therefore speaks of what was saved last or later, not of the key.
- `auth` ignores every error of `Load` (`cli/commands.go:311-314`): when a good
  `config.json` cannot be read at that moment, the defaults are saved over the user's
  settings. `SettingsSurvive` is claimed where that has not happened (`misread`).
- A daemon that `Stop` did not find (no PID file, or that of another) or did not wait for (a
  failed look-up) may be the one `auth` then takes for connected
  (`cli/commands.go:364-393`): `ConnectedIsNew` is claimed where none was `missed`. And
  between the PID and the first status of a daemon the poll may see what a
  predecessor has left, which `Settings` does not show, as the two are one step there.

### Mutants

Every property of every passing run has at least one wrong version of a modelled
definition that makes TLC refute it: a mutex that does not exclude, a registry
that is cleaned only on success, a delay that is not cut or not reset, a
heartbeat that is not waited for, a `Stop` that does not wait, a failed `Start`
that leaves its child, a checksum that is not compared, a backup that is not
renewed, a window tested the wrong way round, a status snapshot outside the
mutex, an upgrade flag set after the cancellation, a ticker that does not hear of
the upgrade, an email that outlives its key, a save in place, a ring read from
its first slot, and so on (`mutants` in `PROJECT.json`).

## 4. What is proved

`WSClient_proofs` proves, for every set of job ids, every subset of the kinds,
every bound and every pair of delays with `0 < InitialReconnect <= MaxReconnectWait`:

| theorem | property |
|---|---|
| `TypeCorrect` | `TypeOK`, which includes that the delay stays in its range |
| `Safety` | `SafetyInv`, the inductive invariant |
| `OneWriterAlways` | never two goroutines in `wsjson.Write` |
| `RegistryExactAlways` | the registry holds exactly the job in hand |
| `EveryJobAnsweredAlways` | no job answered more often than read; on a working link all but the one in hand answered |
| `HeartbeatScopedAlways` | the heartbeat never outlives its session |
| `StateShownAlways` | the published state is the client's own, but for the delay after a clean end of a session |
| `JobsAccountedAlways` | every job taken is counted once, or was lost with the one error its session ended with |
| `BackoffLawAlways` | the delay is the initial one doubled once per failure in a row, cut at the maximum |
| `ImplementsLink` | `LinkSpec`: every behaviour of `WSClient` is one of `ProxyLink` |

The assumptions are the two `ASSUME`s of `WSClient`, which TLC evaluates in its
runs. The argument: none of the properties is inductive by itself, so `SafetyInv`
adds what ties them together.

- `OneWriter` needs `LockHeld`: the holder of the mutex is the goroutine in the
  critical section.
- `RegistryExact` needs `ReplyPhase`: the reply in hand and the program counter
  agree, so that a job is in the registry exactly from `HandleFetch` to the step
  that ends its write; `NoFalseDuplicate` then follows, because the next message
  is read with nothing in hand.
- `EveryJobAnswered` needs the `Ledger`: on a working link every job read is
  answered or in hand. Its second half needs to know that a write on a working link
  does not fail while the session goes on: the one error that is ignored (the
  reply to a bad body) would break it, were the heartbeat closing a link that
  works. `Endings` says it is not.
- `HeartbeatScoped` is inductive with `TypeOK`: the session ends only through
  `AwaitHeartbeat`, which needs the goroutine to have returned, and a goroutine
  that has returned leaves nothing behind but what that step drops.
- `JobsAccounted` needs `Accounts`: an error kept in `err` is there exactly from the
  failure to the step that counts it (`Decide`), so at most one job per counted
  error goes uncounted.
- `BackoffLaw` speaks of the powers of two, a recursive function: that it exists is
  `Recursion` of `NatLemmas`, that a cut delay doubled and cut again is the next one
  is `DelayDoubles`. Its induction adds only that a client that has panicked never
  decides or waits.
- `ImplementsLink` maps the initial state and then each action to `Take`, to
  `Answer`, to the loss or the making of a link, or to a stutter. The lemmas
  `LinkKept` and `LinkLost` say which steps cannot change the abstract state; that
  `Owed` names one job needs `Ledger` and `ReplyPhase`.

`TypeCorrect` is proved first and used in the second induction. Both go action by
action through `Next`.

`Upgrade_proofs` proves, for any number of builds, any assignment of versions to
them, any set of bad builds and any number of crashes, failures and windows:

| theorem | property | assumption |
|---|---|---|
| `TypeCorrect` | `TypeOK`, `LoadedPresent` and `SavesOwned` | none: any upgraders |
| `DaemonSafety` | `DaemonInv`, the inductive invariant | `DaemonAlone` |
| `InstalledVerifiedAlways` | only verified builds are installed, or none after a failed replacement | `DaemonAlone` |
| `NoRollbackAlways` | a clean stop is never followed by a rollback | `DaemonAlone` |
| `RollbackRestoresAlways` | a rollback installs the version the upgrade came from or, after a failed operation only, the running build or one whose chmod failed | `DaemonAlone` |
| `InstalledOnProbationAlways` | a new build is on probation before it can start, with its predecessor in the backup, unless its chmod failed | `DaemonAlone`, no SIGTERM in the middle of an upgrade |
| `CommandSafety` | `CommandInv`, the inductive invariant | `CommandAlone` |
| `CommandNoRollback` | until the two cross a clean stop is never followed by a rollback; only verified builds are installed | `CommandAlone` |

`DaemonAlone` says that nobody runs `distil-proxy upgrade`, `CommandAlone` that the
daemon, which still handles its starts and marks its stops, upgrades nothing itself: its
first check comes hours after a start, and the command has been there before. (With
`auto_upgrade` off there is no upgrade manager in the daemon and no rollback at all.)
Finding 1 and the observations below it show that each of these properties fails
without its assumption.
The argument:

- `TypeOK` needs `LoadedPresent`: main acts on a state only after it has read one, and what
  it reads from a file that two writers have torn is an error. `SavesOwned`: a save is
  open only where its writer is at it.
- `InstalledVerified` needs `Verified`: from the checksum on, the temporary binary
  is the build the checksum was taken of, and no backup is corrupt.
- `NoRollbackAfterCleanStop` needs `CleanStop` (what the stop wrote, and what the
  next start reads, does not ask for a rollback), `Phases` (the upgrade goroutine
  lives while `Run` does, and main runs the build that is installed, unless that was
  removed or installed unannounced) and
  `WindowQuiet`: no upgrade is under way in the rollback window, so that a state
  `MarkCleanShutdown` does not know of is not there to be taken for a crash. `SaveAlone`
  and `MarkAlone` say where a goroutine has the temporary file to itself.
- `InstalledOnProbation` needs `Probation`, which follows the upgrade through its
  steps: a backup of a build, then the new state, then the new binary.
- `RollbackRestoresPrevious` needs `BackupInv`. `BackupKept` holds whatever fails: the
  backup is of the version the state's upgrade came from, or is the installed build
  itself, of which the next upgrade has already made one, or a build that was installed
  unannounced (`OddBackup`); what is in the temporary file is held to the same. `NothingOutlives` holds while
  nothing has failed, and excludes the second: an upgrade starts only with a state that
  is marked and out of the window, and a state that is not gives way before a new one.
- `CommandNoRollback` needs `CommandInv`, which is of another kind: the command can
  write at any moment of the daemon. A state is *armed* for a build if the next start of
  that build would roll back. `ArmedForDaemon`: a state that is armed for what is
  installed, or is about to be, is about the daemon that runs, so that its clean stop
  will mark it; this needs `Ascending`, that the versions of backup, running daemon,
  installed build and release are in order. `ArmedTmp`: an armed state in the temporary
  file is the one main has just written. `Disarmed` is then what a clean stop leaves. All
  but the first part of the invariant stops with `crossed`.

`Lifecycle_proofs` proves, for any number of processes and any bounds:

| theorem | property | assumption |
|---|---|---|
| `LifecycleSafety` | `LifecycleInv`, the inductive invariant | none |
| `TypeCorrect` | `TypeOK` | none |
| `TargetStoppedAlways` | a stop that took effect ended its daemon | no failed look-up |
| `NoStrayChildAlways` | a `Start` that failed left no child | none |
| `ForeignUntouchedAlways` | no other program gets SIGTERM, unless it took the number between check and signal | none |
| `OneDaemonSafety` | `OneDaemonInv`, the inductive invariant | `ShellAlone`, no failed look-up |
| `AtMostOneDaemonAlways` | never two daemons | `ShellAlone`, no failed look-up |
| `DaemonFoundAlways` | between commands the PID file names the daemon | `ShellAlone`, no failed look-up |
| `StoppedMeansNoneAlways` | a stop that reports success leaves no daemon | `ShellAlone`, no failed look-up |
| `StatusSafety` | `StatusInv`, the inductive invariant of the status file | `ShellAlone`, no failed look-up |
| `StopIsShownAlways` | a stop that reports success, and whose own write worked, is what `status.json` then says | `ShellAlone`, no failed look-up |
| `StatusIsTheChildsAlways` | after a start that succeeded `status.json` is there and, where it can be read, about its child | `ShellAlone`, no failed look-up |

"None" is any shells and service jobs at once, PID files written in two steps,
crashes, killed callers, failed operations and look-ups, execs, reused numbers and reboots.
"No failed look-up" is the disjunct `misled` of the properties. The argument is that no
later daemon gets the number of an earlier one: every number in the PID file or in a
caller's hands is that of a process there was (`NumbersSpawned`), a process that has ended
is dead or another program from then on (`ProcessesEnd`), and a step that uses a number has
one (`HasNumber`). So what a stop saw ended, or a failed start killed, cannot come back.
`ForeignUntouched` needs `SignalsDaemons`: who is about to be signalled was a daemon when
its command line was read, which rests on the check of `StopChecks`
(`daemon/service.go:430-436`). That the operating system gives a dead daemon's number to
a later daemon is not in the model.

`ShellAlone` is one shell, not killed in the middle of a command, no service
manager, and a PID file nobody reads half written. Each part is needed: the
observations in section 3 have two shells, a service manager and a half written PID
file, and a shell killed between `Spawn` and `StartWritesPID` leaves a child
that the next `start` may not find yet. Under it `OneDaemonInv` says what the PID file
means at each step of the shell: it names the daemon, except while the shell that
spawned it has not written the number yet (`openpid`) or is taking it back (`undo`),
when the shell itself holds the number. That two daemons would have to carry one
number follows. `StatusInv` says the same of the status: who has one of the two files open, and
that what is in the temporary file is about the process that goes on to rename it, or from
its parent about it, or truncated or torn by the other of the two, so that a rename
never publishes the status of an earlier daemon; and that the shell that stops has it to
itself, as no daemon is left to write. It uses that there is one daemon.

`DaemonRun_proofs` proves, for any number of jobs, images and failed writes, with
and without automatic upgrades:

| theorem | property |
|---|---|
| `TypeCorrect` | `TypeOK` |
| `RenamesItsOwnAlways` | whoever renames `status.json.tmp` finds there what it wrote |
| `NoUnaskedExitAlways` | the clean way out follows a signal only |
| `CountersNeverDecreaseAlways` | the published counters never go back within an image |
| `StoppedStaysStoppedAlways` | after the final status nobody publishes that the image runs |
| `FinalCountsAlways` | a daemon that removes its PID file has published every job it counted |

- `MutexInv` says that who is inside `updateStatus` holds the mutex, that no other
  goroutine exists before the client does, and that the temporary file is the
  status in memory from the write to the rename.
- `NoUnaskedExit` needs `ExitInv`: `runCtx` is cancelled while the client runs only
  after the flag is set, so that a client that returned has been signalled, has an
  upgrade to report or has panicked.
- The counters need `CountInv`: file, memory, snapshot and metrics are in this
  order, each at most the next, for the image whose status it is; and a main
  goroutine that owes no update has published what it counted. A late upgrader may
  still write after the final status, but what it writes is taken from memory, where
  `running` is already false.

`Settings_proofs` proves, for any number of shells, keys, accounts, inodes, daemon
processes and saves:

| theorem | property |
|---|---|
| `TypeCorrect` | `TypeOK` |
| `EmailMatchesKeyAlways` | in every file and in every command the email is of the key's account |
| `SettingsSurviveAlways` | saves that do not overlap and have read what is there never lose the user's settings |
| `ConnectedIsNewAlways` | the status in which `auth` finds connected is of a daemon that has read what it saved, or something newer, and so is the daemon of the PID file, unless its `Stop` missed one |

- `FileInv` is what the three steps of `Save` do when they do not overlap: the
  temporary file is not `config.json`, is empty from the open to the write and the
  saver's configuration from the write to the rename, and there is one saver.
- `SettingsSurvive` adds `SettingsInv`: every configuration in memory has the settings
  of the file, as no command changes them.
- `ConnectedIsNew` needs `ReadInv`: from the stop of `auth` on, unless it has missed a
  daemon, every daemon that has read a configuration has read none earlier than the one `auth`
  published, but for the one it still waits for; and from the announcement of the new
  daemon on so has every daemon whose "connected" can be in the status file.

`LogTail_proofs` and `Fetch_proofs` are about data rather than interleavings:

| theorem | property | for every |
|---|---|---|
| `TailIsExactAlways` | the tail is exactly the last lines of what has been read | log, buffer, number of lines, and lines appended meanwhile |
| `BodyIsWholeSafety` | a body comes back whole or not at all | width of the sizes, limit, body, and cutting into pieces |

- `TailIsExact` needs `Consumed`: the ring holds the last lines of what has been
  consumed, each in the slot of its number modulo `n`, and the builder the beginning of
  the next. That a character, a whole line or a piece of one extends the split as the
  code extends ring and builder is by induction on the text; that the ring is read from
  the right slot is arithmetic of remainders. A log whose last line lacks its end is
  the second disjunct: that line is in the ring already.
- `BodyIsWhole` is inductive with the range of its variables; the limit for which it
  does not hold, the largest of the width, is its hypothesis and is in the code.

`NatLemmas` has the induction these proofs need. The induction theorems of the library
take a predicate as a parameter, which no installed prover can instantiate; here the
predicate is a set of numbers (`Induction`) and the recursion a function of functions
(`Recursion`), both from the well-foundedness of `<`.

Only model-checked: liveness (`StopsWhenCancelled`, `Reconnects`, `DeadLinkNoticed`,
`EveryJobSettled`, `BadBuildTakenBack`, `SignalledEnds`, `ImageEnds`) with its fairness,
and absence of deadlock, as the prover handles neither `ENABLED` nor fairness. Where a
table above names an assumption, the property is not claimed without it: the code does
not keep it then.

## 5. What is not modelled

- The latencies and the histogram of `observability.Metrics`, time as a number
  (heartbeat interval, fetch timeout, stop timeout, rollback window are
  nondeterministic), the content of requests and answers.
- In `DaemonRun`: what happens between two hooks (that is `WSClient`), what a check
  for upgrades does to the files (that is `Upgrade`), other processes (`Lifecycle`).
- The dialogue of `auth`, its verification with the server, the validation of single
  settings, and the tables that `status` and `dashboard` print: input and output
  without further state. `uninstall` is a stop and a removal of files.
- Version parsing and the matching of command lines, which are string work; the
  conversion of `timeout_ms` to a duration, whose only effect is a deadline that has
  passed, which `FetchReturns` covers.
- In `LogTail`: carriage returns, which `ReadLine` drops, and an error of the file
  system in the middle of the file, which returns nothing.
- Writing unit files, calling `systemctl` and `launchctl`, Windows' forced
  termination (which skips `MarkCleanShutdown`, so that a stop soon after an
  upgrade looks like a crash), logging, the browser, scripts.
- In `Lifecycle`: a later daemon that gets an earlier daemon's number.
- In `Settings`: the PID and the first status of a daemon as two steps, and a look-up apart
  from the removal that follows it; `Lifecycle` has both.
- In `Upgrade`: the temporary file of the download.

## 6. Plan

Done: `WSClient`, `ProxyLink`, `Upgrade`, `Lifecycle`, `DaemonRun`, `Settings`,
`LogTail` and `Fetch`, each with its proof module. Left, in this order:

1. An abstract specification of the upgrade (a build is tried, then kept or taken
   back), with `Upgrade` shown to implement it for the daemon alone.
2. What does hold of both upgraders at once: which of the states they overwrite are
   harmless.
3. `Upgrade` with the file protocol of `Lifecycle`: the post-upgrade restart and a
   service manager that restarts in between.
