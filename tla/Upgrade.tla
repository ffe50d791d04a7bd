------------------------------- MODULE Upgrade -------------------------------
(***************************************************************************)
(* Replacing the installed binary, and taking it back: upgrade.Manager     *)
(* (internal/upgrade/manager.go) as the daemon drives it                   *)
(* (internal/daemon/service.go:218-234 and 293-341) and as the command     *)
(* `distil-proxy upgrade` does (internal/cli/commands_upgrade.go:35-97).   *)
(*                                                                         *)
(* The state is on disk: the binary, the verified download next to it, the *)
(* backup and upgrade.json.  Three things act on it: the daemon's main     *)
(* goroutine (HandleStartup, MarkCleanShutdown), its upgrade goroutine and *)
(* a CLI process (both CheckAndUpgrade).  Between any two steps the        *)
(* process may crash or another one may act.                               *)
(*                                                                         *)
(* All writers of upgrade.json share one temporary file: a save truncates  *)
(* it, writes it and renames it.  A writer that has it open goes on        *)
(* writing to the same inode when another one renames or removes it, so    *)
(* `fd` says which name that inode has.  The copy of the binary has its    *)
(* temporary file too; a download may give any bytes under its final name. *)
(* The daemon is installed with auto_upgrade on, and the builds are        *)
(* numbered in the order of their publication.                             *)
(***************************************************************************)
EXTENDS Integers

CONSTANTS
    LastBuild,       \* bound: builds 1 .. LastBuild are published, in order
    VersionOf,       \* the version each build carries; a build may reuse one
    BadBuilds,       \* builds whose daemon always ends in a crash
    Upgraders,       \* who runs CheckAndUpgrade: "daemon", "cli" or both
    StopMidUpgrade,  \* SIGTERM may reach the daemon while it upgrades
    MaxCrashes,      \* bound: crashes, other than those of a bad build
    MaxFailures,     \* bound: failed requests and file operations
    MaxWindows,      \* bound: how often the rollback window runs out
    Corrupt, NoFile,
    Empty, Torn      \* a state file just truncated, or written by two at once

Builds == 1 .. LastBuild
Contents == Builds \cup {Corrupt}
MaybeFile == Contents \cup {NoFile}

ASSUME UpgradeAssumption ==
    /\ LastBuild \in Nat \ {0}
    /\ VersionOf \in [Builds -> Nat]
    /\ BadBuilds \subseteq Builds
    /\ Upgraders \subseteq {"daemon", "cli"}
    /\ StopMidUpgrade \in BOOLEAN
    /\ MaxCrashes \in Nat /\ MaxFailures \in Nat /\ MaxWindows \in Nat
    /\ Corrupt \notin Builds /\ NoFile \notin Contents

\* upgrade.json.  "recent" stands for StartedAt: less than RollbackWindow ago.
States == [from : Nat, to : Nat, once : BOOLEAN, recent : BOOLEAN, clean : BOOLEAN]

ASSUME StateAssumption ==
    /\ {NoFile, Empty, Torn} \cap States = {}
    /\ NoFile \notin {Empty, Torn} /\ Empty # Torn

StateFiles == States \cup {NoFile, Empty, Torn}
Processes == Upgraders \cup {"daemon"}
\* Who writes the state: the upgraders, and the daemon's main goroutine.
Writers == Processes \cup {"main"}

VARIABLES
    bin, new, bak,  \* BinaryPath, TempBinaryPath, BackupPath
    bakTmp,         \* BackupPath.tmp, once it is written
    st, stTmp,      \* StatePath, StatePath.tmp
    fd,             \* how far a save of the state is: not begun ("none"), open
                    \* on what is now StatePath.tmp, StatePath or no file
                    \* ("tmp", "state", "gone"), or written ("done")
    published,      \* the latest release of the version endpoint
    dpc,            \* the daemon's main goroutine
    build,          \* the build a process runs, by upgrader
    checked,        \* startupChecked
    loaded,         \* the state main has read and is about to act on
    upc,            \* where in CheckAndUpgrade an upgrader is
    rel,            \* the release it works on
    lastExit,       \* history: how the previous daemon ended
    fresh,          \* history: bin was installed and no daemon has seen it
    unannounced,    \* history: builds installed by a replacement that ended in
                    \* an error
    removed,        \* history: a replaceFile has removed its target
    crossed,        \* history: main has rolled back, or given up a state it had
                    \* written, while the command was under way
    crashes, failures, windows

files == <<bin, new, bak, bakTmp>>
saves == <<st, stTmp, fd>>
disk == <<files, saves>>
main == <<dpc, checked, loaded, lastExit>>
bounds == <<crashes, failures, windows>>
history == <<fresh, unannounced, removed, crossed>>
vars == <<disk, published, main, build, upc, rel, history, bounds>>

Init ==
    /\ bin = 1 /\ new = NoFile /\ bak = NoFile /\ bakTmp = NoFile
    /\ st = NoFile /\ stTmp = NoFile /\ fd = [w \in Writers |-> "none"]
    /\ published = 1
    /\ dpc = "down" /\ checked = FALSE /\ loaded = NoFile /\ lastExit = "none"
    /\ build = [u \in Processes |-> 1]
    /\ upc = [u \in Processes |-> "idle"]
    /\ rel = [u \in Processes |-> 1]
    /\ fresh = FALSE /\ unannounced = {} /\ removed = FALSE /\ crossed = FALSE
    /\ crashes = 0 /\ failures = 0 /\ windows = 0

\* normalizeVersion(state.ToVersion) == normalizeVersion(CurrentVersion)
About(state, b) == state.to = VersionOf[b]

Fail == failures < MaxFailures /\ failures' = failures + 1

-----------------------------------------------------------------------------
(* The environment.                                                        *)

Publish ==
    /\ published < LastBuild
    /\ published' = published + 1
    /\ UNCHANGED <<disk, main, build, upc, rel, history, bounds>>

Recent(s) == s \in States /\ s.recent
Aged(s) == IF s \in States THEN [s EXCEPT !.recent = FALSE] ELSE s

\* Less than RollbackWindow ago a build was started for the first time.
InWindow == Recent(st) \/ Recent(stTmp)

\* RollbackWindow passes since that start.
WindowPasses ==
    /\ windows < MaxWindows /\ InWindow
    /\ st' = Aged(st) /\ stTmp' = Aged(stTmp) /\ loaded' = Aged(loaded)
    /\ windows' = windows + 1
    /\ UNCHANGED <<files, fd, published, dpc, checked, lastExit, build, upc, rel, history,
                   crashes, failures>>

-----------------------------------------------------------------------------
(* saveState: os.WriteFile of StatePath.tmp, which opens and truncates it   *)
(* before it writes, then replaceFile.  For a writer w, up to the rename.   *)

BuggyUpgradeState(u) ==
    [from |-> VersionOf[build[u]], to |-> VersionOf[rel[u]],
     once |-> TRUE, recent |-> FALSE, clean |-> FALSE]

UpgradeState(u) ==
    [from |-> VersionOf[build[u]], to |-> VersionOf[rel[u]],
     once |-> FALSE, recent |-> FALSE, clean |-> FALSE]

Started(state) == [state EXCEPT !.once = TRUE, !.recent = TRUE, !.clean = FALSE]

PartlyMarked(state) == [once |-> TRUE, clean |-> TRUE]
Marked(state) == [state EXCEPT !.clean = TRUE]

\* Which state a writer is about to save.
Content(w) == IF w # "main" THEN UpgradeState(w)
              ELSE IF dpc = "once" THEN Started(loaded) ELSE Marked(loaded)

\* Bytes written over those of another writer may leave a tail of them.
Over(old, s) == IF old = Empty THEN {s} ELSE {s, Torn}

OpenState(w) ==
    /\ fd[w] = "none"
    /\ stTmp' = Empty /\ fd' = [fd EXCEPT ![w] = "tmp"]
    /\ UNCHANGED st

WriteState(w) ==
    /\ \/ fd[w] = "tmp" /\ stTmp' \in Over(stTmp, Content(w)) /\ UNCHANGED st
       \/ fd[w] = "state" /\ st' \in Over(st, Content(w)) /\ UNCHANGED stTmp
       \/ fd[w] = "gone" /\ UNCHANGED <<st, stTmp>>
    /\ fd' = [fd EXCEPT ![w] = "done"]

\* What becomes of the open files of those who save when StatePath.tmp gets the
\* name of StatePath, and when StatePath is removed.
Renamed == [w \in Writers |-> CASE fd[w] = "tmp" -> "state" [] fd[w] = "state" -> "gone"
                                [] OTHER -> fd[w]]
Removed == [w \in Writers |-> IF fd[w] = "state" THEN "gone" ELSE fd[w]]

RenameState(w) ==
    /\ fd[w] = "done" /\ stTmp # NoFile
    /\ st' = stTmp /\ stTmp' = NoFile
    /\ fd' = [Renamed EXCEPT ![w] = "none"]

\* Another writer has renamed the file that w has written.
TmpTaken(w) == fd[w] = "done" /\ stTmp = NoFile

\* What a writer that gives up or ends leaves of its save.
Closed(ws) == [w \in Writers |-> IF w \in ws THEN "none" ELSE fd[w]]

\* replaceFile when os.Rename fails with an error it retries on (EPERM, ...):
\* the target is removed before the second try.
UnlinkState(w) ==
    /\ fd[w] = "done"
    /\ st' = NoFile /\ fd' = Removed
    /\ UNCHANGED stTmp

\* main gives up a state it has written, which the command may yet publish.
CutsShort == dpc = "once" /\ fd["main"] = "done" /\ \E u \in Upgraders \ {"daemon"} : fd[u] # "none"

-----------------------------------------------------------------------------
(* CheckAndUpgrade, for an upgrader u.                                     *)

\* The daemon's upgrade goroutine lives until the process ends; its requests
\* do not outlive the run context.
Alive(u) == u = "cli" \/ dpc \in {"running", "mark", "marksave", "exit"}
Online(u) == u = "cli" \/ dpc = "running"

UpgradeStep(u, from, to) ==
    /\ Alive(u) /\ upc[u] = from
    /\ upc' = [upc EXCEPT ![u] = to]

\* The CLI runs the installed binary; a broken or missing one does not run.
StartCLI ==
    /\ UpgradeStep("cli", "idle", "fetch")
    /\ bin \in Builds
    /\ build' = [build EXCEPT !["cli"] = bin]
    /\ UNCHANGED <<disk, published, main, rel, history, bounds>>

\* The daemon's upgrade ticker.  It first fires CheckInterval, an hour or
\* more, after the start: the rollback window of ten seconds is over.
StartCheck ==
    /\ dpc = "running" /\ "daemon" \in Upgraders
    /\ ~InWindow
    /\ UpgradeStep("daemon", "idle", "fetch")
    /\ UNCHANGED <<disk, published, main, build, rel, history, bounds>>

\* needsUpgrade: a newer version, or the same version with other bytes than
\* the installed ones; a missing binary has no checksum, which is an error.
NeedsUpgrade(u, release) ==
    \/ VersionOf[release] > VersionOf[build[u]]
    \/ VersionOf[release] = VersionOf[build[u]] /\ bin \notin {release, NoFile}

FetchLatest(u) ==
    /\ Online(u)
    /\ UpgradeStep(u, "fetch", IF NeedsUpgrade(u, published) THEN "download" ELSE "idle")
    /\ rel' = [rel EXCEPT ![u] = published]
    /\ UNCHANGED <<disk, published, main, build, history, bounds>>

\* downloadToFile: the bytes of the release, or whatever the server sent.
Download(u) ==
    /\ Online(u)
    /\ UpgradeStep(u, "download", "verify")
    /\ new' \in {rel[u], Corrupt}
    /\ UNCHANGED <<bin, bak, bakTmp, saves, published, main, build, rel, history, bounds>>

BuggyChecksumMatches(u) == new # NoFile

\* fileSHA256 of the download against the checksum of the release.
ChecksumMatches(u) == new = rel[u]

Verify(u) ==
    /\ UpgradeStep(u, "verify", IF ChecksumMatches(u) THEN "copy" ELSE "idle")
    /\ UNCHANGED <<disk, published, main, build, rel, history, bounds>>

\* copyFile(BinaryPath, BackupPath): the copy, and its rename.  Where another
\* upgrader is at its copy, half of that one may be what is renamed.
CopyBinary(u) ==
    /\ UpgradeStep(u, "copy", "backup")
    /\ bin # NoFile
    /\ bakTmp' = bin
    /\ UNCHANGED <<bin, new, bak, saves, published, main, build, rel, history, bounds>>

BuggyBackup(u) ==
    /\ UpgradeStep(u, "backup", "save")
    /\ bak' = (IF bak = NoFile THEN bakTmp ELSE bak) /\ bakTmp' = NoFile
    /\ UNCHANGED <<bin, new, saves, published, main, build, rel, history, bounds>>

Backup(u) ==
    /\ UpgradeStep(u, "backup", "save")
    /\ bakTmp # NoFile
    /\ \/ bak' = bakTmp
       \/ bak' = Corrupt /\ \E v \in Upgraders \ {u} : upc[v] = "copy"
    /\ bakTmp' = NoFile
    /\ UNCHANGED <<bin, new, saves, published, main, build, rel, history, bounds>>

SaveState(u) ==
    /\ Alive(u) /\ upc[u] = "save"
    /\ \/ (OpenState(u) \/ WriteState(u)) /\ UNCHANGED upc
       \/ RenameState(u) /\ upc' = [upc EXCEPT ![u] = "replace"]
    /\ UNCHANGED <<files, published, main, build, rel, history, bounds>>

\* replaceFile(TempBinaryPath, BinaryPath), then os.Chmod.  The daemon then
\* asks main for a restart, unless the chmod failed: the build is installed,
\* but the error returns and main runs on.
Replace(u) ==
    /\ Alive(u) /\ upc[u] = "replace" /\ new # NoFile
    /\ bin' = new /\ new' = NoFile /\ fresh' = TRUE
    /\ \/ /\ upc' = [upc EXCEPT ![u] = IF u = "daemon" THEN "applied" ELSE "idle"]
          /\ UNCHANGED <<unannounced, failures>>
       \/ /\ upc' = [upc EXCEPT ![u] = "idle"]
          /\ unannounced' = unannounced \cup {new}
          /\ Fail
    /\ UNCHANGED <<bak, bakTmp, saves, published, main, build, rel, removed, crossed, crashes,
                   windows>>

\* The first rename of a replaceFile fails and its target is removed.
RemoveTarget(u) ==
    /\ Alive(u) /\ Fail /\ removed' = TRUE
    /\ \/ upc[u] = "backup" /\ bak' = NoFile /\ UNCHANGED <<bin, saves, fresh>>
       \/ upc[u] = "save" /\ UnlinkState(u) /\ UNCHANGED <<bin, bak, fresh>>
       \/ upc[u] = "replace" /\ bin' = NoFile /\ fresh' = FALSE /\ UNCHANGED <<bak, saves>>
    /\ UNCHANGED <<new, bakTmp, published, main, build, upc, rel, unannounced, crossed,
                   crashes, windows>>

\* Somebody else has taken away the file that the next operation needs.
Missing(u) ==
    \/ upc[u] = "copy" /\ bin = NoFile
    \/ upc[u] = "backup" /\ bakTmp = NoFile
    \/ upc[u] = "save" /\ TmpTaken(u)
    \/ upc[u] = "replace" /\ new = NoFile

\* A request, a file operation or the CLI process fails: the error returns
\* and what has been done stays.
Abandon(u) ==
    /\ upc[u] \notin {"idle", "applied"}
    /\ UpgradeStep(u, upc[u], "idle")
    /\ Fail \/ (Missing(u) /\ UNCHANGED failures)
    /\ fd' = Closed({u})
    /\ UNCHANGED <<files, st, stTmp, published, main, build, rel, history, crashes, windows>>

CheckAndUpgrade(u) == \/ FetchLatest(u) \/ Download(u) \/ Verify(u) \/ CopyBinary(u)
                      \/ Backup(u) \/ SaveState(u) \/ Replace(u) \/ RemoveTarget(u)
                      \/ Abandon(u)

-----------------------------------------------------------------------------
(* The daemon's main goroutine.                                            *)

\* A process image of the installed binary, started or exec'd.
RunBinary ==
    /\ build' = [build EXCEPT !["daemon"] = IF bin \in Builds THEN bin ELSE @]
    /\ dpc' = IF bin \in Builds THEN "load" ELSE "down"
    /\ upc' = [upc EXCEPT !["daemon"] = "idle"]
    /\ fd' = Closed({"daemon", "main"})
    /\ checked' = FALSE /\ loaded' = NoFile

Boot ==
    /\ dpc = "down" /\ bin \in Builds
    /\ RunBinary
    /\ UNCHANGED <<files, st, stTmp, published, rel, lastExit, history, bounds>>

\* What HandleStartup makes of the state it finds; without one, or with one
\* that it cannot read, the daemon runs.
BuggyVerdict(state, b) ==
    IF state \notin States THEN "running"
    ELSE IF ~About(state, b) THEN "clear"
    ELSE IF ~state.once THEN "once"
    ELSE IF state.recent THEN "rollback"
    ELSE "finish"

InvertedVerdict(state, b) ==
    IF state \notin States THEN "running"
    ELSE IF ~About(state, b) THEN "clear"
    ELSE IF ~state.once THEN "once"
    ELSE IF state.clean THEN "finish"
    ELSE IF ~state.recent THEN "rollback"
    ELSE "finish"

Verdict(state, b) ==
    IF state \notin States THEN "running"
    ELSE IF ~About(state, b) THEN "clear"
    ELSE IF ~state.once THEN "once"
    ELSE IF state.clean THEN "finish"
    ELSE IF state.recent THEN "rollback"
    ELSE "finish"

\* A state that cannot be read is an error: startupChecked stays false.
LoadState ==
    /\ dpc = "load"
    /\ loaded' = IF st \in States THEN st ELSE NoFile
    /\ dpc' = Verdict(st, build["daemon"])
    /\ checked' = (st \in States \cup {NoFile})
    /\ fresh' = (fresh /\ bin # build["daemon"])
    /\ UNCHANGED <<disk, published, lastExit, build, upc, rel, unannounced, removed, crossed,
                   bounds>>

MarkStarted ==
    /\ dpc = "once"
    /\ \/ (OpenState("main") \/ WriteState("main")) /\ UNCHANGED dpc
       \/ RenameState("main") /\ dpc' = "running"
    /\ UNCHANGED <<files, published, checked, loaded, lastExit, build, upc, rel, history,
                   bounds>>

\* clearState, alone or before the backup is removed.  Its error is ignored.
ClearState ==
    /\ dpc \in {"clear", "finish", "undo"}
    /\ \/ st' = NoFile /\ fd' = Removed /\ UNCHANGED failures
       \/ Fail /\ UNCHANGED <<st, fd>>
    /\ dpc' = CASE dpc = "clear" -> "running"
                [] dpc = "finish" -> "unback"
                [] dpc = "undo" -> "restart"
    /\ UNCHANGED <<files, stTmp, published, checked, loaded, lastExit, build, upc, rel,
                   history, crashes, windows>>

RemoveBackup ==
    /\ dpc = "unback"
    /\ bak' = NoFile
    /\ dpc' = "running"
    /\ UNCHANGED <<bin, new, bakTmp, saves, published, checked, loaded, lastExit, build, upc,
                   rel, history, bounds>>

CommandBusy == \E u \in Upgraders \ {"daemon"} : upc[u] # "idle"

\* replaceFile(BackupPath, BinaryPath)
Rollback ==
    /\ dpc = "rollback" /\ bak # NoFile
    /\ crossed' = (crossed \/ CommandBusy)
    /\ bin' = bak /\ bak' = NoFile /\ fresh' = FALSE
    /\ dpc' = "undo"
    /\ UNCHANGED <<new, bakTmp, saves, published, checked, loaded, lastExit, build, upc, rel,
                   unannounced, removed, bounds>>

\* The first rename of main's replaceFile fails and its target is removed.
MainRemovesTarget ==
    /\ Fail /\ removed' = TRUE
    /\ \/ /\ dpc = "rollback" /\ bak # NoFile
          /\ bin' = NoFile /\ fresh' = FALSE /\ crossed' = (crossed \/ CommandBusy)
          /\ UNCHANGED saves
       \/ /\ dpc \in {"once", "marksave"} /\ UnlinkState("main")
          /\ UNCHANGED <<bin, fresh, crossed>>
    /\ UNCHANGED <<new, bak, bakTmp, published, main, build, upc, rel, unannounced, crashes,
                   windows>>

\* HandleStartup returns an error: no backup, or a failed file operation.
\* The daemon runs on with startupChecked false.
StartupFails ==
    /\ \/ dpc = "rollback" /\ bak = NoFile /\ UNCHANGED failures
       \/ dpc = "once" /\ TmpTaken("main") /\ UNCHANGED failures
       \/ dpc \in {"load", "once", "rollback"} /\ Fail
    /\ dpc' = "running" /\ checked' = FALSE
    /\ fd' = Closed({"main"})
    /\ fresh' = (fresh /\ bin # build["daemon"])
    /\ crossed' = (crossed \/ CutsShort)
    /\ UNCHANGED <<files, st, stTmp, published, loaded, lastExit, build, upc, rel,
                   unannounced, removed, crashes, windows>>

\* restartProcess, after a rollback or an applied upgrade: exec of the binary,
\* past MarkCleanShutdown.
Restart ==
    /\ \/ dpc = "restart"
       \/ dpc = "running" /\ upc["daemon"] = "applied"
    /\ RunBinary
    /\ lastExit' = "exec"
    /\ UNCHANGED <<files, st, stTmp, published, rel, history, bounds>>

\* SIGTERM: the client returns.  The upgrade goroutine is not waited for.
Terminate ==
    /\ dpc = "running" /\ upc["daemon"] # "applied"
    /\ StopMidUpgrade \/ upc["daemon"] = "idle"
    /\ build["daemon"] \notin BadBuilds
    /\ dpc' = IF checked THEN "mark" ELSE "exit"
    /\ UNCHANGED <<disk, published, checked, loaded, lastExit, build, upc, rel, history,
                   bounds>>

\* MarkCleanShutdown reads the state, and writes it back unless there is
\* nothing to mark; one that it cannot read is an error.
MarkLoad ==
    /\ dpc = "mark"
    /\ loaded' = IF st \in States THEN st ELSE NoFile
    /\ dpc' = IF st \in States /\ st.once /\ About(st, build["daemon"]) /\ ~st.clean
                THEN "marksave" ELSE "exit"
    /\ checked' = (st \in States \cup {NoFile})
    /\ UNCHANGED <<disk, published, lastExit, build, upc, rel, history, bounds>>

MarkSave ==
    /\ dpc = "marksave"
    /\ \/ (OpenState("main") \/ WriteState("main")) /\ UNCHANGED dpc
       \/ RenameState("main") /\ dpc' = "exit"
    /\ UNCHANGED <<files, published, checked, loaded, lastExit, build, upc, rel, history,
                   bounds>>

\* The error of MarkCleanShutdown is only shown in the status.
MarkFails ==
    /\ \/ dpc = "marksave" /\ TmpTaken("main") /\ UNCHANGED failures
       \/ dpc \in {"mark", "marksave"} /\ Fail
    /\ dpc' = "exit" /\ checked' = FALSE
    /\ fd' = Closed({"main"})
    /\ UNCHANGED <<files, st, stTmp, published, loaded, lastExit, build, upc, rel, history,
                   crashes, windows>>

\* The process ends and its upgrade goroutine with it.
Down(how) ==
    /\ dpc' = "down" /\ lastExit' = how
    /\ checked' = FALSE /\ loaded' = NoFile
    /\ upc' = [upc EXCEPT !["daemon"] = "idle"]
    /\ fd' = Closed({"daemon", "main"})
    /\ crossed' = (crossed \/ CutsShort)
    /\ UNCHANGED <<files, st, stTmp, published, build, rel, fresh, unannounced, removed,
                   failures, windows>>

Exit ==
    /\ dpc = "exit"
    /\ Down(IF checked THEN "clean" ELSE "unmarked")
    /\ UNCHANGED crashes

\* A bad build crashes once it runs; any build may be killed anywhere.
Crash ==
    /\ dpc # "down"
    /\ Down("crash")
    /\ \/ dpc = "running" /\ build["daemon"] \in BadBuilds /\ UNCHANGED crashes
       \/ crashes < MaxCrashes /\ crashes' = crashes + 1

-----------------------------------------------------------------------------

HandleStartup == LoadState \/ MarkStarted \/ ClearState \/ RemoveBackup \/ Rollback
                     \/ StartupFails

Daemon == \/ Boot \/ HandleStartup \/ MainRemovesTarget \/ Restart
          \/ Terminate \/ MarkLoad \/ MarkSave \/ MarkFails \/ Exit

Next == \/ Daemon \/ Crash
        \/ StartCheck
        \/ /\ "cli" \in Upgraders
           /\ StartCLI
        \/ \E u \in Upgraders : CheckAndUpgrade(u)
        \/ Publish \/ WindowPasses

Spec == Init /\ [][Next]_vars

\* The service manager restarts a daemon that ended (Restart=always,
\* KeepAlive); the process runs on; a bad build does crash.
BadCrash == dpc = "running" /\ build["daemon"] \in BadBuilds /\ Crash
Fairness == WF_vars(Boot) /\ WF_vars(HandleStartup) /\ WF_vars(Restart)
            /\ WF_vars(Exit) /\ WF_vars(MarkLoad) /\ WF_vars(MarkSave)
            /\ SF_vars(BadCrash)
FairSpec == Spec /\ Fairness

-----------------------------------------------------------------------------
(* Properties.                                                             *)

TypeOK ==
    /\ {bin, new, bak, bakTmp} \subseteq MaybeFile
    /\ {st, stTmp} \subseteq StateFiles /\ loaded \in States \cup {NoFile}
    /\ fd \in [Writers -> {"none", "tmp", "state", "gone", "done"}]
    /\ published \in Builds
    /\ dpc \in {"down", "load", "once", "clear", "finish", "unback", "rollback", "undo",
                "restart", "running", "mark", "marksave", "exit"}
    /\ build \in [Processes -> Builds]
    /\ {checked, fresh, removed, crossed} \subseteq BOOLEAN /\ unannounced \subseteq Contents
    /\ upc \in [Processes -> {"idle", "fetch", "download", "verify", "copy", "backup", "save",
                             "replace", "applied"}]
    /\ rel \in [Processes -> Builds]
    /\ lastExit \in {"none", "exec", "clean", "unmarked", "crash"}
    /\ crashes \in 0 .. MaxCrashes /\ failures \in 0 .. MaxFailures
    /\ windows \in 0 .. MaxWindows

\* What is installed is always a published build: what was downloaded is
\* installed only after its checksum matched, whatever crashes or fails in
\* between (manager.go:152-181; manager_test.go:125-128).  Only where a rename
\* failed and replaceFile removed its target (manager.go:375-378) may there be
\* no binary at all.
InstalledVerified == bin \in Builds \/ (bin = NoFile /\ removed)

\* A build that was just installed is on probation before a daemon can start
\* it: the state names its version and has not been started, and the build it
\* replaced is in the backup (manager.go:163-176).  Where the chmod after the
\* rename failed (manager.go:179-181) the next upgrade may end the probation.
InstalledOnProbation ==
    fresh /\ bin \notin unannounced =>
        /\ st \in States /\ st.to = VersionOf[bin] /\ ~st.once
        /\ bak \in Builds

\* A daemon that stopped cleanly is not taken for a crashed one: the next
\* start does not roll its build back (manager.go:115-119, 261-280), although
\* the command and the daemon save their states in the same temporary file.
\* Not claimed is what follows where the two have crossed: a rollback in the
\* middle of the command's upgrade, or a daemon that ended between its write
\* and its rename and whose record the command then published.
NoRollbackAfterCleanStop == dpc = "rollback" /\ lastExit = "clean" => crossed

\* What a rollback installs is the version the upgrade came from
\* (manager_test.go:179-194).  Only where a file operation has failed may it
\* be the running build once more, as a state that no start could clear or
\* mark outlives the backup, which the next upgrade replaces before it stops
\* half-way; or a build whose installation ended with a failed chmod, as the
\* daemon that runs on backs it up under its own version.
RollbackRestoresPrevious ==
    dpc = "rollback" /\ bak \in Builds =>
        \/ VersionOf[bak] = loaded.from
        \/ failures > 0 /\ bak = build["daemon"]
        \/ bak \in unannounced

\* A bad build does not stay installed: it is started, marked, it crashes, and
\* the start after that, while the rollback window is open, puts the backup
\* back, whatever crashes or fails on the way (manager.go:109-127).  Two
\* failures are not survived: the chmod of the new build, after which nothing
\* starts it and the next upgrade backs it up, and a rename of the state whose
\* target replaceFile then removes.
BadBuildTakenBack ==
    bin \in BadBuilds /\ bin \notin unannounced ~> bin \notin BadBuilds \/ removed

-----------------------------------------------------------------------------
(* What these properties need to be inductive.                             *)

\* main acts on a state only where it has read one, and a save is under way
\* only where its writer is at it.
LoadedPresent == dpc \in {"once", "rollback", "marksave"} => loaded \in States
SavesOwned ==
    /\ dpc \notin {"once", "marksave"} => fd["main"] = "none"
    /\ \A u \in Processes : upc[u] # "save" => fd[u] = "none"

\* A start of build b would roll back.
Armed(s) == s \in States /\ s.once /\ ~s.clean /\ s.recent
ArmedFor(b) == b \in Builds /\ Armed(st) /\ About(st, b)

-----------------------------------------------------------------------------
(* Where only the daemon upgrades.                                         *)

\* A download that passed verification stays as it is until it is installed,
\* and only installed builds are backed up.
Verified ==
    /\ upc["daemon"] \in {"copy", "backup", "save", "replace"} => new = rel["daemon"]
    /\ Corrupt \notin {bak, bakTmp}

\* The upgrade goroutine lives while Run does, and main runs the installed
\* build unless that has just been replaced or removed.
Phases ==
    /\ ~Alive("daemon") => upc["daemon"] = "idle"
    /\ dpc \in {"load", "once", "clear", "finish", "unback"} => build["daemon"] = bin
    /\ dpc = "rollback" => bin \in {build["daemon"], NoFile}
    /\ Alive("daemon") /\ upc["daemon"] # "applied" =>
         bin \in {build["daemon"], NoFile} \cup unannounced
    /\ unannounced # {} \/ removed => failures > 0

\* No upgrade is under way in the rollback window, and none is left behind.
Quiet == ~InWindow /\ (dpc = "marksave" => ~loaded.recent)
WindowQuiet ==
    upc["daemon"] # "idle" \/ (Alive("daemon") /\ bin \notin {build["daemon"], NoFile}) => Quiet

\* main at a start, and the upgrade goroutine of a daemon that is not being
\* stopped, have the temporary file for themselves.
SaveAlone ==
    /\ dpc = "once" =>
         /\ fd["main"] \in {"none", "tmp", "done"}
         /\ fd["main"] = "tmp" => stTmp = Empty
         /\ fd["main"] = "done" => stTmp \in States /\ stTmp.once /\ ~stTmp.clean
                                   /\ stTmp.from = loaded.from
    /\ dpc = "running" =>
         /\ fd["daemon"] \in {"none", "tmp", "done"}
         /\ fd["daemon"] = "tmp" => stTmp = Empty
         /\ fd["daemon"] = "done" => stTmp = UpgradeState("daemon")

\* A state that is marked beside no upgrade gets its mark.
MarkAlone ==
    /\ upc["daemon"] = "idle"
    /\ fd["main"] \in {"none", "tmp", "done"}
    /\ fd["main"] = "tmp" => stTmp = Empty
    /\ fd["main"] = "done" => stTmp \in States /\ stTmp.clean

\* What a clean stop leaves is not read as a crash.
CleanStop ==
    /\ dpc = "marksave" => Quiet \/ MarkAlone
    /\ dpc = "exit" /\ checked => ~ArmedFor(bin)
    /\ lastExit = "clean" /\ dpc \in {"down", "load"} => ~ArmedFor(bin)
    /\ dpc = "rollback" => lastExit # "clean"
    /\ ~crossed

DaemonInv == /\ TypeOK /\ LoadedPresent /\ SavesOwned /\ InstalledVerified /\ Verified
             /\ Phases /\ WindowQuiet /\ SaveAlone /\ CleanStop

\* An upgrade that no SIGTERM interrupts prepares the probation before it
\* installs, and nothing but a start of the new build ends it.
Probation ==
    /\ dpc # "running" => upc["daemon"] = "idle"
    /\ upc["daemon"] \in {"save", "replace"} => bak \in Builds
    /\ upc["daemon"] = "replace" => st = UpgradeState("daemon")
    /\ fresh /\ bin \notin unannounced => dpc \in {"down", "load"} \/ upc["daemon"] = "applied"
    /\ InstalledOnProbation

\* The backup is what the upgrade of this state replaced.
FromBackup(s) == bak # NoFile => VersionOf[bak] = s.from

\* It is the installed build, of which the next upgrade has already made one,
\* or one whose installation was not announced.
OddBackup == bak = bin \/ bin = NoFile \/ bak \in unannounced

Kept(s) == s \in States => /\ s.clean => s.once
                           /\ ~s.clean => FromBackup(s) \/ OddBackup

\* What the upgrade under way saves, or a mark of main's beside it.
FromHere(s) == s \in States /\ ~s.clean => s.from = VersionOf[build["daemon"]]

BackupKept ==
    /\ Kept(st)
    /\ fd["main"] # "none" \/ fd["daemon"] # "none" => Kept(stTmp)
    /\ dpc = "marksave" => loaded.once
    /\ dpc \in {"once", "rollback"} =>
         FromBackup(loaded) \/ bak \in {build["daemon"]} \cup unannounced
    /\ upc["daemon"] = "backup" => bakTmp = bin
    /\ upc["daemon"] \in {"save", "replace"} =>
         bin \in {bak, NoFile} /\ bak \in {build["daemon"]} \cup unannounced
    /\ fd["daemon"] # "none" => FromHere(stTmp)
    /\ upc["daemon"] = "replace" => FromHere(st) /\ FromHere(stTmp)

\* A state that a start will mark, or roll back on, has its backup.
Pending(s) == s \in States /\ (~s.once \/ (s.recent /\ ~s.clean))

\* While nothing has failed, no state outlives its backup: an upgrade starts
\* only behind the rollback window of the last one.
NothingOutlives ==
    /\ Pending(st) => FromBackup(st)
    /\ (fd["main"] # "none" \/ fd["daemon"] # "none") /\ Pending(stTmp) => FromBackup(stTmp)
    /\ dpc \in {"once", "rollback"} => FromBackup(loaded)
    /\ dpc = "rollback" /\ st \in States => st.once
    /\ dpc = "unback" => st \notin States
    /\ dpc = "running" /\ upc["daemon"] = "idle" /\ st \in States => st.once
    /\ upc["daemon"] \in {"fetch", "download", "verify", "copy", "backup"} =>
         /\ ~Pending(st) /\ (st \in States => st.once)
         /\ fd["main"] # "none" /\ stTmp \in States => stTmp.once /\ stTmp.clean
    /\ dpc = "running" /\ upc["daemon"] = "save" /\ st \in States => st.once

BackupInv == BackupKept /\ (failures = 0 => NothingOutlives)

-----------------------------------------------------------------------------
(* Where only the command upgrades, and the two have not crossed.           *)

\* A main goroutine that runs an image of its own, not one about to change.
Up == dpc \notin {"down", "undo", "restart"}

\* The command installs what it has verified.
CommandVerified ==
    /\ upc["cli"] \in {"copy", "backup", "save", "replace"} => new = rel["cli"]
    /\ Corrupt \notin {bak, bakTmp}
    /\ upc["cli"] # "applied" /\ upc["daemon"] = "idle"

\* Versions only go up, but for a rollback, which the daemon does itself.
NotAbove(x, b) == x \in Builds => VersionOf[x] <= VersionOf[b]
Ascending ==
    /\ bin \in Builds => NotAbove(bak, bin)
    /\ upc["cli"] = "backup" => bakTmp = bin
    /\ Up /\ bin \in Builds => NotAbove(build["daemon"], bin)
    /\ upc["cli"] # "idle" =>
         /\ NotAbove(bin, build["cli"]) /\ NotAbove(bak, build["cli"])
         /\ Up => NotAbove(build["daemon"], build["cli"])
    /\ upc["cli"] \notin {"idle", "fetch"} => NotAbove(build["cli"], rel["cli"])

\* An armed state in the temporary file is the one main has just written.
ArmedTmp ==
    Armed(stTmp) /\ (fd["main"] # "none" \/ fd["cli"] # "none") =>
        dpc = "once" /\ fd["main"] = "done" /\ About(stTmp, build["daemon"])

\* A state that is armed for the installed build, or for one that is about to
\* be installed, is about the daemon that runs, which will mark it.
ArmedForDaemon ==
    /\ dpc = "once" => About(loaded, build["daemon"])
    /\ Up /\ ArmedFor(bin) => VersionOf[build["daemon"]] = VersionOf[bin]
    /\ upc["cli"] = "replace" /\ ArmedFor(rel["cli"]) =>
         /\ bin \in Builds => VersionOf[bin] = VersionOf[rel["cli"]]
         /\ Up => VersionOf[build["daemon"]] = VersionOf[rel["cli"]]

\* What a clean stop leaves is armed for no build that is or gets installed.
Disarmed ==
    /\ (dpc = "exit" /\ checked) \/ (dpc = "down" /\ lastExit = "clean") =>
         ~ArmedFor(bin) /\ (upc["cli"] = "replace" => ~ArmedFor(rel["cli"]))
    /\ dpc = "load" /\ lastExit = "clean" => ~ArmedFor(build["daemon"])
    /\ dpc = "rollback" => lastExit # "clean"

CommandInv == /\ TypeOK /\ LoadedPresent /\ SavesOwned /\ InstalledVerified /\ CommandVerified
              /\ crossed \/ (Ascending /\ ArmedTmp /\ ArmedForDaemon /\ Disarmed)

=============================================================================
