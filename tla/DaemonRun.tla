------------------------------ MODULE DaemonRun ------------------------------
(***************************************************************************)
(* The daemon process from the inside: Run (internal/daemon/service.go)    *)
(* and its three goroutines.  The main one runs the websocket client,      *)
(* whose hooks publish the status; the ticker publishes it at intervals;   *)
(* the upgrader asks for a newer build and, when it has installed one,     *)
(* has the process replaced by it.  They share the status, its mutex, the  *)
(* metrics, runCtx and the upgradeRequested flag.                          *)
(*                                                                         *)
(* Lifecycle has many processes and one thread each; this module has one   *)
(* process, its threads, its signals and the images that exec puts in it.  *)
(* What an upgrade does to the files is the subject of Upgrade, what the   *)
(* client does between two hooks that of WSClient.                         *)
(***************************************************************************)
EXTENDS Integers

CONSTANTS
    AutoUpgrade,  \* the configuration leaves automatic upgrades on
    MaxJobs,      \* bound: jobs that an image counts
    MaxImages,    \* bound: images that exec puts in the process
    MaxFailures,  \* bound: status files that cannot be written
    NoOne, NoFile \* nobody holds the mutex; no such file

ASSUME DaemonRunAssumption ==
    /\ AutoUpgrade \in BOOLEAN
    /\ MaxJobs \in Nat /\ MaxImages \in Nat /\ MaxFailures \in Nat
    /\ NoOne \notin {"main", "ticker", "upgrader"}

Goroutines == {"main", "ticker", "upgrader"}

\* RuntimeStatus: its StartedAt is told by the image, the counter jobs stands
\* for all that Snapshot copies, and the other fields are left out.
RuntimeStatus == [started : Nat, running : BOOLEAN, jobs : Nat]

ASSUME NoFileAssumption == NoFile \notin RuntimeStatus

VARIABLES
    main, ticker, upgrader, \* where each goroutine is
    upd, snap,       \* how far its updateStatus is, and its snapshot
    final,           \* main writes the status for the last time
    lock,            \* statusMu
    status, metrics, \* in memory
    statusFile, tmpFile, pidFile,
    term,            \* SIGTERM has cancelled the context of main
    runCancelled,    \* runCancel has been called
    upgradeRequested,
    checked,         \* startupChecked
    runErr,          \* the client panicked
    image, failures

control == <<main, ticker, upgrader>>
update == <<upd, snap, lock, final>>
files == <<statusFile, tmpFile>>
flags == <<runCancelled, upgradeRequested, checked, runErr>>
vars == <<control, update, status, metrics, files, pidFile, term, flags, image, failures>>

RunDone == term \/ runCancelled

\* Goroutines run from the moment Run starts until the process ends.
Alive == main \notin {"exec", "gone"}

Started(n) == [started |-> n, running |-> TRUE, jobs |-> 0]

FreshImage ==
    /\ main' = "exec" /\ ticker' = "none" /\ upgrader' = "none"
    /\ upd' = [g \in Goroutines |-> "none"]
    /\ snap' = [g \in Goroutines |-> 0]
    /\ lock' = NoOne /\ final' = FALSE
    /\ metrics' = 0
    /\ term' = FALSE
    /\ runCancelled' = FALSE /\ upgradeRequested' = FALSE
    /\ checked' = FALSE /\ runErr' = FALSE

Init ==
    /\ main = "exec" /\ ticker = "none" /\ upgrader = "none"
    /\ upd = [g \in Goroutines |-> "none"]
    /\ snap = [g \in Goroutines |-> 0]
    /\ lock = NoOne /\ final = FALSE
    /\ status = Started(0) /\ metrics = 0
    /\ statusFile = NoFile /\ tmpFile = NoFile /\ pidFile = FALSE
    /\ term = FALSE
    /\ runCancelled = FALSE /\ upgradeRequested = FALSE
    /\ checked = FALSE /\ runErr = FALSE
    /\ image = 0 /\ failures = 0

-----------------------------------------------------------------------------
(* updateStatus, called by goroutine g, which goes on when it has returned, *)
(* that is when upd[g] = "none".  The fields that the callers set are not  *)
(* modelled.                                                               *)

Free(g) == Alive /\ upd[g] = "none"

UpdateStatus(g) ==
    /\ upd' = [upd EXCEPT ![g] = "want"]
    /\ UNCHANGED <<snap, lock, final, status, files, failures>>

\* The deferred Unlock.
Returns(g) ==
    /\ upd' = [upd EXCEPT ![g] = "none"]
    /\ snap' = [snap EXCEPT ![g] = 0]
    /\ lock' = NoOne

CallsNothing == UNCHANGED <<update, status, files, failures>>

\* updateStatus sets Running, as if it were called for a running daemon only.
BuggyRunning(g) ==
    /\ Alive /\ upd[g] = "want" /\ lock = NoOne
    /\ lock' = g
    /\ IF g = "main" /\ final
         THEN /\ upd' = [upd EXCEPT ![g] = "snapped"]
              /\ snap' = [snap EXCEPT ![g] = status.jobs]
              /\ status' = [status EXCEPT !.running = FALSE]
         ELSE /\ upd' = [upd EXCEPT ![g] = "locked"]
              /\ status' = [status EXCEPT !.running = TRUE] /\ UNCHANGED snap
    /\ UNCHANGED <<control, final, metrics, files, pidFile, term, flags, image, failures>>

\* The last write of Run sets Running under the mutex, without a snapshot.
Lock(g) ==
    /\ Alive /\ upd[g] = "want" /\ lock = NoOne
    /\ lock' = g
    /\ IF g = "main" /\ final
         THEN /\ upd' = [upd EXCEPT ![g] = "snapped"]
              /\ snap' = [snap EXCEPT ![g] = status.jobs]
              /\ status' = [status EXCEPT !.running = FALSE]
         ELSE upd' = [upd EXCEPT ![g] = "locked"] /\ UNCHANGED <<snap, status>>
    /\ UNCHANGED <<control, final, metrics, files, pidFile, term, flags, image, failures>>

\* The mutex is released before the file is written.
BuggyUnlock(g) ==
    /\ Alive /\ upd[g] = "locked"
    /\ upd' = [upd EXCEPT ![g] = "snapped"]
    /\ snap' = [snap EXCEPT ![g] = metrics]
    /\ lock' = NoOne
    /\ UNCHANGED <<control, final, status, metrics, files, pidFile, term, flags, image, failures>>

\* The job being served is taken off the count.
BuggySnapshot(g) ==
    /\ Alive /\ upd[g] = "locked"
    /\ upd' = [upd EXCEPT ![g] = "snapped"]
    /\ snap' = [snap EXCEPT ![g] = metrics - 1]
    /\ UNCHANGED <<control, lock, final, status, metrics, files, pidFile, term, flags, image,
                   failures>>

Snapshot(g) ==
    /\ Alive /\ upd[g] = "locked"
    /\ upd' = [upd EXCEPT ![g] = "snapped"]
    /\ snap' = [snap EXCEPT ![g] = metrics]
    /\ UNCHANGED <<control, lock, final, status, metrics, files, pidFile, term, flags, image,
                   failures>>

\* writeStatus, up to the temporary file.
WriteTmp(g) ==
    /\ Alive /\ upd[g] = "snapped"
    /\ upd' = [upd EXCEPT ![g] = "written"]
    /\ status' = [status EXCEPT !.jobs = snap[g]]
    /\ tmpFile' = status'
    /\ UNCHANGED <<control, snap, lock, final, metrics, statusFile, pidFile, term, flags, image,
                   failures>>

\* Its end.
Rename(g) ==
    /\ Alive /\ upd[g] = "written" /\ tmpFile # NoFile
    /\ statusFile' = tmpFile /\ tmpFile' = NoFile
    /\ Returns(g)
    /\ UNCHANGED <<control, final, status, metrics, pidFile, term, flags, image, failures>>

\* One of its steps fails.  That ends Run when it was the last write and is
\* a line in the log otherwise.
WriteFails(g) ==
    /\ Alive /\ upd[g] \in {"snapped", "written"} /\ failures < MaxFailures
    /\ failures' = failures + 1
    /\ status' = [status EXCEPT !.jobs = snap[g]]
    /\ Returns(g)
    /\ main' = IF g = "main" /\ final THEN "return" ELSE main
    /\ UNCHANGED <<ticker, upgrader, final, metrics, files, pidFile, term, flags, image>>

Publish(g) == Lock(g) \/ Snapshot(g) \/ WriteTmp(g) \/ Rename(g) \/ WriteFails(g)

-----------------------------------------------------------------------------
(* The main goroutine.                                                     *)

Main(from, to) == main = from /\ upd["main"] = "none" /\ main' = to

Steady == UNCHANGED <<ticker, upgrader, update, status, metrics, files, pidFile, term, flags,
                      image, failures>>

\* signal.NotifyContext: from here on a SIGTERM no longer kills.
Boots == Main("exec", "boot") /\ Steady

WritesPID ==
    /\ Main("boot", "first")
    /\ pidFile' = TRUE
    /\ UNCHANGED <<ticker, upgrader, update, status, metrics, files, term, flags, image, failures>>

\* The first status needs no mutex: there is no other goroutine yet.
FirstStatus ==
    /\ status' = Started(image)
    /\ \/ /\ Main("first", IF AutoUpgrade THEN "check" ELSE "factory")
          /\ statusFile' = status' /\ tmpFile' = NoFile
          /\ UNCHANGED failures
       \/ /\ Main("first", "return")
          /\ failures < MaxFailures /\ failures' = failures + 1
          /\ UNCHANGED files
    /\ UNCHANGED <<ticker, upgrader, update, metrics, pidFile, term, flags, image>>

\* HandleStartup: the build is on probation, is taken back, or its state
\* cannot be read.
HandleStartup ==
    /\ \/ /\ Main("check", "factory")
          /\ checked' = TRUE /\ CallsNothing
       \/ /\ Main("check", "factory")
          /\ UpdateStatus("main") /\ UNCHANGED checked
       \/ /\ Main("check", "restart") /\ image < MaxImages
          /\ UpdateStatus("main") /\ UNCHANGED checked
    /\ UNCHANGED <<ticker, upgrader, metrics, pidFile, term, runCancelled, upgradeRequested,
                   runErr, image>>

\* The client is made, or refused; the other goroutines start with it.
StartClient ==
    /\ \/ /\ Main("factory", "serve")
          /\ ticker' = "wait"
          /\ upgrader' = IF AutoUpgrade THEN "wait" ELSE "none"
       \/ Main("factory", "return") /\ UNCHANGED <<ticker, upgrader>>
    /\ UNCHANGED <<update, status, metrics, files, pidFile, term, flags, image, failures>>

\* OnHeartbeat, OnError, and OnStateChange when it counts nothing.
OtherHook ==
    /\ Main("serve", "serve")
    /\ UpdateStatus("main")
    /\ UNCHANGED <<ticker, upgrader, metrics, pidFile, term, flags, image>>

\* OnJobResult: RecordJob, then updateStatus.  OnStateChange counts
\* connections in the same way.
OnJobResult ==
    /\ Main("serve", "serve")
    /\ metrics < MaxJobs /\ metrics' = metrics + 1
    /\ UpdateStatus("main")
    /\ UNCHANGED <<ticker, upgrader, pidFile, term, flags, image>>

\* client.Run returns when its context is done, and says "stopped", or
\* panics.
ClientReturns ==
    /\ \/ /\ Main("serve", "returned") /\ RunDone
          /\ UpdateStatus("main") /\ UNCHANGED runErr
       \/ /\ Main("serve", "returned")
          /\ runErr' = TRUE /\ CallsNothing
    /\ UNCHANGED <<ticker, upgrader, metrics, pidFile, term, runCancelled, upgradeRequested,
                   checked, image>>

CancelsRun ==
    /\ Main("returned", "join")
    /\ runCancelled' = TRUE
    /\ UNCHANGED <<ticker, upgrader, update, status, metrics, files, pidFile, term,
                   upgradeRequested, checked, runErr, image, failures>>

\* <-tickerDone.  Nobody waits for the upgrader.
JoinsTicker == ticker = "done" /\ Main("join", "decide") /\ Steady

Decides ==
    /\ \/ /\ upgradeRequested
          /\ Main("decide", "restart") /\ CallsNothing
       \/ /\ ~upgradeRequested /\ runErr
          /\ Main("decide", "return") /\ UpdateStatus("main")
       \/ /\ ~upgradeRequested /\ ~runErr
          /\ Main("decide", IF checked THEN "mark" ELSE "final") /\ CallsNothing
    /\ UNCHANGED <<ticker, upgrader, metrics, pidFile, term, flags, image>>

MarkCleanShutdown ==
    /\ Main("mark", "final")
    /\ CallsNothing \/ UpdateStatus("main")
    /\ UNCHANGED <<ticker, upgrader, metrics, pidFile, term, flags, image>>

\* Run leaves the final status to the update that says "stopped".
BuggyFinalStatus ==
    /\ Main("final", "rmpid") /\ CallsNothing
    /\ UNCHANGED <<ticker, upgrader, metrics, pidFile, term, flags, image>>

FinalStatus ==
    /\ Main("final", "rmpid")
    /\ upd' = [upd EXCEPT !["main"] = "want"] /\ final' = TRUE
    /\ UNCHANGED <<snap, lock, status, files, failures>>
    /\ UNCHANGED <<ticker, upgrader, metrics, pidFile, term, flags, image>>

RemovesPID ==
    /\ Main("rmpid", "gone")
    /\ pidFile' = FALSE
    /\ UNCHANGED <<ticker, upgrader, update, status, metrics, files, term, flags, image, failures>>

\* Run returns an error: the process ends and its files stay.
ReturnsError == Main("return", "gone") /\ Steady

\* restartProcess: exec replaces the image in the same process, or fails.
Restarts ==
    \/ /\ Main("restart", "exec") /\ image < MaxImages
       /\ FreshImage /\ image' = image + 1
       /\ UNCHANGED <<status, files, pidFile, failures>>
    \/ /\ Main("restart", "return") /\ Steady

RunMain ==
    \/ Boots \/ WritesPID \/ FirstStatus \/ HandleStartup \/ StartClient \/ OtherHook
    \/ OnJobResult \/ ClientReturns \/ CancelsRun \/ JoinsTicker \/ Decides
    \/ MarkCleanShutdown \/ FinalStatus \/ RemovesPID \/ ReturnsError \/ Restarts

-----------------------------------------------------------------------------
(* The ticker and the upgrader.                                            *)

Tick ==
    /\ Free("ticker") /\ ticker = "wait"
    /\ UpdateStatus("ticker")
    /\ UNCHANGED <<control, metrics, pidFile, term, flags, image>>

\* The ticker listens to the context of main, not to runCtx.
BuggyTickerStops ==
    /\ Free("ticker") /\ ticker = "wait" /\ term
    /\ ticker' = "done"
    /\ UNCHANGED <<main, upgrader, update, status, metrics, files, pidFile, term, flags, image,
                   failures>>

TickerStops ==
    /\ Free("ticker") /\ ticker = "wait" /\ RunDone
    /\ ticker' = "done"
    /\ UNCHANGED <<main, upgrader, update, status, metrics, files, pidFile, term, flags, image,
                   failures>>

Upgrader(from, to) == Free("upgrader") /\ upgrader = from /\ upgrader' = to

Unflagged == UNCHANGED <<main, ticker, metrics, pidFile, term, flags, image>>

ChecksUpgrade == Upgrader("wait", "checking") /\ CallsNothing /\ Unflagged

\* CheckAndUpgrade: nothing newer, an error, or a build installed.  It may
\* still install one after runCtx is cancelled.
UpgradeChecked ==
    /\ \/ Upgrader("checking", "wait") /\ CallsNothing
       \/ Upgrader("checking", "wait") /\ UpdateStatus("upgrader")
       \/ /\ Upgrader("checking", "applied") /\ image < MaxImages
          /\ UpdateStatus("upgrader")
    /\ Unflagged

\* Run is cancelled before the flag is set.
BuggyRequest ==
    /\ Upgrader("applied", "cancel") /\ CallsNothing
    /\ runCancelled' = TRUE
    /\ UNCHANGED <<main, ticker, metrics, pidFile, term, upgradeRequested, checked, runErr, image>>

RequestsUpgrade ==
    /\ Upgrader("applied", "cancel") /\ CallsNothing
    /\ upgradeRequested' = TRUE
    /\ UNCHANGED <<main, ticker, metrics, pidFile, term, runCancelled, checked, runErr, image>>

UpgraderCancelsRun ==
    /\ Upgrader("cancel", "done") /\ CallsNothing
    /\ runCancelled' = TRUE
    /\ UNCHANGED <<main, ticker, metrics, pidFile, term, upgradeRequested, checked, runErr, image>>

UpgraderStops == RunDone /\ Upgrader("wait", "done") /\ CallsNothing /\ Unflagged

-----------------------------------------------------------------------------
\* SIGTERM or SIGINT.  A context is cancelled once; before there is one the
\* signal ends the process.
Signal ==
    /\ main # "gone" /\ ~term
    /\ IF main = "exec" THEN main' = "gone" /\ UNCHANGED term
                        ELSE term' = TRUE /\ UNCHANGED main
    /\ UNCHANGED <<ticker, upgrader, update, status, metrics, files, pidFile, flags, image,
                   failures>>

Next ==
    \/ \E g \in Goroutines : Publish(g)
    \/ RunMain
    \/ Tick \/ TickerStops
    \/ ChecksUpgrade \/ UpgradeChecked \/ RequestsUpgrade \/ UpgraderCancelsRun \/ UpgraderStops
    \/ Signal

Spec == Init /\ [][Next]_vars

\* Go's mutex hands itself over to whoever has waited, a select does not
\* overlook a channel that stays ready, the client returns once its context
\* is done (WSClient.StopsWhenCancelled), and a check for upgrades ends by
\* its timeouts.  Hooks, ticks and signals need not happen.
Fairness ==
    /\ \A g \in Goroutines : SF_vars(Lock(g)) /\ WF_vars(Publish(g))
    /\ WF_vars(Boots \/ WritesPID \/ FirstStatus \/ HandleStartup \/ StartClient)
    /\ SF_vars(RunDone /\ ClientReturns)
    /\ WF_vars(CancelsRun \/ JoinsTicker \/ Decides \/ MarkCleanShutdown \/ FinalStatus
                 \/ RemovesPID \/ ReturnsError \/ Restarts)
    /\ SF_vars(TickerStops)
    /\ WF_vars(UpgradeChecked \/ RequestsUpgrade \/ UpgraderCancelsRun)

FairSpec == Spec /\ Fairness

-----------------------------------------------------------------------------
TypeOK ==
    /\ main \in {"exec", "boot", "first", "check", "factory", "serve", "returned", "join",
                 "decide", "mark", "final", "rmpid", "restart", "return", "gone"}
    /\ ticker \in {"none", "wait", "done"}
    /\ upgrader \in {"none", "wait", "checking", "applied", "cancel", "done"}
    /\ upd \in [Goroutines -> {"none", "want", "locked", "snapped", "written"}]
    /\ snap \in [Goroutines -> Nat]
    /\ lock \in Goroutines \cup {NoOne} /\ final \in BOOLEAN
    /\ status \in RuntimeStatus /\ metrics \in Nat
    /\ statusFile \in RuntimeStatus \cup {NoFile}
    /\ tmpFile \in RuntimeStatus \cup {NoFile}
    /\ pidFile \in BOOLEAN /\ term \in BOOLEAN
    /\ runCancelled \in BOOLEAN /\ upgradeRequested \in BOOLEAN
    /\ checked \in BOOLEAN /\ runErr \in BOOLEAN
    /\ image \in Nat /\ failures \in Nat

\* Whoever is about to rename status.json.tmp finds there what it wrote
\* itself, and that is the status in memory: the mutex of updateStatus
\* covers the change, the snapshot and both file operations.
RenamesItsOwn == \A g \in Goroutines : upd[g] = "written" => tmpFile = status

\* The counters that a reader of status.json sees never go back while the
\* same image runs, whichever goroutine published last.
CountersNeverDecrease ==
    [][statusFile # NoFile /\ statusFile'.started = statusFile.started
         => statusFile'.jobs >= statusFile.jobs]_statusFile

\* Once Run has published that it stopped, no goroutine that outlives the
\* client, such as an upgrader whose check ends late, publishes for the same
\* image that the daemon is running.
StoppedStaysStopped ==
    [][statusFile # NoFile /\ statusFile'.started = statusFile.started /\ ~statusFile.running
         => ~statusFile'.running]_statusFile

\* A daemon that removes its PID file has published every job it served.
FinalCounts ==
    main = "rmpid" /\ upd["main"] = "none"
      => ~statusFile.running /\ statusFile.jobs = metrics

\* The clean way out of Run, which also clears the probation of a new build,
\* is taken only because of a signal: an upgrade that was installed either
\* has the process replaced or is overtaken by a SIGTERM.
NoUnaskedExit == main \in {"mark", "final", "rmpid"} => term

\* A signal, or a build that was installed, ends the image: no goroutine
\* waits for ever for the mutex, for the ticker or for the client.
ImageEnds == term \/ upgrader = "applied" ~> main \in {"exec", "gone"}
=============================================================================
