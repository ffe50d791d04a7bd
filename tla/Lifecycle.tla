------------------------------ MODULE Lifecycle ------------------------------
(***************************************************************************)
(* Starting, stopping and asking after the daemon: Start, StartForeground, *)
(* Stop, Restart, Status and the file handling of Run                      *)
(* (internal/daemon/service.go), called by the commands `start`, `stop`,   *)
(* `restart` and `status` (internal/cli) and by the service manager, which *)
(* runs `start --foreground` (internal/platform/service_templates.go).     *)
(*                                                                         *)
(* The callers and the daemons are processes; they share no lock, only     *)
(* daemon.pid, status.json and the one status.json.tmp, and may interleave *)
(* between any two file operations, signals and process look-ups.  A file  *)
(* is truncated when it is opened and written later; who has it open goes  *)
(* on writing to the same inode when it is renamed or removed meanwhile.   *)
(* Of status.json the model keeps whose it is and whether it says running. *)
(* The number of a dead process may be taken by another program, but no    *)
(* later daemon gets it.                                                   *)
(***************************************************************************)
EXTENDS Integers, FiniteSets

CONSTANTS
    Shells,        \* callers of the command line, one command at a time each
    Services,      \* the service manager's jobs: start --foreground
    ShellCommands, \* what the shells are used for
    LastPid,       \* bound: processes 1 .. LastPid are spawned, in order
    AtomicPID,     \* no reader sees the PID file between truncate and write
    MaxCommands,   \* bound: commands given, service restarts included
    MaxUpdates,    \* bound: updates of the status that the daemons publish
    MaxCrashes,    \* bound: daemons that end in an error or are killed
    MaxKills,      \* bound: callers that are killed
    MaxFailures,   \* bound: operations that fail for a caller, or an update
    MaxReboots,    \* bound: reboots
    MaxReuses,     \* bound: numbers taken by other programs
    MaxExecs,      \* bound: upgrades and rollbacks, which exec a new image
    NoFile,        \* no such file
    Empty, Torn    \* a file just truncated, or written by two at once

Callers == Shells \cup Services
Pids == 1 .. LastPid
Writers == Callers \cup Pids

ASSUME LifecycleAssumption ==
    /\ Shells \cap Services = {} /\ Callers \cap Pids = {}
    /\ ShellCommands \subseteq {"start", "stop", "restart", "status"}
    /\ LastPid \in Nat /\ MaxCommands \in Nat /\ MaxUpdates \in Nat
    /\ MaxCrashes \in Nat /\ MaxKills \in Nat /\ MaxFailures \in Nat
    /\ MaxReboots \in Nat /\ MaxReuses \in Nat /\ MaxExecs \in Nat
    /\ AtomicPID \in BOOLEAN
    /\ NoFile \notin {Empty, Torn} /\ Empty # Torn
    /\ {NoFile, Empty, Torn} \cap Pids = {}

\* RuntimeStatus, as far as it matters here.
RuntimeStatus == [pid : Pids, running : BOOLEAN]

ASSUME FilesAssumption == {NoFile, Empty, Torn} \cap RuntimeStatus = {}

VARIABLES
    pidFile, statusFile, tmpFile,
    pidFD, statusFD, tmpFD, \* who has them open for writing
    proc,     \* what each process is, or where in Run a daemon is
    term,     \* SIGTERM has reached it: its context is cancelled
    pc, cmd,  \* the caller's command and its next step
    seen,     \* the pid that a caller read
    child,    \* the process a caller spawned last
    result,   \* what the caller's last command returned; "unshown" is a nil of
              \* Stop that has ignored an error of the status's write
    misled,   \* history: a look-up has failed, which counts as no daemon
    commands, updates, crashes, kills, failures, reboots, reuses, execs

pids == <<pidFile, pidFD>>
statuses == <<statusFile, statusFD, tmpFile, tmpFD>>
files == <<pids, statuses>>
caller == <<pc, cmd, seen, child, result, misled>>
bounds == <<commands, updates, crashes, kills, failures, reboots, reuses, execs>>
vars == <<files, proc, term, caller, bounds>>

Init ==
    /\ pidFile = NoFile /\ statusFile = NoFile /\ tmpFile = NoFile
    /\ pidFD = {} /\ statusFD = {} /\ tmpFD = {}
    /\ proc = [p \in Pids |-> "free"]
    /\ term = [p \in Pids |-> FALSE]
    /\ pc = [c \in Callers |-> "idle"]
    /\ cmd = [c \in Callers |-> "none"]
    /\ seen = [c \in Callers |-> NoFile]
    /\ child = [c \in Callers |-> NoFile]
    /\ result = [c \in Callers |-> "none"]
    /\ misled = FALSE
    /\ commands = 0 /\ updates = 0 /\ crashes = 0 /\ kills = 0 /\ failures = 0
    /\ reboots = 0 /\ reuses = 0 /\ execs = 0

DaemonStates == {"boot", "pid", "tmp", "write", "rename", "up", "pubwrite", "pubrename",
                 "last", "lastwrite", "lastrename", "readpid", "rmpid"}
Daemons == {p \in Pids : proc[p] \in DaemonStates}

\* processRunning and daemonOwnsPID, if the look-up works: the process exists
\* and its command line is that of the daemon.
Owned(p) == p \in Daemons

Fail == failures < MaxFailures /\ failures' = failures + 1

-----------------------------------------------------------------------------
(* The files.                                                              *)

\* Bytes written over those of another writer may leave a tail of them.
Over(old, new) == IF old = Empty THEN {new} ELSE {new, Torn}

\* os.WriteFile of the PID file, in two steps or, for every reader, in one.
OpenPID(w) ==
    /\ ~AtomicPID
    /\ pidFile' = Empty /\ pidFD' = pidFD \cup {w}
    /\ UNCHANGED statuses

WritePID(w, p) ==
    /\ \/ (AtomicPID \/ (w \in pidFD /\ pidFile = p)) /\ pidFile' = p
       \/ ~AtomicPID /\ w \in pidFD /\ pidFile' \in Over(pidFile, p)
       \/ ~AtomicPID /\ w \notin pidFD /\ UNCHANGED pidFile
    /\ pidFD' = pidFD \ {w}
    /\ UNCHANGED statuses

RemovePID == pidFile' = NoFile /\ pidFD' = {} /\ UNCHANGED statuses

\* writeStatus: os.WriteFile of the temporary file, then os.Rename.  Everybody
\* uses the same temporary file.
OpenTmp(w) ==
    /\ tmpFile' = Empty /\ tmpFD' = tmpFD \cup {w}
    /\ UNCHANGED <<pids, statusFile, statusFD>>

WriteTmp(w, status) ==
    /\ \/ w \in tmpFD /\ tmpFile' \in Over(tmpFile, status) /\ UNCHANGED statusFile
       \/ w \in statusFD /\ statusFile' \in Over(statusFile, status) /\ UNCHANGED tmpFile
       \/ w \notin tmpFD \cup statusFD /\ UNCHANGED <<tmpFile, statusFile>>
    /\ tmpFD' = tmpFD \ {w} /\ statusFD' = statusFD \ {w}
    /\ UNCHANGED pids

RenameTmp ==
    /\ tmpFile # NoFile
    /\ statusFile' = tmpFile /\ tmpFile' = NoFile
    /\ statusFD' = tmpFD /\ tmpFD' = {}
    /\ UNCHANGED pids

\* A writer ends, or gives up; what it has written stays.
Closes(w) ==
    /\ pidFD' = pidFD \ {w} /\ statusFD' = statusFD \ {w} /\ tmpFD' = tmpFD \ {w}
    /\ UNCHANGED <<pidFile, statusFile, tmpFile>>

Says(p, running) == [pid |-> p, running |-> running]

-----------------------------------------------------------------------------
(* Run, in process p.                                                      *)

Go(p, from, to) == proc[p] = from /\ proc' = [proc EXCEPT ![p] = to]

DaemonWritesPID(p) ==
    /\ \/ Go(p, "boot", "pid") /\ OpenPID(p)
       \/ Go(p, IF AtomicPID THEN "boot" ELSE "pid", "tmp") /\ WritePID(p, p)
    /\ UNCHANGED <<term, caller, bounds>>

\* The first status, the updates and the last one.
DaemonOpensTmp(p) ==
    /\ \/ (Go(p, "tmp", "write") \/ Go(p, "last", "lastwrite")) /\ UNCHANGED updates
       \/ Go(p, "up", "pubwrite") /\ updates < MaxUpdates /\ updates' = updates + 1
    /\ OpenTmp(p)
    /\ UNCHANGED <<term, caller, commands, crashes, kills, failures, reboots, reuses, execs>>

DaemonWritesTmp(p) ==
    /\ \/ Go(p, "write", "rename") /\ WriteTmp(p, Says(p, TRUE))
       \/ Go(p, "pubwrite", "pubrename") /\ WriteTmp(p, Says(p, TRUE))
       \/ Go(p, "lastwrite", "lastrename") /\ WriteTmp(p, Says(p, FALSE))
    /\ UNCHANGED <<term, caller, bounds>>

DaemonRenames(p) ==
    /\ \/ Go(p, "rename", "up") \/ Go(p, "pubrename", "up") \/ Go(p, "lastrename", "readpid")
    /\ RenameTmp
    /\ UNCHANGED <<term, caller, bounds>>

\* An update that waits for the file it was to rename.
BuggyDaemonRenameFails(p) ==
    /\ tmpFile = NoFile
    /\ Go(p, "rename", "dead") \/ Go(p, "lastrename", "dead")
    /\ UNCHANGED <<files, term, caller, bounds>>

\* Another process renamed the temporary file away: an error of Run at its
\* start and its end, a line in the log in between.
DaemonRenameFails(p) ==
    /\ tmpFile = NoFile
    /\ Go(p, "rename", "dead") \/ Go(p, "pubrename", "up") \/ Go(p, "lastrename", "dead")
    /\ UNCHANGED <<files, term, caller, bounds>>

\* The client returns once the context is cancelled.
ClientReturns(p) ==
    /\ term[p]
    /\ Go(p, "up", "last")
    /\ UNCHANGED <<files, term, caller, bounds>>

\* removePIDIfMatches
DaemonReadsPID(p) ==
    /\ Go(p, "readpid", IF pidFile = p THEN "rmpid" ELSE "dead")
    /\ UNCHANGED <<files, term, caller, bounds>>

DaemonRemovesPID(p) ==
    /\ Go(p, "rmpid", "dead")
    /\ RemovePID
    /\ UNCHANGED <<term, caller, bounds>>

Run(p) == \/ DaemonWritesPID(p) \/ DaemonOpensTmp(p) \/ DaemonWritesTmp(p) \/ DaemonRenames(p)
          \/ DaemonRenameFails(p) \/ ClientReturns(p) \/ DaemonReadsPID(p)
          \/ DaemonRemovesPID(p)

\* An update that fails is a line in the log.
UpdateFails(p) ==
    /\ Go(p, "pubwrite", "up") \/ Go(p, "pubrename", "up")
    /\ Fail /\ Closes(p)
    /\ UNCHANGED <<term, caller, commands, updates, crashes, kills, reboots, reuses, execs>>

\* restartProcess, after an upgrade or a rollback: the same process runs Run
\* from the start, and a SIGTERM that the old image has caught is lost.
Exec(p) ==
    /\ execs < MaxExecs /\ execs' = execs + 1
    /\ Go(p, "up", "boot")
    /\ term' = [term EXCEPT ![p] = FALSE]
    /\ UNCHANGED <<files, caller, commands, updates, crashes, kills, failures, reboots, reuses>>

\* Run returns an error, or the process is killed: the files stay.
DaemonCrashes(p) ==
    /\ crashes < MaxCrashes /\ p \in Daemons
    /\ proc' = [proc EXCEPT ![p] = "dead"]
    /\ crashes' = crashes + 1
    /\ Closes(p)
    /\ UNCHANGED <<term, caller, commands, updates, kills, failures, reboots, reuses, execs>>

-----------------------------------------------------------------------------
(* The callers.  A command is a sequence of steps.                         *)

Step(c, from, to) == pc[c] = from /\ pc' = [pc EXCEPT ![c] = to]
Return(c, what) == result' = [result EXCEPT ![c] = what]
NoReturn == UNCHANGED result
Quiet == UNCHANGED <<files, proc, term, misled, bounds>>

\* The service manager runs its job again when it has ended.
Commands(c) ==
    IF c \in Services
      THEN IF child[c] \in Daemons THEN {} ELSE {"foreground"}
      ELSE ShellCommands

Command(c) ==
    /\ commands < MaxCommands
    /\ commands' = commands + 1
    /\ \E name \in Commands(c) :
          /\ cmd' = [cmd EXCEPT ![c] = name]
          /\ Step(c, "idle", CASE name \in {"start", "foreground"} -> "read"
                              [] name \in {"stop", "restart"} -> "stopread"
                              [] name = "status" -> "statusread")
    /\ Return(c, "none")
    /\ UNCHANGED <<files, proc, term, seen, child, misled, updates, crashes, kills, failures,
                   reboots, reuses, execs>>

\* readPID fails, or the look-up of the process does: for each of them, no
\* daemon runs (Stop returns the error of readPID, see Errors).
LookupFails(c) ==
    /\ Fail /\ misled' = TRUE
    /\ \/ (Step(c, "read", "spawn") \/ Step(c, "check", "unlink")) /\ NoReturn
       \/ Step(c, "stopcheck", "stopunlink") /\ Return(c, "notrunning")
       \/ Step(c, "wait", "stopunlink") /\ Return(c, "ok")
       \/ Step(c, "statuscheck", "statusunlink") /\ NoReturn
    /\ UNCHANGED <<files, proc, term, cmd, seen, child, commands, updates, crashes, kills,
                   reboots, reuses, execs>>

\* The steps whose error the command returns, having changed nothing.
Errors(c) ==
    /\ Fail
    /\ \E from \in {"spawn", "stopread", "signal", "stopunlink", "statusread", "statuspid"} :
          Step(c, from, "idle")
    /\ Return(c, "error")
    /\ UNCHANGED <<files, proc, term, cmd, seen, child, misled, commands, updates, crashes,
                   kills, reboots, reuses, execs>>

-----------------------------------------------------------------------------
(* Start and StartForeground.                                              *)

\* runningPID.  A PID file that does not parse counts as none.
ReadPID(c) ==
    /\ Step(c, "read", IF pidFile \in Pids THEN "check" ELSE "spawn")
    /\ seen' = [seen EXCEPT ![c] = pidFile]
    /\ NoReturn /\ Quiet /\ UNCHANGED <<cmd, child>>

AlreadyRunning(c) ==
    /\ Owned(seen[c])
    /\ Step(c, "check", "idle")
    /\ Return(c, "already")
    /\ Quiet /\ UNCHANGED <<cmd, seen, child>>

StalePID(c) ==
    /\ ~Owned(seen[c])
    /\ Step(c, "check", "unlink")
    /\ NoReturn /\ Quiet /\ UNCHANGED <<cmd, seen, child>>

\* removePID, whatever the file says by now; its error is ignored.
UnlinkPID(c) ==
    /\ Step(c, "unlink", "spawn")
    /\ \/ RemovePID /\ UNCHANGED failures
       \/ Fail /\ UNCHANGED files
    /\ NoReturn
    /\ UNCHANGED <<proc, term, cmd, seen, child, misled, commands, updates, crashes, kills,
                   reboots, reuses, execs>>

\* A child of Start, or Run in the process of StartForeground itself.
Spawn(c) ==
    /\ Step(c, "spawn", IF cmd[c] = "foreground" THEN "idle" ELSE "openpid")
    /\ \E p \in Pids :
          /\ proc[p] = "free"
          /\ \A q \in 1 .. (p - 1) : proc[q] # "free"
          /\ proc' = [proc EXCEPT ![p] = "boot"]
          /\ child' = [child EXCEPT ![c] = p]
    /\ NoReturn
    /\ UNCHANGED <<files, term, cmd, seen, misled, bounds>>

BuggyStartWritesPID(c) ==
    /\ Step(c, IF AtomicPID THEN "openpid" ELSE "writepid", "idle")
    /\ WritePID(c, child[c])
    /\ Return(c, "ok")
    /\ UNCHANGED <<proc, term, cmd, seen, child, misled, bounds>>

StartWritesPID(c) ==
    /\ \/ Step(c, "openpid", "writepid") /\ OpenPID(c)
       \/ Step(c, IF AtomicPID THEN "openpid" ELSE "writepid", "tmp") /\ WritePID(c, child[c])
    /\ NoReturn
    /\ UNCHANGED <<proc, term, cmd, seen, child, misled, bounds>>

\* terminateProcess: kill and wait.
Terminated(p) == [proc EXCEPT ![p] = "dead"]

\* The child ends, and so do its own writes and the command's.
EndsChild(c) ==
    /\ proc' = Terminated(child[c])
    /\ pidFD' = pidFD \ {c, child[c]}
    /\ statusFD' = statusFD \ {c, child[c]} /\ tmpFD' = tmpFD \ {c, child[c]}

\* Its failure kills the child; the file may have been truncated.
StartCannotWritePID(c) ==
    /\ Fail
    /\ Step(c, "openpid", "idle") \/ Step(c, "writepid", "idle")
    /\ pidFile' \in {pidFile, Empty}
    /\ EndsChild(c)
    /\ Return(c, "failed")
    /\ UNCHANGED <<statusFile, tmpFile, term, cmd, seen, child, misled, commands, updates,
                   crashes, kills, reboots, reuses, execs>>

StartWritesStatus(c) ==
    /\ \/ Step(c, "tmp", "write") /\ OpenTmp(c) /\ NoReturn
       \/ Step(c, "write", "rename") /\ WriteTmp(c, Says(child[c], TRUE)) /\ NoReturn
       \/ Step(c, "rename", "idle") /\ RenameTmp /\ Return(c, "ok")
    /\ UNCHANGED <<proc, term, cmd, seen, child, misled, bounds>>

\* writeStatus failed: the PID file goes, if it can be removed, then the child.
StartCannotWriteStatus(c) ==
    /\ \/ Step(c, "rename", "undo") /\ tmpFile = NoFile /\ UNCHANGED failures
       \/ (\E from \in {"tmp", "write", "rename"} : Step(c, from, "undo")) /\ Fail
    /\ \/ pidFile' = NoFile /\ pidFD' = {}
       \/ failures < MaxFailures /\ UNCHANGED pids
    /\ statusFD' = statusFD \ {c} /\ tmpFD' = tmpFD \ {c}
    /\ NoReturn
    /\ UNCHANGED <<statusFile, tmpFile, proc, term, cmd, seen, child, misled, commands, updates,
                   crashes, kills, reboots, reuses, execs>>

BuggyStartUndoes(c) ==
    /\ Step(c, "undo", "idle")
    /\ Return(c, "failed")
    /\ UNCHANGED <<proc, files, term, cmd, seen, child, misled, bounds>>

StartUndoes(c) ==
    /\ Step(c, "undo", "idle")
    /\ EndsChild(c)
    /\ Return(c, "failed")
    /\ UNCHANGED <<pidFile, statusFile, tmpFile, term, cmd, seen, child, misled, bounds>>

Start(c) == \/ ReadPID(c) \/ AlreadyRunning(c) \/ StalePID(c) \/ UnlinkPID(c) \/ Spawn(c)
            \/ StartWritesPID(c) \/ StartCannotWritePID(c) \/ StartWritesStatus(c)
            \/ StartCannotWriteStatus(c) \/ StartUndoes(c)

-----------------------------------------------------------------------------
(* Stop, alone or as the first half of Restart.                            *)

\* Restart goes on to Start unless Stop failed.
AfterStop(c) == IF cmd[c] = "restart" THEN "read" ELSE "idle"

StopReadsPID(c) ==
    /\ \/ pidFile \in Pids /\ Step(c, "stopread", "stopcheck") /\ NoReturn
       \/ pidFile = NoFile /\ Step(c, "stopread", AfterStop(c)) /\ Return(c, "notrunning")
       \/ pidFile \in {Empty, Torn} /\ Step(c, "stopread", "idle") /\ Return(c, "badpid")
    /\ seen' = [seen EXCEPT ![c] = pidFile]
    /\ Quiet /\ UNCHANGED <<cmd, child>>

\* A process that is there, whosever it is.
BuggyStopChecks(c) ==
    /\ \/ /\ Step(c, "stopcheck", "signal") /\ proc[seen[c]] # "dead"
          /\ NoReturn
       \/ /\ Step(c, "stopcheck", "stopunlink") /\ proc[seen[c]] = "dead"
          /\ Return(c, "notrunning")
    /\ Quiet /\ UNCHANGED <<cmd, seen, child>>

StopChecks(c) ==
    /\ \/ Owned(seen[c]) /\ Step(c, "stopcheck", "signal") /\ NoReturn
       \/ ~Owned(seen[c]) /\ Step(c, "stopcheck", "stopunlink") /\ Return(c, "notrunning")
    /\ Quiet /\ UNCHANGED <<cmd, seen, child>>

\* SIGTERM, to whatever process has the number by now.  Before a daemon has
\* set up its signal handling it ends at once.
Signal(c) ==
    LET p == seen[c] IN
    \/ /\ Step(c, "signal", "wait") /\ proc[p] # "dead"
       /\ term' = [term EXCEPT ![p] = TRUE]
       /\ \/ UNCHANGED <<proc, files>>
          \/ Go(p, "boot", "dead") /\ Closes(p)
       /\ NoReturn
       /\ UNCHANGED <<cmd, seen, child, misled, bounds>>
    \/ /\ Step(c, "signal", "stopunlink") /\ proc[p] = "dead"
       /\ Return(c, "ok")
       /\ Quiet /\ UNCHANGED <<cmd, seen, child>>

BuggyStopWaits(c) ==
    /\ Step(c, "wait", "stopunlink") /\ Return(c, "ok")
    /\ Quiet /\ UNCHANGED <<cmd, seen, child>>

\* The polling loop, ended by stopTimeout.
StopWaits(c) ==
    /\ \/ ~Owned(seen[c]) /\ Step(c, "wait", "stopunlink") /\ Return(c, "ok")
       \/ Owned(seen[c]) /\ Step(c, "wait", "idle") /\ Return(c, "timeout")
    /\ Quiet /\ UNCHANGED <<cmd, seen, child>>

BuggyStopUnlinks(c) ==
    /\ Step(c, "stopunlink", AfterStop(c))
    /\ RemovePID
    /\ NoReturn
    /\ UNCHANGED <<proc, term, cmd, seen, child, misled, bounds>>

StopUnlinks(c) ==
    /\ Step(c, "stopunlink", "mark")
    /\ RemovePID
    /\ NoReturn
    /\ UNCHANGED <<proc, term, cmd, seen, child, misled, bounds>>

BuggyMarkStopped(c) ==
    /\ \/ Step(c, "mark", "markwrite") /\ OpenTmp(c)
       \/ Step(c, "markwrite", "markrename") /\ WriteTmp(c, Says(child[c], FALSE))
       \/ Step(c, "markrename", AfterStop(c)) /\ RenameTmp
    /\ NoReturn
    /\ UNCHANGED <<proc, term, cmd, seen, child, misled, bounds>>

\* markStopped: what status.json says is overwritten.
MarkStopped(c) ==
    /\ \/ Step(c, "mark", "markwrite") /\ OpenTmp(c)
       \/ Step(c, "markwrite", "markrename") /\ WriteTmp(c, Says(seen[c], FALSE))
       \/ Step(c, "markrename", AfterStop(c)) /\ RenameTmp
    /\ NoReturn
    /\ UNCHANGED <<proc, term, cmd, seen, child, misled, bounds>>

\* Its error is ignored.
MarkFails(c) ==
    /\ \/ Step(c, "markrename", AfterStop(c)) /\ tmpFile = NoFile /\ UNCHANGED failures
       \/ /\ \E from \in {"mark", "markwrite", "markrename"} : Step(c, from, AfterStop(c))
          /\ Fail
    /\ Closes(c)
    /\ Return(c, IF result[c] = "ok" THEN "unshown" ELSE result[c])
    /\ UNCHANGED <<proc, term, cmd, seen, child, misled, commands, updates, crashes, kills,
                   reboots, reuses, execs>>

Stop(c) == \/ StopReadsPID(c) \/ StopChecks(c) \/ Signal(c) \/ StopWaits(c) \/ StopUnlinks(c)
           \/ MarkStopped(c) \/ MarkFails(c)

-----------------------------------------------------------------------------
(* Status.                                                                 *)

StatusReads(c) ==
    /\ \/ statusFile \notin {Empty, Torn} /\ Step(c, "statusread", "statuspid") /\ NoReturn
       \/ statusFile \in {Empty, Torn} /\ Step(c, "statusread", "idle") /\ Return(c, "error")
    /\ Quiet /\ UNCHANGED <<cmd, seen, child>>

StatusReadsPID(c) ==
    /\ \/ pidFile \in Pids /\ Step(c, "statuspid", "statuscheck") /\ NoReturn
       \/ pidFile = NoFile /\ Step(c, "statuspid", "idle") /\ Return(c, "stopped")
       \/ pidFile \in {Empty, Torn} /\ Step(c, "statuspid", "idle") /\ Return(c, "badpid")
    /\ seen' = [seen EXCEPT ![c] = pidFile]
    /\ Quiet /\ UNCHANGED <<cmd, child>>

StatusChecks(c) ==
    /\ \/ Owned(seen[c]) /\ Step(c, "statuscheck", "idle") /\ Return(c, "running")
       \/ ~Owned(seen[c]) /\ Step(c, "statuscheck", "statusunlink") /\ NoReturn
    /\ Quiet /\ UNCHANGED <<cmd, seen, child>>

StatusUnlinks(c) ==
    /\ Step(c, "statusunlink", "idle")
    /\ \/ RemovePID /\ UNCHANGED failures
       \/ Fail /\ UNCHANGED files
    /\ Return(c, "stopped")
    /\ UNCHANGED <<proc, term, cmd, seen, child, misled, commands, updates, crashes, kills,
                   reboots, reuses, execs>>

Status(c) == StatusReads(c) \/ StatusReadsPID(c) \/ StatusChecks(c) \/ StatusUnlinks(c)

-----------------------------------------------------------------------------
(* Callers killed, numbers taken, and the machine rebooted.                *)

Kill(c) ==
    /\ kills < MaxKills /\ pc[c] # "idle"
    /\ Step(c, pc[c], "idle")
    /\ Return(c, "killed")
    /\ kills' = kills + 1
    /\ Closes(c)
    /\ UNCHANGED <<proc, term, cmd, seen, child, misled, commands, updates, crashes, failures,
                   reboots, reuses, execs>>

\* Another program gets the number of a dead process that somebody knows,
\* unless its parent has not waited for it yet; a "latecomer" gets it while a
\* Stop is between its check and its signal.
Reuse(p) ==
    /\ reuses < MaxReuses /\ reuses' = reuses + 1
    /\ p = pidFile \/ \E c \in Callers : p = seen[c]
    /\ \A c \in Callers : child[c] = p =>
          pc[c] \notin {"openpid", "writepid", "tmp", "write", "rename", "undo"}
    /\ Go(p, "dead", IF \E c \in Callers : pc[c] = "signal" /\ seen[c] = p
                       THEN "latecomer" ELSE "foreign")
    /\ term' = [term EXCEPT ![p] = FALSE]
    /\ UNCHANGED <<files, caller, commands, updates, crashes, kills, failures, reboots, execs>>

\* Every process ends.
Reboot ==
    /\ reboots < MaxReboots
    /\ proc' = [p \in Pids |-> IF proc[p] = "free" THEN "free" ELSE "dead"]
    /\ term' = [p \in Pids |-> FALSE]
    /\ pidFD' = {} /\ statusFD' = {} /\ tmpFD' = {}
    /\ pc' = [c \in Callers |-> "idle"]
    /\ result' = [c \in Callers |-> "killed"]
    /\ reboots' = reboots + 1
    /\ UNCHANGED <<pidFile, statusFile, tmpFile, cmd, seen, child, misled, commands, updates,
                   crashes, kills, failures, reuses, execs>>

-----------------------------------------------------------------------------

Next == \/ \E p \in Pids : Run(p) \/ UpdateFails(p) \/ Exec(p) \/ DaemonCrashes(p) \/ Reuse(p)
        \/ \E c \in Callers : \/ Command(c) \/ Start(c) \/ Stop(c) \/ Status(c)
                              \/ LookupFails(c) \/ Errors(c) \/ Kill(c)
        \/ Reboot

Spec == Init /\ [][Next]_vars

\* A daemon that is there runs on; its updates do not keep it from returning.
Fairness == \A p \in Pids : WF_vars(Run(p)) /\ SF_vars(ClientReturns(p))
FairSpec == Spec /\ Fairness

-----------------------------------------------------------------------------
(* Properties.                                                             *)

Names == {"none", "start", "foreground", "stop", "restart", "status"}
Steps == {"idle", "read", "check", "unlink", "spawn", "openpid", "writepid", "tmp", "write",
          "rename", "undo", "stopread", "stopcheck", "signal", "wait", "stopunlink", "mark",
          "markwrite", "markrename", "statusread", "statuspid", "statuscheck", "statusunlink"}
Results == {"none", "ok", "unshown", "already", "failed", "error", "notrunning", "badpid",
            "timeout", "running", "stopped", "killed"}
NoContent == {NoFile, Empty, Torn}

TypeOK ==
    /\ pidFile \in Pids \cup NoContent
    /\ statusFile \in RuntimeStatus \cup NoContent /\ tmpFile \in RuntimeStatus \cup NoContent
    /\ pidFD \subseteq Writers /\ statusFD \subseteq Writers /\ tmpFD \subseteq Writers
    /\ proc \in [Pids -> DaemonStates \cup {"free", "dead", "foreign", "latecomer"}]
    /\ term \in [Pids -> BOOLEAN]
    /\ seen \in [Callers -> Pids \cup NoContent]
    /\ child \in [Callers -> Pids \cup {NoFile}]
    /\ cmd \in [Callers -> Names]
    /\ pc \in [Callers -> Steps]
    /\ result \in [Callers -> Results]
    /\ misled \in BOOLEAN
    /\ commands \in 0 .. MaxCommands /\ updates \in 0 .. MaxUpdates
    /\ crashes \in 0 .. MaxCrashes /\ kills \in 0 .. MaxKills
    /\ failures \in 0 .. MaxFailures /\ reboots \in 0 .. MaxReboots
    /\ reuses \in 0 .. MaxReuses /\ execs \in 0 .. MaxExecs

\* At most one daemon runs: Start refuses while another does
\* (service.go:92-94; service_additional_test.go:124-127).  Here and in what
\* follows a failed look-up may have hidden one.
AtMostOneDaemon == misled \/ Cardinality(Daemons) <= 1

AllIdle == \A c \in Callers : pc[c] = "idle"

\* Between commands the PID file names every daemon that is up, so that the
\* next command finds it (service.go:118, 181, 354, 522-537).
DaemonFound ==
    AllIdle /\ ~misled =>
        \A p \in Daemons : proc[p] \in {"up", "pubwrite", "pubrename"} => pidFile = p

\* A command that reports the daemon stopped, or found none to stop, leaves
\* no daemon behind (service.go:414-465).
StoppedMeansNone ==
    \A c \in Shells :
        /\ pc[c] = "idle" /\ cmd[c] = "stop" /\ result[c] \in {"ok", "unshown", "notrunning"}
        => misled \/ Daemons = {}

\* What a stop reports is also what status.json then says, although the daemon
\* and the caller both write it on the way (service.go:344-350, 510-520);
\* unless the command's own write of it has failed, which it does not report.
StopIsShown ==
    \A c \in Shells : pc[c] = "idle" /\ cmd[c] = "stop" /\ result[c] = "ok"
        => misled \/ (statusFile \in RuntimeStatus /\ ~statusFile.running)

\* A Start that failed left no child (service.go:118-137).
NoStrayChild ==
    \A c \in Callers : result[c] = "failed" => child[c] \notin Daemons

\* After a Start that succeeded status.json is there and, where it can be read,
\* is about its child, not about a daemon before it: the commands that go on to
\* wait for "connected" wait for the new daemon (service.go:123-137,
\* cli/commands.go:364-393).  Parent and child may truncate it for each other.
StatusIsTheChilds ==
    \A c \in Shells : pc[c] = "idle" /\ cmd[c] \in {"start", "restart"} /\ result[c] = "ok"
        => misled \/ /\ statusFile # NoFile
                     /\ statusFile \in RuntimeStatus => statusFile.pid = child[c]

\* A stop that took effect ended the daemon it was after, whoever else acts.
TargetStopped ==
    \A c \in Shells :
        pc[c] \in {"stopunlink", "mark", "markwrite", "markrename"} =>
            misled \/ seen[c] \notin Daemons

\* The processes of other programs are not signalled: a PID file that is left
\* from a daemon that crashed, or from before a reboot, is not trusted
\* (service.go:430-436).  Only a program that gets the number between that
\* check and the signal is hit.
ForeignUntouched == \A p \in Pids : proc[p] = "foreign" => ~term[p]

\* A daemon that was told to stop ends: it finishes its start, or the update
\* it is writing, and its own clean-up, whether or not the caller waits.  Only
\* an image that execs the next one loses the signal (service.go:226-230,
\* 327-329).
SignalledEnds == \A p \in Pids : (p \in Daemons /\ term[p]) ~> (p \notin Daemons \/ ~term[p])

-----------------------------------------------------------------------------
(* The inductive invariants of the proofs.                                 *)

Spawned == {p \in Pids : proc[p] # "free"}

\* A number that is written or remembered is that of a process there was.
NumbersSpawned ==
    /\ pidFile \in Pids => pidFile \in Spawned
    /\ \A c \in Callers : /\ seen[c] \in Pids => seen[c] \in Spawned
                          /\ child[c] \in Pids => child[c] \in Spawned

\* A step that uses a number has one, and a failed Start is over.
HasNumber ==
    \A c \in Callers :
       /\ pc[c] \in {"check", "stopcheck", "signal", "wait", "stopunlink", "mark", "markwrite",
                     "markrename", "statuscheck"} => seen[c] \in Pids
       /\ pc[c] \in {"openpid", "writepid", "tmp", "write", "rename", "undo"} => child[c] \in Pids
       /\ result[c] = "failed" => pc[c] = "idle" /\ child[c] \in Pids

\* Who is about to be signalled was a daemon when its command line was read.
SignalsDaemons == \A c \in Callers : pc[c] = "signal" => proc[seen[c]] # "foreign"

LifecycleInv == /\ TypeOK /\ NumbersSpawned /\ HasNumber /\ SignalsDaemons
                /\ TargetStopped /\ NoStrayChild /\ ForeignUntouched

\* One shell that nobody kills, no service manager, whole PID files.
ShellAlone ==
    /\ \E s : Shells = {s}
    /\ Services = {} /\ AtomicPID /\ MaxKills = 0

\* What the one shell is doing agrees with the daemon there is, if any: the
\* PID file names it, except while the shell that spawned it has not written
\* the number yet or is taking it back.
OneDaemonInv ==
    misled \/ \A s \in Shells :
       /\ \A p \in Daemons :
             /\ pidFile = p \/ pc[s] \in {"openpid", "undo"}
             /\ pc[s] \in {"openpid", "tmp", "write", "rename", "undo"} => child[s] = p
             /\ pc[s] \in {"check", "stopcheck", "signal", "wait", "statuscheck"} => seen[s] = p
       /\ pc[s] \in {"unlink", "spawn", "stopunlink", "mark", "markwrite", "markrename",
                     "statusunlink"} => Daemons = {}
       /\ cmd[s] # "foreground" /\ pc[s] # "writepid"
       /\ pc[s] \in {"stopread", "stopcheck", "signal", "wait", "stopunlink", "mark",
                     "markwrite", "markrename"} => cmd[s] \in {"stop", "restart"}
       /\ pc[s] \in {"read", "check", "unlink", "spawn", "openpid", "tmp", "write", "rename",
                     "undo"} => cmd[s] # "stop"
       /\ pc[s] = "idle" /\ cmd[s] = "stop" /\ result[s] \in {"ok", "unshown", "notrunning"}
             => Daemons = {}

\* A file that may have been truncated is about p.
About(file, p) == file \in RuntimeStatus => file.pid = p

\* Whose status the two files hold.  Only who is between opening and writing
\* has one of them open; what a process is about to rename it, its child or its
\* parent has written, unless another writer's bytes tore it.
StatusInv ==
    misled \/ \A s \in Shells :
       /\ \A w \in tmpFD \cup statusFD :
             \/ w = s /\ (pc[s] = "write" \/ (pc[s] = "markwrite" /\ w \notin statusFD))
             \/ w \in Pids /\ proc[w] \in {"write", "pubwrite", "lastwrite"}
       /\ \A p \in Daemons :
             proc[p] \in {"write", "rename", "pubwrite", "pubrename", "lastwrite", "lastrename"}
                => About(tmpFile, p)
       /\ pc[s] \in {"write", "rename"} => About(tmpFile, child[s])
       /\ pc[s] = "markwrite" => tmpFile = Empty /\ s \in tmpFD
       /\ pc[s] = "markrename" => tmpFile = Says(seen[s], FALSE)
       /\ pc[s] = "idle" /\ cmd[s] \in {"start", "restart"} /\ result[s] = "ok"
             => /\ statusFile # NoFile /\ About(statusFile, child[s])
                /\ \A p \in Daemons : p = child[s]
       /\ pc[s] = "idle" /\ cmd[s] = "stop" /\ result[s] = "ok"
             => statusFile \in RuntimeStatus /\ ~statusFile.running

=============================================================================
