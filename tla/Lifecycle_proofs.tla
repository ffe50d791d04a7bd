--------------------------- MODULE Lifecycle_proofs ---------------------------
(***************************************************************************)
(* Proofs about Lifecycle, for any number of shells, service jobs and      *)
(* processes: what no interleaving of commands and daemons can do          *)
(* (LifecycleInv); that a single shell has one daemon at a time, which its *)
(* next command finds (OneDaemonInv); and what status.json can then say    *)
(* (StatusInv).                                                            *)
(***************************************************************************)
EXTENDS Lifecycle, FiniteSetTheorems, TLAPS

-----------------------------------------------------------------------------
(* Types.                                                                  *)

\* The type invariant in its parts.
FilesOK ==
    /\ pidFile \in Pids \cup NoContent
    /\ statusFile \in RuntimeStatus \cup NoContent /\ tmpFile \in RuntimeStatus \cup NoContent
    /\ pidFD \subseteq Writers /\ statusFD \subseteq Writers /\ tmpFD \subseteq Writers
ProcValues == DaemonStates \cup {"free", "dead", "foreign", "latecomer"}
ProcOK == proc \in [Pids -> ProcValues] /\ term \in [Pids -> BOOLEAN]
CallerOK ==
    /\ seen \in [Callers -> Pids \cup NoContent]
    /\ child \in [Callers -> Pids \cup {NoFile}]
    /\ cmd \in [Callers -> Names]
    /\ pc \in [Callers -> Steps]
    /\ result \in [Callers -> Results]
    /\ misled \in BOOLEAN
BoundsOK ==
    /\ commands \in 0 .. MaxCommands /\ updates \in 0 .. MaxUpdates
    /\ crashes \in 0 .. MaxCrashes /\ kills \in 0 .. MaxKills
    /\ failures \in 0 .. MaxFailures /\ reboots \in 0 .. MaxReboots
    /\ reuses \in 0 .. MaxReuses /\ execs \in 0 .. MaxExecs

LEMMA TypeParts == TypeOK <=> FilesOK /\ ProcOK /\ CallerOK /\ BoundsOK
  BY DEF TypeOK, FilesOK, ProcOK, CallerOK, BoundsOK, ProcValues

\* A status that is written is a whole status, and says what was to be said.
LEMMA SaysTyped ==
    ASSUME NEW p \in Pids, NEW running \in BOOLEAN
    PROVE  /\ Says(p, running) \in RuntimeStatus
           /\ Says(p, running).pid = p /\ Says(p, running).running = running
  BY DEF Says, RuntimeStatus

\* What the operating system does to the files.
FileOp(w, p) ==
    \/ OpenPID(w) \/ WritePID(w, p) \/ RemovePID
    \/ OpenTmp(w) \/ (\E running \in BOOLEAN : WriteTmp(w, Says(p, running))) \/ RenameTmp
    \/ Closes(w) \/ UNCHANGED files

\* Whatever it is, the files hold a number, a status or nothing whole.
LEMMA FilesTyped ==
    ASSUME FilesOK, NEW w \in Writers, NEW p \in Pids, FileOp(w, p)
    PROVE  FilesOK'
  <1> USE DEF FilesOK, files, pids, statuses, NoContent
  <1>1. CASE OpenPID(w) \/ RemovePID \/ OpenTmp(w) \/ RenameTmp
    BY <1>1 DEF OpenPID, RemovePID, OpenTmp, RenameTmp
  <1>2. CASE WritePID(w, p)
    BY <1>2 DEF WritePID, Over
  <1>3. ASSUME NEW running \in BOOLEAN, WriteTmp(w, Says(p, running)) PROVE FilesOK'
    <2>1. Says(p, running) \in RuntimeStatus
      BY SaysTyped
    <2>2. QED
      BY <1>3, <2>1 DEF WriteTmp, Over
  <1>4. CASE Closes(w) \/ UNCHANGED files
    BY <1>4 DEF Closes
  <1>5. QED
    BY <1>1, <1>2, <1>3, <1>4 DEF FileOp

\* A bound that is counted stays one.
LEMMA Counted ==
    ASSUME NEW max \in Nat, NEW n \in 0 .. max, NEW m,
           m = n \/ (n < max /\ m = n + 1)
    PROVE  m \in 0 .. max
  OBVIOUS

\* What a step may do to the bounds.
Counts(x, max) == x' = x \/ (x < max /\ x' = x + 1)
Counting ==
    /\ Counts(commands, MaxCommands) /\ Counts(updates, MaxUpdates)
    /\ Counts(crashes, MaxCrashes) /\ Counts(kills, MaxKills)
    /\ Counts(failures, MaxFailures) /\ Counts(reboots, MaxReboots)
    /\ Counts(reuses, MaxReuses) /\ Counts(execs, MaxExecs)

LEMMA BoundsTyped == BoundsOK /\ Counting => BoundsOK'
  <1> SUFFICES ASSUME BoundsOK, Counting PROVE BoundsOK'
    OBVIOUS
  <1> USE LifecycleAssumption DEF BoundsOK, Counting, Counts
  <1>1. commands' \in 0 .. MaxCommands /\ updates' \in 0 .. MaxUpdates
    BY Counted
  <1>2. crashes' \in 0 .. MaxCrashes /\ kills' \in 0 .. MaxKills
    BY Counted
  <1>3. failures' \in 0 .. MaxFailures /\ reboots' \in 0 .. MaxReboots
    BY Counted
  <1>4. reuses' \in 0 .. MaxReuses /\ execs' \in 0 .. MaxExecs
    BY Counted
  <1>5. QED
    BY <1>1, <1>2, <1>3, <1>4

\* The steps of daemons and of what happens to them.
DaemonStep(p) == Run(p) \/ UpdateFails(p) \/ Exec(p) \/ DaemonCrashes(p) \/ Reuse(p)

\* They touch no caller.
LEMMA CallersLeft ==
    ASSUME NEW p \in Pids, DaemonStep(p)
    PROVE  UNCHANGED caller
  BY DEF DaemonStep, Run, DaemonWritesPID, DaemonOpensTmp, DaemonWritesTmp, DaemonRenames,
         DaemonRenameFails, ClientReturns, DaemonReadsPID, DaemonRemovesPID, UpdateFails, Exec,
         DaemonCrashes, Reuse

\* And of the files what one writer may.
LEMMA DaemonFiles ==
    ASSUME NEW p \in Pids, DaemonStep(p)
    PROVE  FileOp(p, p)
  <1> USE DEF FileOp
  <1>1. CASE DaemonWritesPID(p) \/ DaemonOpensTmp(p) \/ DaemonRenames(p) \/ DaemonRemovesPID(p)
    BY <1>1 DEF DaemonWritesPID, DaemonOpensTmp, DaemonRenames, DaemonRemovesPID
  <1>2. CASE DaemonWritesTmp(p)
    BY <1>2 DEF DaemonWritesTmp
  <1>3. CASE DaemonRenameFails(p) \/ ClientReturns(p) \/ DaemonReadsPID(p)
    BY <1>3 DEF DaemonRenameFails, ClientReturns, DaemonReadsPID
  <1>4. CASE UpdateFails(p) \/ Exec(p) \/ DaemonCrashes(p) \/ Reuse(p)
    BY <1>4 DEF UpdateFails, Exec, DaemonCrashes, Reuse
  <1>5. QED
    BY <1>1, <1>2, <1>3, <1>4 DEF DaemonStep, Run

LEMMA DaemonCounts ==
    ASSUME NEW p \in Pids, DaemonStep(p)
    PROVE  Counting
  <1> USE DEF Counting, Counts, bounds, Fail
  <1>1. CASE DaemonOpensTmp(p)
    BY <1>1 DEF DaemonOpensTmp
  <1>2. CASE Run(p) /\ ~DaemonOpensTmp(p)
    <2>1. UNCHANGED bounds
      BY <1>2 DEF Run, DaemonWritesPID, DaemonWritesTmp, DaemonRenames, DaemonRenameFails,
                  ClientReturns, DaemonReadsPID, DaemonRemovesPID
    <2>2. QED
      BY <2>1
  <1>3. CASE UpdateFails(p) \/ Exec(p)
    BY <1>3 DEF UpdateFails, Exec
  <1>4. CASE DaemonCrashes(p) \/ Reuse(p)
    BY <1>4 DEF DaemonCrashes, Reuse
  <1>5. QED
    BY <1>1, <1>2, <1>3, <1>4 DEF DaemonStep

\* Where a process may go, by its own steps or by what happens to it.
ProcMoves(p) ==
    \/ UNCHANGED proc
    \/ proc[p] \in DaemonStates /\ \E to \in DaemonStates \cup {"dead"} : proc' = [proc EXCEPT ![p] = to]
    \/ proc[p] = "dead" /\ \E to \in {"foreign", "latecomer"} : proc' = [proc EXCEPT ![p] = to]

LEMMA DaemonMoves ==
    ASSUME NEW p \in Pids, DaemonStep(p)
    PROVE  /\ ProcMoves(p) /\ (~Reuse(p) => proc[p] \in DaemonStates)
           /\ term' = term \/ term' = [term EXCEPT ![p] = FALSE]
  <1> USE DEF ProcMoves, Go, DaemonStates, caller
  <1>1. CASE DaemonWritesPID(p) \/ DaemonOpensTmp(p)
    BY <1>1 DEF DaemonWritesPID, DaemonOpensTmp
  <1>2. CASE DaemonWritesTmp(p) \/ DaemonRenames(p) \/ DaemonRenameFails(p)
    BY <1>2 DEF DaemonWritesTmp, DaemonRenames, DaemonRenameFails
  <1>3. CASE ClientReturns(p) \/ DaemonReadsPID(p) \/ DaemonRemovesPID(p)
    BY <1>3 DEF ClientReturns, DaemonReadsPID, DaemonRemovesPID
  <1>4. CASE UpdateFails(p)
    BY <1>4 DEF UpdateFails
  <1>5. CASE Exec(p)
    BY <1>5 DEF Exec
  <1>6. CASE DaemonCrashes(p)
    BY <1>6 DEF DaemonCrashes, Daemons
  <1>7. CASE Reuse(p)
    BY <1>7 DEF Reuse
  <1>8. QED
    BY <1>1, <1>2, <1>3, <1>4, <1>5, <1>6, <1>7 DEF DaemonStep, Run

\* The steps of a caller.
CallerStep(c) == \/ Start(c) \/ Stop(c) \/ Status(c) \/ Command(c)
                 \/ LookupFails(c) \/ Errors(c) \/ Kill(c)

LEMMA NextSteps ==
    ASSUME Next
    PROVE  \/ \E p \in Pids : DaemonStep(p)
           \/ \E c \in Callers : CallerStep(c)
           \/ Reboot
  BY DEF Next, DaemonStep, CallerStep

\* It moves on in its own command only, reads the PID file, spawns a process or
\* returns something.
CallerFrame(c) ==
    /\ \E x \in Steps : pc' = [pc EXCEPT ![c] = x]
    /\ cmd' = cmd \/ \E x \in Names : cmd' = [cmd EXCEPT ![c] = x]
    /\ seen' = seen \/ seen' = [seen EXCEPT ![c] = pidFile]
    /\ \/ child' = child
       \/ \E x \in Pids : /\ proc[x] = "free" /\ proc' = [proc EXCEPT ![x] = "boot"]
                          /\ child' = [child EXCEPT ![c] = x]
    /\ result' = result \/ \E x \in Results : result' = [result EXCEPT ![c] = x]

LEMMA StartFrame ==
    ASSUME NEW c \in Callers, Start(c)
    PROVE  CallerFrame(c)
  <1> USE DEF CallerFrame, Step, Return, NoReturn, Quiet, caller, bounds, Steps, Results
  <1>1. CASE ReadPID(c) \/ AlreadyRunning(c) \/ StalePID(c)
    BY <1>1 DEF ReadPID, AlreadyRunning, StalePID
  <1>2. CASE UnlinkPID(c)
    BY <1>2 DEF UnlinkPID
  <1>3. CASE Spawn(c)
    BY <1>3 DEF Spawn
  <1>4. CASE StartWritesPID(c) \/ StartCannotWritePID(c)
    BY <1>4 DEF StartWritesPID, StartCannotWritePID
  <1>5. CASE StartWritesStatus(c)
    BY <1>5 DEF StartWritesStatus
  <1>6. CASE StartCannotWriteStatus(c)
    BY <1>6 DEF StartCannotWriteStatus
  <1>7. CASE StartUndoes(c)
    BY <1>7 DEF StartUndoes
  <1>8. QED
    BY <1>1, <1>2, <1>3, <1>4, <1>5, <1>6, <1>7 DEF Start

LEMMA StopFrame ==
    ASSUME CallerOK, NEW c \in Callers, Stop(c) \/ Status(c)
    PROVE  CallerFrame(c)
  <1> USE DEF CallerFrame, Step, Return, NoReturn, Quiet, caller, Steps, Results, AfterStop
  <1>1. CASE StopReadsPID(c)
    BY <1>1 DEF StopReadsPID
  <1>2. CASE StopChecks(c) \/ StopWaits(c)
    BY <1>2 DEF StopChecks, StopWaits
  <1>3. CASE Signal(c)
    BY <1>3 DEF Signal
  <1>4. CASE StopUnlinks(c) \/ MarkStopped(c)
    BY <1>4 DEF StopUnlinks, MarkStopped
  <1>5. CASE MarkFails(c)
    <2>1. result[c] \in Results
      BY DEF CallerOK
    <2>2. \E x \in Results : result' = [result EXCEPT ![c] = x]
      BY <1>5, <2>1 DEF MarkFails
    <2>3. UNCHANGED <<cmd, seen, child>>
      BY <1>5 DEF MarkFails
    <2>4. \E x \in Steps : pc' = [pc EXCEPT ![c] = x]
      BY <1>5 DEF MarkFails
    <2>5. QED
      BY <2>2, <2>3, <2>4
  <1>6. CASE StatusReads(c) \/ StatusReadsPID(c)
    BY <1>6 DEF StatusReads, StatusReadsPID
  <1>7. CASE StatusChecks(c) \/ StatusUnlinks(c)
    BY <1>7 DEF StatusChecks, StatusUnlinks
  <1>8. QED
    BY <1>1, <1>2, <1>3, <1>4, <1>5, <1>6, <1>7 DEF Stop, Status

\* A command begins with reading a file.
LEMMA CommandBegins ==
    ASSUME CallerOK, NEW c \in Callers, Command(c)
    PROVE  /\ pc[c] = "idle" /\ pc' = [pc EXCEPT ![c] = pc'[c]]
           /\ pc'[c] \in {"read", "stopread", "statusread"}
           /\ cmd' = [cmd EXCEPT ![c] = cmd'[c]] /\ cmd'[c] \in Commands(c)
           /\ cmd'[c] \in Names
           /\ cmd'[c] \in {"stop", "restart"} <=> pc'[c] = "stopread"
           /\ cmd'[c] = "status" <=> pc'[c] = "statusread"
           /\ result' = [result EXCEPT ![c] = "none"]
  <1>1. PICK name \in Commands(c) :
           /\ cmd' = [cmd EXCEPT ![c] = name]
           /\ Step(c, "idle", CASE name \in {"start", "foreground"} -> "read"
                                [] name \in {"stop", "restart"} -> "stopread"
                                [] name = "status" -> "statusread")
    BY DEF Command
  <1>2. name \in {"start", "foreground", "stop", "restart", "status"}
    BY LifecycleAssumption DEF Commands
  <1>3. cmd \in [Callers -> Names] /\ pc \in [Callers -> Steps]
    BY DEF CallerOK
  <1>4. cmd'[c] = name /\ result' = [result EXCEPT ![c] = "none"]
    BY <1>1, <1>3 DEF Command, Return
  <1>5. QED
    BY <1>1, <1>2, <1>3, <1>4 DEF Step, Names

LEMMA CallerStepFrame ==
    ASSUME CallerOK, NEW c \in Callers, CallerStep(c)
    PROVE  CallerFrame(c)
  <1> USE DEF Step, Return, NoReturn
  <1>1. CASE Start(c) \/ Stop(c) \/ Status(c)
    BY <1>1, StartFrame, StopFrame
  <1>2. CASE Command(c)
    <2>1. UNCHANGED <<seen, child>>
      BY <1>2 DEF Command
    <2>2. pc'[c] \in Steps /\ "none" \in Results
      BY <1>2, CommandBegins DEF Steps, Results
    <2>3. QED
      BY <1>2, <2>1, <2>2, CommandBegins DEF CallerFrame
  <1>3. CASE LookupFails(c)
    <2>1. UNCHANGED <<cmd, seen, child>>
      BY <1>3 DEF LookupFails
    <2>2. \E x \in Steps : pc' = [pc EXCEPT ![c] = x]
      BY <1>3 DEF LookupFails, Steps
    <2>3. result' = result \/ \E x \in Results : result' = [result EXCEPT ![c] = x]
      BY <1>3 DEF LookupFails, Results
    <2>4. QED
      BY <2>1, <2>2, <2>3 DEF CallerFrame
  <1>4. CASE Errors(c)
    BY <1>4 DEF Errors, CallerFrame, Steps, Results
  <1>5. CASE Kill(c)
    BY <1>5 DEF Kill, CallerFrame, Steps, Results
  <1>6. QED
    BY <1>1, <1>2, <1>3, <1>4, <1>5 DEF CallerStep

\* What a step leaves of the caller's types.
LEMMA CallerTyped ==
    ASSUME CallerOK, FilesOK, NEW c \in Callers, CallerFrame(c), misled' \in BOOLEAN
    PROVE  CallerOK'
  <1>1. pc' \in [Callers -> Steps] /\ cmd' \in [Callers -> Names]
    BY DEF CallerFrame, CallerOK
  <1>2. seen' \in [Callers -> Pids \cup NoContent]
    BY DEF CallerFrame, CallerOK, FilesOK
  <1>3. child' \in [Callers -> Pids \cup {NoFile}]
    BY DEF CallerFrame, CallerOK
  <1>4. result' \in [Callers -> Results]
    BY DEF CallerFrame, CallerOK
  <1>5. QED
    BY <1>1, <1>2, <1>3, <1>4 DEF CallerOK

\* Only a look-up that fails misleads, and for good.
LEMMA MisledStays ==
    ASSUME [Next]_vars
    PROVE  /\ misled => misled'
           /\ misled \in BOOLEAN => misled' \in BOOLEAN
           /\ misled' => misled \/ \E c \in Callers : LookupFails(c)
  <1>1. (\E c \in Callers : LookupFails(c)) => misled' = TRUE
    BY DEF LookupFails
  <1>2. ASSUME NEW p \in Pids, DaemonStep(p) PROVE UNCHANGED misled
    BY <1>2, CallersLeft DEF caller
  <1>3. ASSUME NEW c \in Callers, Start(c) PROVE UNCHANGED misled
    BY <1>3 DEF Start, ReadPID, AlreadyRunning, StalePID, UnlinkPID, Spawn, StartWritesPID,
                StartCannotWritePID, StartWritesStatus, StartCannotWriteStatus, StartUndoes, Quiet
  <1>4. ASSUME NEW c \in Callers, Stop(c) \/ Status(c) PROVE UNCHANGED misled
    BY <1>4 DEF Stop, StopReadsPID, StopChecks, Signal, StopWaits, StopUnlinks, MarkStopped,
                MarkFails, Status, StatusReads, StatusReadsPID, StatusChecks, StatusUnlinks, Quiet
  <1>5. ASSUME NEW c \in Callers, Command(c) \/ Errors(c) \/ Kill(c) PROVE UNCHANGED misled
    BY <1>5 DEF Command, Errors, Kill
  <1>6. ASSUME Reboot \/ UNCHANGED vars PROVE UNCHANGED misled
    BY <1>6 DEF Reboot, vars, caller
  <1>7. ASSUME NEW c \in Callers, CallerStep(c) PROVE UNCHANGED misled \/ LookupFails(c)
    BY <1>3, <1>4, <1>5, <1>7, Zenon DEF CallerStep
  <1>8. UNCHANGED misled \/ \E c \in Callers : LookupFails(c)
    <2>1. Next \/ UNCHANGED vars
      OBVIOUS
    <2>2. CASE UNCHANGED vars
      BY <1>6, <2>2
    <2>3. CASE Next
      BY <2>3, <1>2, <1>6, <1>7, NextSteps, Zenon
    <2>4. QED
      BY <2>1, <2>2, <2>3
  <1>9. CASE \E c \in Callers : LookupFails(c)
    BY <1>1, <1>9, Zenon
  <1>10. CASE UNCHANGED misled
    BY <1>10, Zenon
  <1>11. QED
    BY <1>8, <1>9, <1>10

\* A step of a caller counts in the bounds.
LEMMA CallerCounts ==
    ASSUME NEW c \in Callers, CallerStep(c)
    PROVE  Counting
  <1> USE DEF Counting, Counts, Fail
  <1>1. CASE \/ ReadPID(c) \/ AlreadyRunning(c) \/ StalePID(c) \/ Spawn(c) \/ StartWritesPID(c)
             \/ StartWritesStatus(c) \/ StartUndoes(c)
    <2>1. UNCHANGED bounds
      BY <1>1 DEF ReadPID, AlreadyRunning, StalePID, Spawn, StartWritesPID, StartWritesStatus,
                  StartUndoes, Quiet
    <2>2. QED
      BY <2>1 DEF bounds
  <1>2. CASE UnlinkPID(c) \/ StartCannotWritePID(c)
    BY <1>2 DEF UnlinkPID, StartCannotWritePID
  <1>3. CASE StartCannotWriteStatus(c)
    BY <1>3 DEF StartCannotWriteStatus
  <1>4. CASE \/ StopReadsPID(c) \/ StopChecks(c) \/ Signal(c) \/ StopWaits(c) \/ StopUnlinks(c)
             \/ MarkStopped(c)
    <2>1. UNCHANGED bounds
      BY <1>4 DEF StopReadsPID, StopChecks, Signal, StopWaits, StopUnlinks, MarkStopped, Quiet
    <2>2. QED
      BY <2>1 DEF bounds
  <1>5. CASE MarkFails(c) \/ StatusUnlinks(c)
    BY <1>5 DEF MarkFails, StatusUnlinks
  <1>6. CASE StatusReads(c) \/ StatusReadsPID(c) \/ StatusChecks(c)
    BY <1>6 DEF StatusReads, StatusReadsPID, StatusChecks, Quiet, bounds
  <1>7. CASE Command(c) \/ LookupFails(c)
    BY <1>7 DEF Command, LookupFails
  <1>8. CASE Errors(c) \/ Kill(c)
    BY <1>8 DEF Errors, Kill
  <1>9. QED
    BY <1>1, <1>2, <1>3, <1>4, <1>5, <1>6, <1>7, <1>8 DEF CallerStep, Start, Stop, Status

\* What it does to the files is what a writer does with the number it has.
LEMMA CallerFiles ==
    ASSUME FilesOK, HasNumber, NEW c \in Callers, CallerStep(c)
    PROVE  FilesOK'
  <1> USE DEF Step
  <1> c \in Writers
    BY DEF Writers
  <1>1. CASE ReadPID(c) \/ AlreadyRunning(c) \/ StalePID(c) \/ UnlinkPID(c) \/ Spawn(c)
    BY <1>1 DEF ReadPID, AlreadyRunning, StalePID, UnlinkPID, Spawn, Quiet, RemovePID, FilesOK,
                files, pids, statuses, NoContent
  <1>2. CASE StartWritesPID(c)
    <2>1. child[c] \in Pids
      BY <1>2 DEF StartWritesPID, HasNumber
    <2>2. QED
      BY <1>2, <2>1, FilesTyped DEF StartWritesPID, FileOp
  <1>3. CASE StartCannotWritePID(c) \/ StartUndoes(c)
    BY <1>3 DEF StartCannotWritePID, StartUndoes, EndsChild, FilesOK, NoContent
  <1>4. CASE StartWritesStatus(c)
    <2>1. child[c] \in Pids
      BY <1>4 DEF StartWritesStatus, HasNumber
    <2>2. FileOp(c, child[c])
      BY <1>4 DEF StartWritesStatus, FileOp
    <2>3. QED
      BY <2>1, <2>2, FilesTyped
  <1>5. CASE StartCannotWriteStatus(c)
    BY <1>5 DEF StartCannotWriteStatus, FilesOK, NoContent, pids
  <1>6. CASE StopReadsPID(c) \/ StopChecks(c) \/ StopWaits(c) \/ StopUnlinks(c)
    BY <1>6 DEF StopReadsPID, StopChecks, StopWaits, StopUnlinks, Quiet, RemovePID, FilesOK,
                files, pids, statuses, NoContent
  <1>7. CASE Signal(c)
    BY <1>7 DEF Signal, Quiet, Closes, FilesOK, files, pids, statuses
  <1>8. CASE MarkStopped(c)
    <2>1. seen[c] \in Pids
      BY <1>8 DEF MarkStopped, HasNumber
    <2>2. FileOp(c, seen[c])
      BY <1>8 DEF MarkStopped, FileOp
    <2>3. QED
      BY <2>1, <2>2, FilesTyped
  <1>9. CASE MarkFails(c) \/ Kill(c)
    BY <1>9 DEF MarkFails, Kill, Closes, FilesOK
  <1>10. CASE Status(c)
    BY <1>10 DEF Status, StatusReads, StatusReadsPID, StatusChecks, StatusUnlinks, Quiet,
                 RemovePID, FilesOK, files, pids, statuses, NoContent
  <1>11. CASE Command(c) \/ LookupFails(c) \/ Errors(c)
    BY <1>11 DEF Command, LookupFails, Errors, FilesOK, files, pids, statuses
  <1>12. QED
    BY <1>1, <1>2, <1>3, <1>4, <1>5, <1>6, <1>7, <1>8, <1>9, <1>10, <1>11
    DEF CallerStep, Start, Stop

\* Only Spawn, the failures of Start and Signal touch a process.
CallerProcs(c) ==
    /\ \/ UNCHANGED proc
       \/ \E x \in Pids : proc[x] = "free" /\ proc' = [proc EXCEPT ![x] = "boot"]
       \/ /\ pc[c] \in {"openpid", "writepid", "undo"}
          /\ proc' = [proc EXCEPT ![child[c]] = "dead"]
       \/ /\ pc[c] = "signal" /\ proc[seen[c]] = "boot"
          /\ proc' = [proc EXCEPT ![seen[c]] = "dead"]
    /\ \/ UNCHANGED term
       \/ pc[c] = "signal" /\ term' = [term EXCEPT ![seen[c]] = TRUE]

LEMMA CallerStepProcs ==
    ASSUME NEW c \in Callers, CallerStep(c)
    PROVE  CallerProcs(c)
  <1> USE DEF CallerProcs, Step, Quiet
  <1>1. CASE Spawn(c)
    BY <1>1 DEF Spawn
  <1>2. CASE StartCannotWritePID(c) \/ StartUndoes(c)
    BY <1>2 DEF StartCannotWritePID, StartUndoes, EndsChild, Terminated
  <1>3. CASE Signal(c)
    BY <1>3 DEF Signal, Go
  <1>4. CASE Start(c) /\ ~Spawn(c) /\ ~StartCannotWritePID(c) /\ ~StartUndoes(c)
    BY <1>4 DEF Start, ReadPID, AlreadyRunning, StalePID, UnlinkPID, StartWritesPID,
                StartWritesStatus, StartCannotWriteStatus
  <1>5. CASE Stop(c) /\ ~Signal(c)
    BY <1>5 DEF Stop, StopReadsPID, StopChecks, StopWaits, StopUnlinks, MarkStopped, MarkFails
  <1>6. CASE Status(c)
    BY <1>6 DEF Status, StatusReads, StatusReadsPID, StatusChecks, StatusUnlinks
  <1>7. CASE Command(c) \/ LookupFails(c) \/ Errors(c) \/ Kill(c)
    BY <1>7 DEF Command, LookupFails, Errors, Kill
  <1>8. QED
    BY <1>1, <1>2, <1>3, <1>4, <1>5, <1>6, <1>7 DEF CallerStep

\* Every step, whoever takes it, keeps the types.
LEMMA TypeStep == TypeOK /\ HasNumber /\ [Next]_vars => TypeOK'
  <1> SUFFICES ASSUME TypeOK, HasNumber, [Next]_vars PROVE TypeOK'
    OBVIOUS
  <1>1. FilesOK /\ ProcOK /\ CallerOK /\ BoundsOK
    BY TypeParts
  <1>2. misled' \in BOOLEAN
    BY <1>1, MisledStays, Zenon DEF CallerOK
  <1>3. ASSUME NEW p \in Pids, DaemonStep(p) PROVE FilesOK' /\ ProcOK' /\ CallerOK' /\ BoundsOK'
    <2>1. FilesOK' /\ BoundsOK'
      BY <1>1, <1>3, DaemonFiles, FilesTyped, DaemonCounts, BoundsTyped DEF Writers
    <2>2. proc' \in [Pids -> ProcValues]
      BY <1>1, <1>3, DaemonMoves DEF ProcMoves, ProcOK, ProcValues
    <2>3. term' \in [Pids -> BOOLEAN]
      BY <1>1, <1>3, DaemonMoves DEF ProcOK
    <2>4. QED
      BY <1>1, <1>3, <2>1, <2>2, <2>3, CallersLeft DEF ProcOK, CallerOK, caller
  <1>4. ASSUME NEW c \in Callers, CallerStep(c)
        PROVE  FilesOK' /\ ProcOK' /\ CallerOK' /\ BoundsOK'
    <2>1. FilesOK' /\ BoundsOK' /\ CallerOK'
      BY <1>1, <1>2, <1>4, CallerFiles, CallerCounts, BoundsTyped, CallerStepFrame, CallerTyped
    <2>2. CallerProcs(c)
      BY <1>4, CallerStepProcs
    <2>3. proc' \in [Pids -> ProcValues]
      BY <1>1, <2>2 DEF CallerProcs, ProcOK, ProcValues, DaemonStates
    <2>4. term' \in [Pids -> BOOLEAN]
      BY <1>1, <2>2 DEF CallerProcs, ProcOK
    <2>5. QED
      BY <2>1, <2>3, <2>4 DEF ProcOK
  <1>5. CASE Reboot
    <2>1. FilesOK' /\ ProcOK'
      BY <1>1, <1>5 DEF Reboot, FilesOK, ProcOK, ProcValues
    <2>2. CallerOK'
      BY <1>1, <1>5, <1>2 DEF Reboot, CallerOK, Steps, Results
    <2>3. Counting
      BY <1>5 DEF Reboot, Counting, Counts
    <2>4. QED
      BY <1>1, <2>1, <2>2, <2>3, BoundsTyped, TypeParts DEF TypeOK, FilesOK, ProcOK, CallerOK,
         BoundsOK, ProcValues
  <1>6. CASE UNCHANGED vars
    BY <1>6 DEF vars, files, pids, statuses, caller, bounds, TypeOK
  <1>7. FilesOK' /\ ProcOK' /\ CallerOK' /\ BoundsOK' => TypeOK'
    BY DEF TypeOK, FilesOK, ProcOK, CallerOK, BoundsOK, ProcValues
  <1>8. QED
    BY <1>3, <1>4, <1>5, <1>6, <1>7, NextSteps

-----------------------------------------------------------------------------
(* What no interleaving can do.                                            *)

\* A number is spawned once, and a process that has ended stays so; another
\* program takes a number only by Reuse.
ProcStep(p) ==
    /\ proc[p] # "free" => proc'[p] # "free"
    /\ proc[p] \in {"dead", "foreign", "latecomer"} => proc'[p] \in {"dead", "foreign", "latecomer"}
    /\ proc'[p] = "foreign" => proc[p] = "foreign" \/ Reuse(p)

\* That holds of every step and process.
LEMMA ProcessesEnd ==
    ASSUME TypeOK, HasNumber, NumbersSpawned, [Next]_vars, NEW p \in Pids
    PROVE  ProcStep(p)
  <1> USE DEF ProcStep
  <1> proc \in [Pids -> ProcValues]
    BY TypeParts DEF ProcOK
  <1>1. ASSUME NEW q \in Pids, DaemonStep(q), ~Reuse(q) PROVE ProcStep(p)
    BY <1>1, DaemonMoves DEF ProcMoves, DaemonStates
  <1>2. ASSUME NEW q \in Pids, Reuse(q) PROVE ProcStep(p)
    <2>1. CASE q = p
      BY <1>2, <2>1 DEF Reuse, Go
    <2>2. CASE q # p
      BY <1>2, <2>2 DEF Reuse, Go
    <2>3. QED
      BY <2>1, <2>2
  <1>3. ASSUME NEW c \in Callers, CallerStep(c) PROVE ProcStep(p)
    <2>1. CallerProcs(c)
      BY <1>3, CallerStepProcs
    <2>2. pc[c] \in {"openpid", "writepid", "undo"} => child[c] \in Pids /\ proc[child[c]] # "free"
      BY DEF HasNumber, NumbersSpawned, Spawned
    <2>3. QED
      BY <2>1, <2>2 DEF CallerProcs
  <1>4. CASE Reboot
    BY <1>4 DEF Reboot
  <1>5. CASE UNCHANGED vars
    BY <1>5 DEF vars
  <1>6. QED
    BY <1>1, <1>2, <1>3, <1>4, <1>5, NextSteps

\* The PID file holds a number its writer has.
LEMMA PIDFileWritten ==
    ASSUME TypeOK, HasNumber, [Next]_vars
    PROVE  \/ pidFile' \in {pidFile} \cup NoContent
           \/ pidFile' \in Daemons
           \/ \E c \in Callers : pidFile' = child[c]
  <1> USE DEF files, pids, NoContent
  <1>1. ASSUME NEW p \in Pids, NEW w, WritePID(w, p) PROVE pidFile' \in {pidFile, Torn, p}
    BY <1>1 DEF WritePID, Over
  <1>2. ASSUME NEW p \in Pids, DaemonStep(p)
        PROVE  pidFile' \in {pidFile} \cup NoContent \cup Daemons
    <2>1. CASE DaemonWritesPID(p)
      <3>1. p \in Daemons
        BY <2>1 DEF DaemonWritesPID, Go, Daemons, DaemonStates
      <3>2. QED
        BY <1>1, <2>1, <3>1 DEF DaemonWritesPID, OpenPID
    <2>2. CASE DaemonOpensTmp(p) \/ DaemonWritesTmp(p) \/ DaemonRenames(p)
      BY <2>2 DEF DaemonOpensTmp, DaemonWritesTmp, DaemonRenames, OpenTmp, WriteTmp, RenameTmp
    <2>3. CASE DaemonRenameFails(p) \/ ClientReturns(p) \/ DaemonReadsPID(p) \/ DaemonRemovesPID(p)
      BY <2>3 DEF DaemonRenameFails, ClientReturns, DaemonReadsPID, DaemonRemovesPID, RemovePID
    <2>4. CASE UpdateFails(p) \/ Exec(p) \/ DaemonCrashes(p) \/ Reuse(p)
      BY <2>4 DEF UpdateFails, Exec, DaemonCrashes, Reuse, Closes
    <2>5. QED
      BY <1>2, <2>1, <2>2, <2>3, <2>4 DEF DaemonStep, Run
  <1>3. ASSUME NEW c \in Callers, CallerStep(c)
        PROVE  pidFile' \in {pidFile, child[c]} \cup NoContent
    <2>1. CASE StartWritesPID(c)
      <3>1. child[c] \in Pids
        BY <2>1 DEF StartWritesPID, Step, HasNumber
      <3>2. QED
        BY <1>1, <2>1, <3>1 DEF StartWritesPID, OpenPID
    <2>2. CASE Start(c) /\ ~StartWritesPID(c)
      BY <2>2 DEF Start, ReadPID, AlreadyRunning, StalePID, UnlinkPID, Spawn,
                  StartCannotWritePID, StartWritesStatus, StartCannotWriteStatus, StartUndoes,
                  EndsChild, RemovePID, OpenTmp, WriteTmp, RenameTmp, Quiet
    <2>3. CASE Stop(c)
      BY <2>3 DEF Stop, StopReadsPID, StopChecks, Signal, StopWaits, StopUnlinks, MarkStopped,
                  MarkFails, RemovePID, OpenTmp, WriteTmp, RenameTmp, Closes, Quiet
    <2>4. CASE Status(c)
      BY <2>4 DEF Status, StatusReads, StatusReadsPID, StatusChecks, StatusUnlinks, RemovePID,
                  Quiet
    <2>5. CASE Command(c) \/ LookupFails(c) \/ Errors(c) \/ Kill(c)
      BY <2>5 DEF Command, LookupFails, Errors, Kill, Closes
    <2>6. QED
      BY <1>3, <2>1, <2>2, <2>3, <2>4, <2>5 DEF CallerStep
  <1>4. CASE Reboot \/ UNCHANGED vars
    BY <1>4 DEF Reboot, vars
  <1>5. QED
    BY <1>2, <1>3, <1>4, NextSteps

\* What a step does to the callers.
LEMMA CallersMove ==
    ASSUME TypeOK, [Next]_vars, NEW c \in Callers
    PROVE  \/ UNCHANGED <<pc[c], cmd[c], seen[c], child[c], result[c]>>
           \/ CallerStep(c) /\ CallerFrame(c)
           \/ Reboot
  <1> CallerOK
    BY TypeParts
  <1>1. ASSUME NEW p \in Pids, DaemonStep(p)
        PROVE  UNCHANGED <<pc[c], cmd[c], seen[c], child[c], result[c]>>
    BY <1>1, CallersLeft DEF caller
  <1>2. ASSUME NEW d \in Callers, CallerStep(d), d # c
        PROVE  UNCHANGED <<pc[c], cmd[c], seen[c], child[c], result[c]>>
    <2>1. CallerFrame(d)
      BY <1>2, CallerStepFrame
    <2>2. pc'[c] = pc[c] /\ cmd'[c] = cmd[c] /\ result'[c] = result[c]
      BY <1>2, <2>1 DEF CallerFrame, CallerOK
    <2>3. seen'[c] = seen[c] /\ child'[c] = child[c]
      BY <1>2, <2>1 DEF CallerFrame, CallerOK
    <2>4. QED
      BY <2>2, <2>3
  <1>3. CallerStep(c) => CallerFrame(c)
    BY CallerStepFrame
  <1>4. CASE UNCHANGED vars
    BY <1>4 DEF vars, caller
  <1>5. QED
    BY <1>1, <1>2, <1>3, <1>4, NextSteps

\* A number that is remembered keeps meaning a process there was.
LEMMA NumbersStep == TypeOK /\ HasNumber /\ NumbersSpawned /\ [Next]_vars => NumbersSpawned'
  <1> SUFFICES ASSUME TypeOK, HasNumber, NumbersSpawned, [Next]_vars PROVE NumbersSpawned'
    OBVIOUS
  <1>1. \A p \in Pids : p \in Spawned => p \in Spawned'
    BY ProcessesEnd DEF ProcStep, Spawned
  <1>2. NoContent \cap Pids = {} /\ Daemons \subseteq Spawned
    BY LifecycleAssumption DEF NoContent, Daemons, DaemonStates, Spawned
  <1>3. pidFile' \in Pids => pidFile' \in Spawned'
    BY <1>1, <1>2, PIDFileWritten DEF NumbersSpawned
  <1>4. ASSUME NEW c \in Callers
        PROVE  /\ seen'[c] \in Pids => seen'[c] \in Spawned'
               /\ child'[c] \in Pids => child'[c] \in Spawned'
    <2>1. CASE UNCHANGED <<pc[c], cmd[c], seen[c], child[c], result[c]>>
      BY <1>1, <2>1 DEF NumbersSpawned
    <2>2. CASE CallerFrame(c)
      <3>1. seen'[c] \in Pids => seen'[c] \in Spawned'
        BY <1>1, <2>2, TypeParts DEF CallerFrame, NumbersSpawned, CallerOK
      <3>2. CASE child' = child
        BY <1>1, <3>1, <3>2 DEF NumbersSpawned
      <3>3. ASSUME NEW x \in Pids, proc' = [proc EXCEPT ![x] = "boot"],
                   child' = [child EXCEPT ![c] = x]
            PROVE  child'[c] \in Spawned'
        BY <3>3, TypeParts DEF Spawned, CallerOK, ProcOK
      <3>4. QED
        BY <2>2, <3>1, <3>2, <3>3 DEF CallerFrame
    <2>3. CASE Reboot
      BY <1>1, <2>3 DEF Reboot, NumbersSpawned
    <2>4. QED
      BY <2>1, <2>2, <2>3, CallersMove
  <1>5. QED
    BY <1>3, <1>4 DEF NumbersSpawned

\* One caller's part.
HasNumberOf(c) ==
    /\ pc[c] \in {"check", "stopcheck", "signal", "wait", "stopunlink", "mark", "markwrite",
                  "markrename", "statuscheck"} => seen[c] \in Pids
    /\ pc[c] \in {"openpid", "writepid", "tmp", "write", "rename", "undo"} => child[c] \in Pids
    /\ result[c] = "failed" => pc[c] = "idle" /\ child[c] \in Pids

\* A command that uses a number has read it, or spawned it, before.
LEMMA HasNumberStep == TypeOK /\ HasNumber /\ [Next]_vars => HasNumber'
  <1> SUFFICES ASSUME TypeOK, HasNumber, [Next]_vars, NEW c \in Callers PROVE HasNumberOf(c)'
    BY DEF HasNumber, HasNumberOf
  <1>1. HasNumberOf(c)
    BY DEF HasNumber, HasNumberOf
  <1> CallerOK
    BY TypeParts
  <1> USE DEF Step, Return, NoReturn, Quiet, HasNumberOf, CallerOK
  <1>2. CASE UNCHANGED <<pc[c], cmd[c], seen[c], child[c], result[c]>>
    BY <1>1, <1>2
  <1>3. CASE Reboot
    BY <1>1, <1>3 DEF Reboot
  <1>4. CASE ReadPID(c) \/ AlreadyRunning(c) \/ StalePID(c) \/ UnlinkPID(c)
    BY <1>1, <1>4 DEF ReadPID, AlreadyRunning, StalePID, UnlinkPID
  <1>5. CASE Spawn(c)
    BY <1>1, <1>5 DEF Spawn
  <1>6. CASE StartWritesPID(c) \/ StartCannotWritePID(c) \/ StartUndoes(c)
    BY <1>1, <1>6 DEF StartWritesPID, StartCannotWritePID, StartUndoes
  <1>7. CASE StartWritesStatus(c) \/ StartCannotWriteStatus(c)
    BY <1>1, <1>7 DEF StartWritesStatus, StartCannotWriteStatus
  <1>8. CASE StopReadsPID(c) \/ StatusReadsPID(c)
    BY <1>1, <1>8 DEF StopReadsPID, StatusReadsPID, AfterStop
  <1>9. CASE StopChecks(c) \/ Signal(c) \/ StopWaits(c)
    BY <1>1, <1>9 DEF StopChecks, Signal, StopWaits
  <1>10. CASE StopUnlinks(c) \/ MarkStopped(c)
    BY <1>1, <1>10 DEF StopUnlinks, MarkStopped, AfterStop
  <1>11. CASE MarkFails(c)
    BY <1>1, <1>11 DEF MarkFails, AfterStop
  <1>12. CASE StatusReads(c) \/ StatusChecks(c) \/ StatusUnlinks(c)
    BY <1>1, <1>12 DEF StatusReads, StatusChecks, StatusUnlinks
  <1>13. CASE Command(c)
    BY <1>1, <1>13, CommandBegins
  <1>14. CASE LookupFails(c)
    BY <1>1, <1>14 DEF LookupFails
  <1>15. CASE Errors(c) \/ Kill(c)
    BY <1>1, <1>15 DEF Errors, Kill
  <1>16. QED
    BY <1>2, <1>3, <1>4, <1>5, <1>6, <1>7, <1>8, <1>9, <1>10, <1>11, <1>12, <1>13, <1>14,
       <1>15, CallersMove
    DEF CallerStep, Start, Stop, Status

\* A daemon that ends between the check and the signal is not replaced unseen.
LEMMA SignalsDaemonsStep ==
    TypeOK /\ HasNumber /\ NumbersSpawned /\ SignalsDaemons /\ [Next]_vars => SignalsDaemons'
  <1> SUFFICES ASSUME TypeOK, HasNumber, NumbersSpawned, SignalsDaemons, [Next]_vars,
                      NEW c \in Callers, pc'[c] = "signal"
               PROVE  proc'[seen'[c]] # "foreign"
    BY DEF SignalsDaemons
  <1> CallerOK /\ ProcOK
    BY TypeParts
  <1> USE DEF Step, Return, NoReturn, Quiet, CallerOK
  <1>1. CASE UNCHANGED <<pc[c], cmd[c], seen[c], child[c], result[c]>>
    <2>1. seen[c] \in Pids /\ proc[seen[c]] # "foreign" /\ pc[c] = "signal"
      BY <1>1 DEF HasNumber, SignalsDaemons
    <2>2. ~Reuse(seen[c]) \/ proc'[seen[c]] # "foreign"
      BY <2>1 DEF Reuse, Go, ProcOK
    <2>3. QED
      BY <1>1, <2>1, <2>2, ProcessesEnd DEF ProcStep
  <1>2. CASE StopChecks(c)
    <2>1. Owned(seen[c]) /\ proc' = proc /\ seen' = seen
      BY <1>2 DEF StopChecks
    <2>2. QED
      BY <2>1 DEF Owned, Daemons, DaemonStates
  <1>3. ~Start(c)
    BY DEF Start, ReadPID, AlreadyRunning, StalePID, UnlinkPID, Spawn, StartWritesPID,
           StartCannotWritePID, StartWritesStatus, StartCannotWriteStatus, StartUndoes
  <1>4. Stop(c) => StopChecks(c)
    BY DEF Stop, StopReadsPID, Signal, StopWaits, StopUnlinks, MarkStopped, MarkFails, AfterStop
  <1>5. ~Status(c)
    BY DEF Status, StatusReads, StatusReadsPID, StatusChecks, StatusUnlinks
  <1>6. ~Command(c) /\ ~LookupFails(c) /\ ~Errors(c) /\ ~Kill(c) /\ ~Reboot
    BY CommandBegins DEF LookupFails, Errors, Kill, Reboot
  <1>7. QED
    BY <1>1, <1>2, <1>3, <1>4, <1>5, <1>6, CallersMove DEF CallerStep

Cleaning == {"stopunlink", "mark", "markwrite", "markrename"}

\* A stop that has taken effect keeps the number of a process that has ended.
LEMMA TargetStoppedStep ==
    TypeOK /\ HasNumber /\ NumbersSpawned /\ TargetStopped /\ [Next]_vars => TargetStopped'
  <1> SUFFICES ASSUME TypeOK, HasNumber, NumbersSpawned, TargetStopped, [Next]_vars, ~misled',
                      NEW c \in Shells, pc'[c] \in Cleaning
               PROVE  seen'[c] \notin Daemons'
    BY DEF TargetStopped, Cleaning
  <1> c \in Callers
    BY DEF Callers
  <1> CallerOK /\ ProcOK
    BY TypeParts
  <1>1. ~misled /\ ~LookupFails(c)
    <2>1. ~misled
      BY MisledStays, Zenon
    <2>2. LookupFails(c) => misled' = TRUE
      BY DEF LookupFails
    <2>3. QED
      BY <2>1, <2>2, Zenon
  <1>2. pc[c] \in Cleaning => seen[c] \notin Daemons
    BY <1>1, Zenon DEF TargetStopped, Cleaning
  <1>3. /\ pc[c] \in Cleaning \cup {"stopcheck", "signal", "wait"}
        /\ seen[c] \notin Daemons /\ seen'[c] = seen[c]
    <2> USE DEF Step, Return, NoReturn, Quiet, CallerOK, Cleaning
    <2>1. CASE UNCHANGED <<pc[c], cmd[c], seen[c], child[c], result[c]>>
      BY <1>2, <2>1
    <2>2. CASE StopChecks(c) \/ StopWaits(c)
      BY <2>2 DEF StopChecks, StopWaits, Owned
    <2>3. CASE Signal(c)
      BY <2>3 DEF Signal, Daemons, DaemonStates
    <2>4. CASE StopUnlinks(c) \/ MarkStopped(c)
      BY <1>2, <2>4 DEF StopUnlinks, MarkStopped, AfterStop
    <2>5. ~Start(c)
      BY DEF Start, ReadPID, AlreadyRunning, StalePID, UnlinkPID, Spawn, StartWritesPID,
             StartCannotWritePID, StartWritesStatus, StartCannotWriteStatus, StartUndoes
    <2>6. ~StopReadsPID(c) /\ ~MarkFails(c)
      BY DEF StopReadsPID, MarkFails, AfterStop
    <2>7. ~Status(c)
      BY DEF Status, StatusReads, StatusReadsPID, StatusChecks, StatusUnlinks
    <2>8. ~Command(c) /\ ~Errors(c) /\ ~Kill(c) /\ ~Reboot
      BY CommandBegins DEF Errors, Kill, Reboot
    <2>9. QED
      BY <1>1, <2>1, <2>2, <2>3, <2>4, <2>5, <2>6, <2>7, <2>8, CallersMove DEF CallerStep, Stop
  <1>4. seen[c] \in Pids /\ proc[seen[c]] \in {"dead", "foreign", "latecomer"}
    <2>1. seen[c] \in Pids /\ seen[c] \in Spawned
      BY <1>3 DEF HasNumber, NumbersSpawned, Cleaning
    <2>2. QED
      BY <1>3, <2>1 DEF Spawned, Daemons, ProcOK, ProcValues
  <1>5. proc'[seen[c]] \in {"dead", "foreign", "latecomer"}
    BY <1>4, ProcessesEnd DEF ProcStep
  <1>6. QED
    BY <1>3, <1>5 DEF Daemons, DaemonStates

\* A failed Start killed its child, and no caller spawns that number again.
LEMMA NoStrayChildStep ==
    TypeOK /\ HasNumber /\ NoStrayChild /\ NumbersSpawned /\ [Next]_vars => NoStrayChild'
  <1> SUFFICES ASSUME TypeOK, HasNumber, NoStrayChild, NumbersSpawned, [Next]_vars,
                      NEW c \in Callers, result'[c] = "failed"
               PROVE  child'[c] \notin Daemons'
    BY DEF NoStrayChild
  <1> CallerOK /\ ProcOK
    BY TypeParts
  <1> USE DEF Step, Return, NoReturn, Quiet, CallerOK
  <1>1. CASE StartCannotWritePID(c) \/ StartUndoes(c)
    <2>1. child[c] \in Pids
      BY <1>1 DEF StartCannotWritePID, StartUndoes, HasNumber
    <2>2. child' = child /\ proc' = [proc EXCEPT ![child[c]] = "dead"]
      BY <1>1 DEF StartCannotWritePID, StartUndoes, EndsChild, Terminated
    <2>3. QED
      BY <2>1, <2>2 DEF ProcOK, Daemons, DaemonStates
  <1>2. CASE result[c] = "failed" /\ child'[c] = child[c]
    <2>1. child[c] \in Pids /\ child[c] \in Spawned /\ child[c] \notin Daemons
      BY <1>2 DEF HasNumber, NumbersSpawned, NoStrayChild
    <2>2. proc[child[c]] \in {"dead", "foreign", "latecomer"}
      BY <2>1 DEF Spawned, Daemons, ProcOK, ProcValues
    <2>3. proc'[child[c]] \in {"dead", "foreign", "latecomer"}
      BY <2>1, <2>2, ProcessesEnd DEF ProcStep
    <2>4. QED
      BY <1>2, <2>3 DEF Daemons, DaemonStates
  <1>3. Start(c) => StartCannotWritePID(c) \/ StartUndoes(c)
    <2>1. pc[c] # "idle" => result[c] # "failed"
      BY DEF HasNumber
    <2>2. QED
      BY <2>1 DEF Start, ReadPID, AlreadyRunning, StalePID, UnlinkPID, Spawn, StartWritesPID,
                  StartWritesStatus, StartCannotWriteStatus
  <1>4. ~Stop(c)
    <2>1. pc[c] # "idle" => result[c] # "failed"
      BY DEF HasNumber
    <2>2. QED
      BY <2>1 DEF Stop, StopReadsPID, StopChecks, Signal, StopWaits, StopUnlinks, MarkStopped,
                  MarkFails
  <1>5. ~Status(c)
    <2>1. pc[c] # "idle" => result[c] # "failed"
      BY DEF HasNumber
    <2>2. QED
      BY <2>1 DEF Status, StatusReads, StatusReadsPID, StatusChecks, StatusUnlinks
  <1>6. ~Command(c) /\ ~LookupFails(c) /\ ~Errors(c) /\ ~Kill(c) /\ ~Reboot
    <2>1. pc[c] # "idle" => result[c] # "failed"
      BY DEF HasNumber
    <2>2. QED
      BY <2>1, CommandBegins DEF LookupFails, Errors, Kill, Reboot
  <1>7. QED
    BY <1>1, <1>2, <1>3, <1>4, <1>5, <1>6, CallersMove DEF CallerStep

\* Only who was a daemon when it was checked is signalled.
LEMMA ForeignUntouchedStep ==
    TypeOK /\ HasNumber /\ NumbersSpawned /\ SignalsDaemons /\ ForeignUntouched /\ [Next]_vars
       => ForeignUntouched'
  <1> SUFFICES ASSUME TypeOK, HasNumber, NumbersSpawned, SignalsDaemons, ForeignUntouched,
                      [Next]_vars, NEW p \in Pids, proc'[p] = "foreign"
               PROVE  ~term'[p]
    BY DEF ForeignUntouched
  <1> ProcOK
    BY TypeParts
  <1>1. CASE Reboot
    BY <1>1 DEF Reboot
  <1>2. CASE Reuse(p)
    BY <1>2 DEF Reuse, ProcOK
  <1>3. CASE ~Reboot /\ ~Reuse(p)
    <2>1. proc[p] = "foreign" /\ ~term[p]
      BY <1>3, ProcessesEnd DEF ProcStep, ForeignUntouched
    <2>2. ASSUME NEW q \in Pids, DaemonStep(q) PROVE ~term'[p]
      BY <2>1, <2>2, DaemonMoves DEF ProcOK
    <2>3. ASSUME NEW c \in Callers, CallerStep(c) PROVE ~term'[p]
      <3>1. CallerProcs(c)
        BY <2>3, CallerStepProcs
      <3>2. pc[c] = "signal" => seen[c] # p
        BY <2>1 DEF SignalsDaemons
      <3>3. QED
        BY <2>1, <3>1, <3>2 DEF CallerProcs, ProcOK
    <2>4. CASE UNCHANGED vars
      BY <2>1, <2>4 DEF vars
    <2>5. QED
      BY <1>3, <2>2, <2>3, <2>4, NextSteps
  <1>4. QED
    BY <1>1, <1>2, <1>3

\* Before the first command there is nothing to be wrong about.
LEMMA InitLifecycle == Init => LifecycleInv
  <1> SUFFICES ASSUME Init PROVE LifecycleInv
    OBVIOUS
  <1>1. TypeOK
    <2>1. FilesOK
      BY DEF Init, FilesOK, NoContent
    <2>2. ProcOK
      BY DEF Init, ProcOK, ProcValues
    <2>3. CallerOK
      BY DEF Init, CallerOK, Names, Steps, Results, NoContent
    <2>4. BoundsOK
      BY LifecycleAssumption DEF Init, BoundsOK
    <2>5. QED
      BY <2>1, <2>2, <2>3, <2>4, TypeParts
  <1>2. NumbersSpawned /\ HasNumber
    BY LifecycleAssumption DEF Init, NumbersSpawned, HasNumber
  <1>3. SignalsDaemons /\ TargetStopped /\ NoStrayChild /\ ForeignUntouched
    BY DEF Init, SignalsDaemons, TargetStopped, NoStrayChild, ForeignUntouched, Callers
  <1>4. QED
    BY <1>1, <1>2, <1>3 DEF LifecycleInv

\* The inductive invariant, for any callers, faults and bounds.
THEOREM LifecycleSafety == Spec => []LifecycleInv
  <1>1. LifecycleInv /\ [Next]_vars => LifecycleInv'
    BY TypeStep, NumbersStep, HasNumberStep, SignalsDaemonsStep, TargetStoppedStep,
       NoStrayChildStep, ForeignUntouchedStep
    DEF LifecycleInv
  <1>2. QED
    BY InitLifecycle, <1>1, PTL DEF Spec

\* Every variable keeps its type; in particular a caller signals, waits for and
\* reports only numbers it has read or spawned (service.go:87-141, 414-508).
THEOREM TypeCorrect == Spec => []TypeOK
  <1>1. LifecycleInv => TypeOK
    BY DEF LifecycleInv
  <1>2. QED
    BY LifecycleSafety, <1>1, PTL

\* A stop that took effect ended the daemon it was after, whoever else starts,
\* stops or reboots meanwhile, unless a look-up has failed (service.go:430-465).
THEOREM TargetStoppedAlways == Spec => []TargetStopped
  <1>1. LifecycleInv => TargetStopped
    BY DEF LifecycleInv
  <1>2. QED
    BY LifecycleSafety, <1>1, PTL

\* A Start that failed left no child (service.go:118-137).
THEOREM NoStrayChildAlways == Spec => []NoStrayChild
  <1>1. LifecycleInv => NoStrayChild
    BY DEF LifecycleInv
  <1>2. QED
    BY LifecycleSafety, <1>1, PTL

\* No program that had the number before it was checked gets SIGTERM, whatever
\* daemons end and whatever numbers are taken meanwhile (service.go:430-447).
THEOREM ForeignUntouchedAlways == Spec => []ForeignUntouched
  <1>1. LifecycleInv => ForeignUntouched
    BY DEF LifecycleInv
  <1>2. QED
    BY LifecycleSafety, <1>1, PTL

-----------------------------------------------------------------------------
(* One shell, one daemon.                                                  *)

\* The shell's part of the invariant.
OneDaemonOf(s) ==
    /\ \A p \in Daemons :
          /\ pidFile = p \/ pc[s] \in {"openpid", "undo"}
          /\ pc[s] \in {"openpid", "tmp", "write", "rename", "undo"} => child[s] = p
          /\ pc[s] \in {"check", "stopcheck", "signal", "wait", "statuscheck"} => seen[s] = p
    /\ pc[s] \in {"unlink", "spawn", "stopunlink", "mark", "markwrite", "markrename",
                  "statusunlink"} => Daemons = {}
    /\ cmd[s] # "foreground" /\ pc[s] # "writepid"
    /\ pc[s] \in {"stopread", "stopcheck", "signal", "wait", "stopunlink", "mark",
                  "markwrite", "markrename"} => cmd[s] \in {"stop", "restart"}
    /\ pc[s] \in {"read", "check", "unlink", "spawn", "openpid", "tmp", "write", "rename",
                  "undo"} => cmd[s] # "stop"
    /\ pc[s] = "idle" /\ cmd[s] = "stop" /\ result[s] \in {"ok", "unshown", "notrunning"}
          => Daemons = {}

\* With one shell its part is the whole.
LEMMA OneDaemonByShell ==
    ASSUME NEW s, Shells = {s}
    PROVE  OneDaemonInv <=> (misled \/ OneDaemonOf(s))
  BY Zenon DEF OneDaemonInv, OneDaemonOf

\* There are no two, since one number stands for both.
LEMMA AtMostOne ==
    ASSUME NEW s, OneDaemonOf(s), NEW p \in Daemons, NEW q \in Daemons
    PROVE  p = q
  BY DEF OneDaemonOf

\* A daemon's step is that of the one there is, or it is none's.
LEMMA DaemonsShrink ==
    ASSUME TypeOK, NEW p \in Pids, DaemonStep(p)
    PROVE  Daemons' \subseteq Daemons /\ (p \in Daemons \/ Reuse(p))
  <1> ProcOK
    BY TypeParts
  <1>1. Reuse(p) \/ proc[p] \in DaemonStates
    BY DaemonMoves
  <1>2. CASE Reuse(p)
    BY <1>2 DEF Reuse, Go, Daemons, DaemonStates, ProcOK
  <1>3. CASE proc[p] \in DaemonStates
    BY <1>3, DaemonMoves DEF ProcMoves, Daemons, ProcOK
  <1>4. QED
    BY <1>1, <1>2, <1>3 DEF Daemons

\* A daemon's steps.
LEMMA OneDaemonRun ==
    ASSUME NEW s, TypeOK, AtomicPID, OneDaemonOf(s), NEW p \in Pids, DaemonStep(p)
    PROVE  OneDaemonOf(s)'
  <1> ProcOK
    BY TypeParts
  <1> USE DEF files, pids, caller
  <1>1. UNCHANGED <<pc, cmd, seen, child, result>>
    BY CallersLeft
  <1>2. Daemons' \subseteq Daemons
    BY DaemonsShrink
  <1>3. CASE pidFile' = pidFile
    BY <1>1, <1>2, <1>3 DEF OneDaemonOf
  <1>4. CASE DaemonWritesPID(p)
    <2>1. pidFile' = p /\ p \in Daemons
      BY <1>4 DEF DaemonWritesPID, OpenPID, WritePID, Go, Daemons, DaemonStates
    <2>2. QED
      BY <1>1, <1>2, <2>1, AtMostOne DEF OneDaemonOf
  <1>5. CASE DaemonRemovesPID(p)
    <2>1. p \in Daemons /\ p \notin Daemons'
      BY <1>5 DEF DaemonRemovesPID, Go, Daemons, DaemonStates, ProcOK
    <2>2. Daemons' = {}
      BY <1>2, <2>1, AtMostOne
    <2>3. QED
      BY <1>1, <2>2 DEF OneDaemonOf
  <1>6. CASE DaemonOpensTmp(p) \/ DaemonWritesTmp(p) \/ DaemonRenames(p)
    <2>1. pidFile' = pidFile
      BY <1>6 DEF DaemonOpensTmp, DaemonWritesTmp, DaemonRenames, OpenTmp, WriteTmp, RenameTmp
    <2>2. QED
      BY <1>3, <2>1
  <1>7. CASE DaemonRenameFails(p) \/ ClientReturns(p) \/ DaemonReadsPID(p)
    BY <1>3, <1>7 DEF DaemonRenameFails, ClientReturns, DaemonReadsPID
  <1>8. CASE UpdateFails(p) \/ Exec(p) \/ DaemonCrashes(p) \/ Reuse(p)
    BY <1>3, <1>8 DEF UpdateFails, Exec, DaemonCrashes, Reuse, Closes
  <1>9. QED
    BY <1>4, <1>5, <1>6, <1>7, <1>8 DEF DaemonStep, Run

\* The shell's steps.
LEMMA OneDaemonStart ==
    ASSUME NEW s \in Callers, TypeOK, HasNumber, AtomicPID, OneDaemonOf(s), Start(s)
    PROVE  OneDaemonOf(s)'
  <1> CallerOK /\ ProcOK
    BY TypeParts
  <1> USE DEF Step, Return, NoReturn, Quiet, files, pids, CallerOK
  <1>1. CASE ReadPID(s)
    <2>1. Daemons' = Daemons /\ pidFile' = pidFile /\ cmd' = cmd /\ seen'[s] = pidFile
      BY <1>1 DEF ReadPID, Daemons
    <2>2. \A p \in Daemons : pidFile = p /\ p \in Pids
      BY <1>1 DEF ReadPID, OneDaemonOf, Daemons
    <2>3. pidFile \notin Pids => Daemons = {}
      BY <2>2
    <2>4. pc'[s] = (IF pidFile \in Pids THEN "check" ELSE "spawn") /\ cmd[s] # "stop"
          /\ cmd[s] # "foreground"
      BY <1>1 DEF ReadPID, OneDaemonOf
    <2>5. QED
      BY <2>1, <2>2, <2>3, <2>4 DEF OneDaemonOf
  <1>2. CASE AlreadyRunning(s) \/ StalePID(s)
    <2>1. Daemons' = Daemons /\ pidFile' = pidFile /\ cmd' = cmd
      BY <1>2 DEF AlreadyRunning, StalePID, Daemons
    <2>2. QED
      BY <1>2, <2>1 DEF AlreadyRunning, StalePID, Owned, OneDaemonOf
  <1>3. CASE UnlinkPID(s)
    <2>1. Daemons = {} /\ Daemons' = {} /\ cmd' = cmd
      BY <1>3 DEF UnlinkPID, OneDaemonOf, Daemons
    <2>2. QED
      BY <1>3, <2>1 DEF UnlinkPID, OneDaemonOf
  <1>4. CASE Spawn(s)
    <2>1. PICK p \in Pids : /\ proc' = [proc EXCEPT ![p] = "boot"]
                            /\ child' = [child EXCEPT ![s] = p]
      BY <1>4 DEF Spawn
    <2>2. Daemons = {} /\ cmd[s] # "foreground" /\ cmd[s] # "stop"
      BY <1>4 DEF Spawn, OneDaemonOf
    <2>3. \A q \in Daemons' : q = p
      BY <2>1, <2>2 DEF Daemons, ProcOK
    <2>4. pc'[s] = "openpid" /\ child'[s] = p /\ cmd' = cmd
      BY <1>4, <2>1, <2>2 DEF Spawn
    <2>5. QED
      BY <2>2, <2>3, <2>4 DEF OneDaemonOf
  <1>5. CASE StartWritesPID(s) \/ StartWritesStatus(s)
    <2>1. Daemons' = Daemons /\ cmd' = cmd /\ child' = child
      BY <1>5 DEF StartWritesPID, StartWritesStatus, Daemons
    <2>2. /\ pc'[s] \in {"tmp", "write", "rename", "idle"} /\ cmd[s] # "stop"
          /\ cmd[s] # "foreground"
          /\ \A p \in Daemons : child[s] = p
      BY <1>5 DEF StartWritesPID, StartWritesStatus, OpenPID, OneDaemonOf
    <2>3. \A p \in Daemons : pidFile' = p
      <3>1. CASE StartWritesPID(s)
        <4>1. pidFile' = child[s]
          BY <3>1 DEF StartWritesPID, OpenPID, WritePID
        <4>2. QED
          BY <2>2, <4>1
      <3>2. CASE StartWritesStatus(s)
        <4>1. pidFile' = pidFile /\ pc[s] \in {"tmp", "write", "rename"}
          BY <3>2 DEF StartWritesStatus, OpenTmp, WriteTmp, RenameTmp
        <4>2. QED
          BY <4>1 DEF OneDaemonOf
      <3>3. QED
        BY <1>5, <3>1, <3>2
    <2>4. QED
      BY <2>1, <2>2, <2>3 DEF OneDaemonOf
  <1>6. CASE StartCannotWriteStatus(s)
    <2>1. Daemons' = Daemons /\ cmd' = cmd /\ child' = child
      BY <1>6 DEF StartCannotWriteStatus, Daemons
    <2>2. pc'[s] = "undo" /\ cmd[s] # "stop" /\ cmd[s] # "foreground"
          /\ \A p \in Daemons : child[s] = p
      BY <1>6 DEF StartCannotWriteStatus, OneDaemonOf
    <2>3. QED
      BY <2>1, <2>2 DEF OneDaemonOf
  <1>7. CASE StartCannotWritePID(s) \/ StartUndoes(s)
    <2>1. proc' = [proc EXCEPT ![child[s]] = "dead"] /\ child[s] \in Pids
      BY <1>7 DEF StartCannotWritePID, StartUndoes, EndsChild, Terminated, HasNumber
    <2>2. (\A p \in Daemons : child[s] = p) /\ cmd[s] # "stop" /\ cmd[s] # "foreground"
      BY <1>7 DEF StartCannotWritePID, StartUndoes, OneDaemonOf
    <2>3. Daemons' = {}
      BY <2>1, <2>2 DEF Daemons, DaemonStates, ProcOK
    <2>4. pc'[s] = "idle" /\ cmd' = cmd
      BY <1>7 DEF StartCannotWritePID, StartUndoes
    <2>5. QED
      BY <2>2, <2>3, <2>4 DEF OneDaemonOf
  <1>8. QED
    BY <1>1, <1>2, <1>3, <1>4, <1>5, <1>6, <1>7 DEF Start

\* A stop takes the PID file away only once the daemon it names has ended.
LEMMA OneDaemonStop ==
    ASSUME NEW s \in Callers, TypeOK, HasNumber, OneDaemonOf(s), Stop(s) \/ Status(s)
    PROVE  OneDaemonOf(s)'
  <1> CallerOK /\ ProcOK
    BY TypeParts
  <1> USE DEF Step, Return, NoReturn, Quiet, files, pids, AfterStop, CallerOK
  <1>1. CASE StopReadsPID(s) \/ StatusReadsPID(s)
    <2>1. Daemons' = Daemons /\ pidFile' = pidFile /\ cmd' = cmd /\ seen'[s] = pidFile
      BY <1>1 DEF StopReadsPID, StatusReadsPID, Daemons
    <2>2. \A p \in Daemons : pidFile = p /\ p \in Pids
      BY <1>1 DEF StopReadsPID, StatusReadsPID, OneDaemonOf, Daemons
    <2>3. pidFile \notin Pids => Daemons = {}
      BY <2>2
    <2>4. CASE StopReadsPID(s)
      <3>1. cmd[s] \in {"stop", "restart"}
        BY <2>4 DEF StopReadsPID, OneDaemonOf
      <3>2. \/ pc'[s] = "stopcheck" \/ (pc'[s] = "idle" /\ result'[s] = "badpid")
            \/ (Daemons = {} /\ pc'[s] = IF cmd[s] = "restart" THEN "read" ELSE "idle")
        BY <2>3, <2>4, LifecycleAssumption DEF StopReadsPID
      <3>3. QED
        BY <2>1, <2>2, <3>1, <3>2 DEF OneDaemonOf
    <2>5. CASE StatusReadsPID(s)
      <3>1. \/ pc'[s] = "statuscheck"
            \/ pc'[s] = "idle" /\ result'[s] \in {"stopped", "badpid"}
        BY <2>5 DEF StatusReadsPID
      <3>2. cmd[s] # "foreground"
        BY DEF OneDaemonOf
      <3>3. QED
        BY <2>1, <2>2, <3>1, <3>2 DEF OneDaemonOf
    <2>6. QED
      BY <1>1, <2>4, <2>5
  <1>2. CASE StopChecks(s) \/ StopWaits(s) \/ StatusChecks(s)
    <2>1. Daemons' = Daemons /\ pidFile' = pidFile /\ cmd' = cmd /\ seen' = seen
      BY <1>2 DEF StopChecks, StopWaits, StatusChecks, Daemons
    <2>2. \A p \in Daemons : pidFile = p /\ seen[s] = p
      BY <1>2 DEF StopChecks, StopWaits, StatusChecks, OneDaemonOf
    <2>3. seen[s] \notin Daemons => Daemons = {}
      BY <2>2
    <2>4. QED
      BY <1>2, <2>1, <2>2, <2>3 DEF StopChecks, StopWaits, StatusChecks, Owned, OneDaemonOf
  <1>3. CASE Signal(s)
    <2>1. Daemons' \subseteq Daemons /\ pidFile' = pidFile /\ cmd' = cmd /\ seen' = seen
      BY <1>3 DEF Signal, Closes, Go, Daemons, DaemonStates, ProcOK
    <2>2. \A p \in Daemons : pidFile = p /\ seen[s] = p
      BY <1>3 DEF Signal, OneDaemonOf
    <2>3. proc[seen[s]] = "dead" => Daemons = {}
      BY <2>2 DEF Daemons, DaemonStates
    <2>4. /\ pc'[s] = "wait" \/ (pc'[s] = "stopunlink" /\ proc[seen[s]] = "dead")
          /\ cmd[s] \in {"stop", "restart"}
      BY <1>3 DEF Signal, OneDaemonOf
    <2>5. QED
      BY <2>1, <2>2, <2>3, <2>4 DEF OneDaemonOf
  <1>4. CASE StopUnlinks(s) \/ MarkStopped(s) \/ MarkFails(s)
    <2>1. Daemons = {} /\ Daemons' = {} /\ cmd' = cmd /\ cmd[s] \in {"stop", "restart"}
      BY <1>4 DEF StopUnlinks, MarkStopped, MarkFails, OneDaemonOf, Daemons
    <2>2. pc'[s] \in {"mark", "markwrite", "markrename"}
          \/ pc'[s] = IF cmd[s] = "restart" THEN "read" ELSE "idle"
      BY <1>4 DEF StopUnlinks, MarkStopped, MarkFails
    <2>3. QED
      BY <2>1, <2>2 DEF OneDaemonOf
  <1>5. CASE StatusReads(s) \/ StatusUnlinks(s)
    <2>1. Daemons' = Daemons /\ cmd' = cmd /\ (pidFile' = pidFile \/ Daemons = {})
      BY <1>5 DEF StatusReads, StatusUnlinks, Daemons, OneDaemonOf
    <2>2. (pc'[s] = "statuspid" \/ (pc'[s] = "idle" /\ result'[s] \in {"error", "stopped"}))
          /\ pc[s] \notin {"openpid", "undo"}
      BY <1>5 DEF StatusReads, StatusUnlinks
    <2>3. QED
      BY <2>1, <2>2 DEF OneDaemonOf
  <1>6. QED
    BY <1>1, <1>2, <1>3, <1>4, <1>5 DEF Stop, Status

\* The steps of the daemon and of the shell, one after the other.
LEMMA OneDaemonStep ==
    ASSUME ShellAlone, TypeOK, HasNumber, OneDaemonInv, [Next]_vars
    PROVE  OneDaemonInv'
  <1>1. PICK s : Shells = {s}
    BY DEF ShellAlone
  <1>2. Callers = {s} /\ AtomicPID
    BY <1>1 DEF Callers, ShellAlone
  <1> CallerOK
    BY TypeParts
  <1>3. SUFFICES ASSUME ~misled' PROVE OneDaemonOf(s)'
    BY <1>1, Zenon DEF OneDaemonInv, OneDaemonOf
  <1>4. ~misled /\ ~LookupFails(s)
    <2>1. ~misled
      BY <1>3, MisledStays, Zenon
    <2>2. LookupFails(s) => misled' = TRUE
      BY DEF LookupFails
    <2>3. QED
      BY <1>3, <2>1, <2>2, Zenon
  <1>5. OneDaemonOf(s)
    BY <1>1, <1>4, OneDaemonByShell, Zenon
  <1>6. CASE Command(s)
    <2>1. cmd'[s] # "foreground" /\ (cmd'[s] \in {"stop", "restart"} <=> pc'[s] = "stopread")
      BY <1>1, <1>2, <1>6, CommandBegins, LifecycleAssumption DEF Commands, ShellAlone
    <2>2. pc[s] = "idle" /\ pc'[s] \in {"read", "stopread", "statusread"}
      BY <1>2, <1>6, CommandBegins
    <2>3. Daemons' = Daemons /\ pidFile' = pidFile
      BY <1>6 DEF Command, Daemons, files, pids
    <2>4. QED
      BY <1>5, <2>1, <2>2, <2>3 DEF OneDaemonOf
  <1>7. CASE Errors(s)
    <2>1. /\ Daemons' = Daemons /\ pidFile' = pidFile /\ cmd' = cmd
          /\ pc'[s] = "idle" /\ result'[s] = "error" /\ pc[s] \notin {"openpid", "undo"}
      BY <1>2, <1>7 DEF Errors, Step, Return, Daemons, files, pids, CallerOK
    <2>2. QED
      BY <1>5, <2>1 DEF OneDaemonOf
  <1>8. ~Kill(s)
    <2>1. kills \in 0 .. MaxKills /\ MaxKills = 0
      BY TypeParts DEF BoundsOK, ShellAlone
    <2>2. QED
      BY <2>1 DEF Kill
  <1>9. CASE Reboot
    <2>1. Daemons' = {}
      BY <1>9 DEF Reboot, Daemons, DaemonStates
    <2>2. pc'[s] = "idle" /\ cmd' = cmd
      BY <1>2, <1>9 DEF Reboot
    <2>3. QED
      BY <1>5, <2>1, <2>2 DEF OneDaemonOf
  <1>10. CASE UNCHANGED vars
    BY <1>5, <1>10 DEF vars, files, pids, caller, OneDaemonOf, Daemons
  <1>11. QED
    BY <1>2, <1>4, <1>5, <1>6, <1>7, <1>8, <1>9, <1>10, OneDaemonRun, OneDaemonStart,
       OneDaemonStop, NextSteps
    DEF CallerStep

\* With one shell that nobody kills, no service manager and no failed look-up,
\* the shell's step and the PID file agree on the one daemon there is.
THEOREM OneDaemonSafety == ShellAlone => (Spec => [](LifecycleInv /\ OneDaemonInv))
  <1> SUFFICES ASSUME ShellAlone PROVE Spec => [](LifecycleInv /\ OneDaemonInv)
    OBVIOUS
  <1>1. Init => OneDaemonInv
    <2> SUFFICES ASSUME Init, NEW s \in Shells PROVE OneDaemonOf(s)
      BY Zenon DEF OneDaemonInv, OneDaemonOf
    <2>1. Daemons = {} /\ pc[s] = "idle" /\ cmd[s] = "none"
      BY DEF Init, Daemons, DaemonStates, Callers
    <2>2. QED
      BY <2>1 DEF OneDaemonOf
  <1>2. OneDaemonInv /\ LifecycleInv /\ [Next]_vars => OneDaemonInv'
    BY OneDaemonStep DEF LifecycleInv
  <1>3. QED
    BY <1>1, <1>2, LifecycleSafety, PTL DEF Spec

\* Then no second daemon is started, whatever crashes, fails or reboots
\* (service.go:92-94).
THEOREM AtMostOneDaemonAlways == ShellAlone => (Spec => []AtMostOneDaemon)
  <1> SUFFICES ASSUME ShellAlone PROVE Spec => []AtMostOneDaemon
    OBVIOUS
  <1>1. PICK s : Shells = {s}
    BY DEF ShellAlone
  <1>2. LifecycleInv /\ OneDaemonInv => AtMostOneDaemon
    <2> SUFFICES ASSUME OneDaemonOf(s) PROVE Cardinality(Daemons) <= 1
      BY <1>1, OneDaemonByShell, Zenon DEF AtMostOneDaemon
    <2>1. CASE Daemons = {}
      BY <2>1, FS_EmptySet
    <2>2. CASE Daemons # {}
      <3>1. PICK p : p \in Daemons
        BY <2>2
      <3>2. Daemons = {p}
        BY <3>1, AtMostOne
      <3>3. QED
        BY <3>2, FS_Singleton
    <2>3. QED
      BY <2>1, <2>2
  <1>3. QED
    BY OneDaemonSafety, <1>2, PTL

\* And between its commands the PID file names the daemon (service.go:118, 181,
\* 522-537).
THEOREM DaemonFoundAlways == ShellAlone => (Spec => []DaemonFound)
  <1> SUFFICES ASSUME ShellAlone PROVE Spec => []DaemonFound
    OBVIOUS
  <1>1. PICK s : Shells = {s}
    BY DEF ShellAlone
  <1>2. LifecycleInv /\ OneDaemonInv => DaemonFound
    <2> SUFFICES ASSUME OneDaemonOf(s), AllIdle, NEW p \in Daemons PROVE pidFile = p
      BY <1>1, OneDaemonByShell, Zenon DEF DaemonFound, Daemons
    <2>1. pc[s] = "idle"
      BY <1>1 DEF AllIdle, Callers
    <2>2. QED
      BY <2>1 DEF OneDaemonOf
  <1>3. QED
    BY OneDaemonSafety, <1>2, PTL

\* A stop that reports success leaves none (service.go:414-465).
THEOREM StoppedMeansNoneAlways == ShellAlone => (Spec => []StoppedMeansNone)
  <1> SUFFICES ASSUME ShellAlone PROVE Spec => []StoppedMeansNone
    OBVIOUS
  <1>1. PICK s : Shells = {s}
    BY DEF ShellAlone
  <1>2. LifecycleInv /\ OneDaemonInv => StoppedMeansNone
    <2> SUFFICES ASSUME OneDaemonOf(s), pc[s] = "idle", cmd[s] = "stop",
                        result[s] \in {"ok", "unshown", "notrunning"}
                 PROVE  Daemons = {}
      BY <1>1, OneDaemonByShell, Zenon DEF StoppedMeansNone
    <2>1. QED
      BY DEF OneDaemonOf
  <1>3. QED
    BY OneDaemonSafety, <1>2, PTL

-----------------------------------------------------------------------------
(* What one shell is shown.                                                *)

\* Who has the status files open, and what they can hold while somebody is
\* about to rename them.
OpenOf(s) ==
    \A w \in tmpFD \cup statusFD :
       \/ w = s /\ (pc[s] = "write" \/ (pc[s] = "markwrite" /\ w \notin statusFD))
       \/ w \in Pids /\ proc[w] \in {"write", "pubwrite", "lastwrite"}
HeldOf(s) ==
    /\ \A p \in Daemons :
          proc[p] \in {"write", "rename", "pubwrite", "pubrename", "lastwrite", "lastrename"}
             => About(tmpFile, p)
    /\ pc[s] \in {"write", "rename"} => About(tmpFile, child[s])
    /\ pc[s] = "markwrite" => tmpFile = Empty /\ s \in tmpFD
    /\ pc[s] = "markrename" => tmpFile = Says(seen[s], FALSE)

\* What status.json says once a command has returned.
ShownOf(s) ==
    /\ pc[s] = "idle" /\ cmd[s] \in {"start", "restart"} /\ result[s] = "ok"
          => /\ statusFile # NoFile /\ About(statusFile, child[s])
             /\ \A p \in Daemons : p = child[s]
    /\ pc[s] = "idle" /\ cmd[s] = "stop" /\ result[s] = "ok"
          => statusFile \in RuntimeStatus /\ ~statusFile.running
StatusOf(s) == OpenOf(s) /\ HeldOf(s) /\ ShownOf(s)

LEMMA StatusByShell ==
    ASSUME NEW s, Shells = {s}
    PROVE  StatusInv <=> (misled \/ StatusOf(s))
  BY Zenon DEF StatusInv, StatusOf, OpenOf, HeldOf, ShownOf

\* A file without a whole status is about anybody.
LEMMA AboutNone == \A p : About(NoFile, p) /\ About(Empty, p) /\ About(Torn, p)
  BY FilesAssumption DEF About

LEMMA AboutSaid ==
    ASSUME NEW p \in Pids, NEW running \in BOOLEAN
    PROVE  About(Says(p, running), p) /\ Says(p, running) # NoFile
  BY SaysTyped, FilesAssumption DEF About

\* Where a status is written, a whole one of it or bytes that are none result.
LEMMA StatusWritten ==
    ASSUME NEW w, NEW status, WriteTmp(w, status)
    PROVE  /\ tmpFile' \in {tmpFile, status, Torn}
           /\ statusFile' \in {statusFile, status, Torn}
           /\ tmpFD' = tmpFD \ {w} /\ statusFD' = statusFD \ {w}
           /\ w \notin statusFD => statusFile' = statusFile
           /\ w \in tmpFD /\ w \notin statusFD /\ tmpFile = Empty => tmpFile' = status
  BY DEF WriteTmp, Over

\* A step of a daemon that leaves the contents, and who is no longer writing.
LEMMA StatusLeft ==
    ASSUME NEW s \in Callers, ProcOK, StatusOf(s), NEW p \in Pids,
           UNCHANGED caller, Daemons' \subseteq Daemons,
           \A q \in Pids : q # p => proc'[q] = proc[q],
           proc'[p] \notin {"write", "rename", "pubwrite", "pubrename", "lastwrite", "lastrename"},
           UNCHANGED <<statusFile, tmpFile>>,
           \/ UNCHANGED <<tmpFD, statusFD>> /\ proc[p] \notin {"write", "pubwrite", "lastwrite"}
           \/ tmpFD' = tmpFD \ {p} /\ statusFD' = statusFD \ {p}
    PROVE  StatusOf(s)'
  <1> USE DEF caller
  <1>1. s # p
    BY LifecycleAssumption
  <1>2. OpenOf(s)'
    <2> SUFFICES ASSUME NEW w \in tmpFD' \cup statusFD'
                 PROVE  \/ w = s /\ (pc[s] = "write" \/ (pc[s] = "markwrite" /\ w \notin statusFD'))
                        \/ w \in Pids /\ proc'[w] \in {"write", "pubwrite", "lastwrite"}
      BY DEF OpenOf
    <2>1. w \in tmpFD \cup statusFD
      OBVIOUS
    <2>2. CASE w = s
      BY <1>1, <2>1, <2>2, LifecycleAssumption DEF StatusOf, OpenOf
    <2>3. CASE w # s
      <3>1. w \in Pids /\ proc[w] \in {"write", "pubwrite", "lastwrite"}
        BY <2>1, <2>3 DEF StatusOf, OpenOf
      <3>2. w # p
        BY <2>1, <3>1
      <3>3. QED
        BY <3>1, <3>2
    <2>4. QED
      BY <2>2, <2>3
  <1>3. HeldOf(s)'
    <2>1. ASSUME NEW q \in Daemons',
                 proc'[q] \in {"write", "rename", "pubwrite", "pubrename", "lastwrite", "lastrename"}
          PROVE  About(tmpFile, q)
      BY <2>1 DEF StatusOf, HeldOf, Daemons
    <2>2. s \in tmpFD => s \in tmpFD'
      BY <1>1
    <2>3. QED
      BY <2>1, <2>2 DEF StatusOf, HeldOf, About
  <1>4. ShownOf(s)'
    BY DEF StatusOf, ShownOf, About
  <1>5. QED
    BY <1>2, <1>3, <1>4 DEF StatusOf

\* A daemon renames only what it, or the Start that spawned it, has written.
LEMMA StatusRun ==
    ASSUME NEW s \in Callers, TypeOK, OneDaemonOf(s), StatusOf(s),
           NEW p \in Pids, DaemonStep(p)
    PROVE  StatusOf(s)'
  <1> ProcOK
    BY TypeParts
  <1> USE DEF caller, files, statuses, Go
  <1>1. UNCHANGED caller
    BY CallersLeft
  <1>2. Daemons' \subseteq Daemons
    BY DaemonsShrink
  <1>3. \A q \in Pids : q # p => proc'[q] = proc[q]
    BY DaemonMoves DEF ProcMoves, ProcOK
  <1>4. s # p
    BY LifecycleAssumption
  <1>5. CASE DaemonWritesPID(p)
    BY <1>1, <1>2, <1>3, <1>5, StatusLeft DEF DaemonWritesPID, OpenPID, WritePID, ProcOK
  <1>6. CASE DaemonRenameFails(p) \/ ClientReturns(p) \/ DaemonReadsPID(p) \/ DaemonRemovesPID(p)
    BY <1>1, <1>2, <1>3, <1>6, StatusLeft
    DEF DaemonRenameFails, ClientReturns, DaemonReadsPID, DaemonRemovesPID, RemovePID, ProcOK
  <1>7. CASE UpdateFails(p) \/ Exec(p) \/ DaemonCrashes(p) \/ Reuse(p)
    BY <1>1, <1>2, <1>3, <1>7, StatusLeft
    DEF UpdateFails, Exec, DaemonCrashes, Reuse, Closes, ProcOK
  <1>8. CASE DaemonOpensTmp(p) \/ DaemonWritesTmp(p) \/ DaemonRenames(p)
    <2>1. p \in Daemons
      BY <1>8 DEF DaemonOpensTmp, DaemonWritesTmp, DaemonRenames, Daemons, DaemonStates
    <2>2. \A q \in Daemons : q = p
      BY <2>1, AtMostOne
    <2>3. /\ pc[s] \notin {"markwrite", "markrename"}
          /\ ~(pc[s] = "idle" /\ cmd[s] = "stop" /\ result[s] = "ok")
          /\ pc[s] \in {"write", "rename"} => child[s] = p
      BY <2>1 DEF OneDaemonOf
    <2>4. ASSUME OpenOf(s)', About(tmpFile', p) \/ (tmpFile' = NoFile)
          PROVE  HeldOf(s)'
      BY <1>1, <1>2, <2>2, <2>3, <2>4, AboutNone DEF HeldOf, About
    <2>5. ASSUME \/ statusFile' = statusFile
                 \/ statusFile' # NoFile /\ About(statusFile', p)
          PROVE  ShownOf(s)'
      <3>1. CASE statusFile' = statusFile
        BY <1>1, <1>2, <2>3, <3>1 DEF StatusOf, ShownOf, About
      <3>2. CASE statusFile' # NoFile /\ About(statusFile', p)
        BY <1>1, <1>2, <2>1, <2>3, <3>2 DEF StatusOf, ShownOf, About
      <3>3. QED
        BY <2>5, <3>1, <3>2
    <2>6. CASE DaemonOpensTmp(p)
      <3>1. /\ tmpFile' = Empty /\ tmpFD' = tmpFD \cup {p} /\ UNCHANGED <<statusFile, statusFD>>
            /\ proc'[p] \in {"write", "pubwrite", "lastwrite"}
        BY <2>6 DEF DaemonOpensTmp, OpenTmp, ProcOK
      <3>2. OpenOf(s)'
        BY <1>1, <1>3, <1>4, <3>1 DEF StatusOf, OpenOf
      <3>3. About(tmpFile', p)
        BY <3>1, AboutNone
      <3>4. QED
        BY <2>4, <2>5, <3>1, <3>2, <3>3 DEF StatusOf
    <2>7. CASE DaemonWritesTmp(p)
      <3>1. PICK running \in BOOLEAN : WriteTmp(p, Says(p, running))
        BY <2>7 DEF DaemonWritesTmp
      <3>2. /\ tmpFile' \in {tmpFile, Says(p, running), Torn}
            /\ statusFile' \in {statusFile, Says(p, running), Torn}
            /\ tmpFD' = tmpFD \ {p} /\ statusFD' = statusFD \ {p}
        BY <3>1, StatusWritten
      <3>3. OpenOf(s)'
        BY <1>1, <1>3, <1>4, <3>2 DEF StatusOf, OpenOf
      <3>4. About(tmpFile, p)
        BY <2>1, <2>7 DEF DaemonWritesTmp, StatusOf, HeldOf
      <3>5. About(Says(p, running), p) /\ Says(p, running) # NoFile
        BY AboutSaid
      <3>6. About(tmpFile', p)
        <4>1. tmpFile' = tmpFile \/ tmpFile' = Says(p, running) \/ tmpFile' = Torn
          BY <3>2
        <4>2. QED
          BY <3>4, <3>5, <4>1, AboutNone DEF About
      <3>7. statusFile' = statusFile \/ (statusFile' # NoFile /\ About(statusFile', p))
        <4>1. statusFile' = statusFile \/ statusFile' = Says(p, running) \/ statusFile' = Torn
          BY <3>2
        <4>2. Torn # NoFile
          BY LifecycleAssumption
        <4>3. QED
          BY <3>5, <4>1, <4>2, AboutNone DEF About
      <3>8. HeldOf(s)'
        BY <2>4, <3>3, <3>6
      <3>9. ShownOf(s)'
        BY <2>5, <3>7
      <3>10. QED
        BY <3>3, <3>8, <3>9 DEF StatusOf
    <2>8. CASE DaemonRenames(p)
      <3>1. /\ tmpFile # NoFile /\ statusFile' = tmpFile /\ tmpFile' = NoFile
            /\ statusFD' = tmpFD /\ tmpFD' = {}
            /\ proc[p] \in {"rename", "pubrename", "lastrename"}
        BY <2>8 DEF DaemonRenames, RenameTmp
      <3>2. About(tmpFile, p)
        BY <2>1, <3>1 DEF StatusOf, HeldOf
      <3>3. OpenOf(s)'
        BY <1>1, <1>3, <1>4, <2>3, <3>1 DEF StatusOf, OpenOf
      <3>4. statusFile' # NoFile /\ About(statusFile', p)
        BY <3>1, <3>2 DEF About
      <3>5. QED
        BY <2>4, <2>5, <3>1, <3>3, <3>4 DEF StatusOf
    <2>9. QED
      BY <1>8, <2>6, <2>7, <2>8
  <1>9. QED
    BY <1>5, <1>6, <1>7, <1>8 DEF DaemonStep, Run

\* A step of the shell that leaves the contents of the status files, ends or
\* starts a process that has neither open, or closes what that had open, and
\* returns no success.
LEMMA StatusLeftByShell ==
    ASSUME NEW s \in Callers, StatusOf(s),
           UNCHANGED <<statusFile, tmpFile>>,
           tmpFD' \subseteq tmpFD, statusFD' \subseteq statusFD,
           \A w \in (tmpFD' \cup statusFD') \cap Pids :
              proc[w] \in {"write", "pubwrite", "lastwrite"} => proc'[w] = proc[w],
           \A q \in Daemons' : (q \in Daemons /\ proc'[q] = proc[q]) \/ proc'[q] = "boot",
           s \notin tmpFD' \cup statusFD',
           pc'[s] \notin {"write", "rename", "markwrite", "markrename"},
           pc'[s] = "idle" => result'[s] # "ok"
    PROVE  StatusOf(s)'
  <1>1. OpenOf(s)'
    BY DEF StatusOf, OpenOf
  <1>2. HeldOf(s)'
    BY DEF StatusOf, HeldOf, About
  <1>3. ShownOf(s)'
    BY DEF ShownOf
  <1>4. QED
    BY <1>1, <1>2, <1>3 DEF StatusOf

\* Start leaves its own child's status, Stop and Restart one that does not run.
LEMMA StatusShell ==
    ASSUME NEW s \in Callers, TypeOK, HasNumber, OneDaemonOf(s), StatusOf(s),
           Start(s) \/ Stop(s) \/ Status(s)
    PROVE  StatusOf(s)'
  <1> CallerOK /\ ProcOK
    BY TypeParts
  <1> s \notin Pids
    BY LifecycleAssumption
  <1> USE DEF Step, Return, NoReturn, Quiet, files, pids, statuses, AfterStop, CallerOK
  <1>1. pc[s] \notin {"write", "markwrite"} => s \notin tmpFD \cup statusFD
    BY DEF StatusOf, OpenOf
  <1>2. CASE \/ ReadPID(s) \/ AlreadyRunning(s) \/ StalePID(s) \/ UnlinkPID(s)
             \/ StartWritesPID(s)
    <2>1. UNCHANGED <<proc, statusFile, tmpFile, statusFD, tmpFD>> /\ Daemons' = Daemons
      BY <1>2 DEF ReadPID, AlreadyRunning, StalePID, UnlinkPID, RemovePID, StartWritesPID,
                  OpenPID, WritePID, Daemons
    <2>2. /\ pc[s] \notin {"write", "markwrite"}
          /\ pc'[s] \in {"check", "spawn", "unlink", "writepid", "tmp", "idle"}
          /\ pc'[s] = "idle" => result'[s] = "already"
      BY <1>2 DEF ReadPID, AlreadyRunning, StalePID, UnlinkPID, StartWritesPID
    <2>3. QED
      BY <1>1, <2>1, <2>2, StatusLeftByShell
  <1>3. CASE Spawn(s)
    <2>1. PICK p \in Pids : proc[p] = "free" /\ proc' = [proc EXCEPT ![p] = "boot"]
      BY <1>3 DEF Spawn
    <2>2. /\ \A q \in Daemons' : proc'[q] = "boot" \/ (q \in Daemons /\ proc'[q] = proc[q])
          /\ \A w \in Pids : proc[w] # "free" => proc'[w] = proc[w]
      BY <2>1 DEF Daemons, ProcOK
    <2>3. /\ UNCHANGED <<statusFile, tmpFile, statusFD, tmpFD>> /\ pc[s] = "spawn"
          /\ pc'[s] = "openpid"
      BY <1>3 DEF Spawn, OneDaemonOf
    <2>4. QED
      BY <1>1, <2>2, <2>3, StatusLeftByShell
  <1>4. CASE StartCannotWritePID(s) \/ StartUndoes(s)
    <2>1. /\ UNCHANGED <<statusFile, tmpFile>> /\ pc[s] \in {"openpid", "writepid", "undo"}
          /\ tmpFD' = tmpFD \ {s, child[s]} /\ statusFD' = statusFD \ {s, child[s]}
          /\ proc' = [proc EXCEPT ![child[s]] = "dead"]
          /\ pc'[s] = "idle" /\ result'[s] = "failed"
      BY <1>4 DEF StartCannotWritePID, StartUndoes, EndsChild, Terminated
    <2>2. /\ \A q \in Daemons' : q \in Daemons /\ proc'[q] = proc[q]
          /\ \A w \in Pids : w # child[s] => proc'[w] = proc[w]
      BY <2>1 DEF Daemons, DaemonStates, ProcOK
    <2>3. QED
      BY <1>1, <2>1, <2>2, StatusLeftByShell
  <1>5. CASE StartCannotWriteStatus(s)
    <2>1. /\ UNCHANGED <<proc, statusFile, tmpFile>> /\ Daemons' = Daemons
          /\ tmpFD' = tmpFD \ {s} /\ statusFD' = statusFD \ {s} /\ pc'[s] = "undo"
      BY <1>5 DEF StartCannotWriteStatus, Daemons
    <2>2. QED
      BY <2>1, StatusLeftByShell
  <1>6. CASE StartWritesStatus(s)
    <2>1. /\ UNCHANGED <<proc, cmd, child>> /\ Daemons' = Daemons /\ child[s] \in Pids
          /\ cmd[s] # "stop" /\ \A p \in Daemons : p = child[s]
      BY <1>6 DEF StartWritesStatus, Daemons, HasNumber, OneDaemonOf
    <2>2. CASE pc[s] = "tmp"
      <3>1. /\ pc'[s] = "write" /\ tmpFile' = Empty /\ tmpFD' = tmpFD \cup {s}
            /\ UNCHANGED <<statusFile, statusFD>>
        BY <1>6, <2>2 DEF StartWritesStatus, OpenTmp
      <3>2. OpenOf(s)'
        BY <1>1, <2>1, <2>2, <3>1 DEF StatusOf, OpenOf
      <3>3. HeldOf(s)' /\ ShownOf(s)'
        BY <2>1, <3>1, AboutNone DEF HeldOf, ShownOf, About
      <3>4. QED
        BY <3>2, <3>3 DEF StatusOf
    <2>3. CASE pc[s] = "write"
      <3>1. pc'[s] = "rename" /\ WriteTmp(s, Says(child[s], TRUE))
        BY <1>6, <2>3 DEF StartWritesStatus
      <3>2. /\ tmpFile' \in {tmpFile, Says(child[s], TRUE), Torn}
            /\ tmpFD' = tmpFD \ {s} /\ statusFD' = statusFD \ {s}
        BY <3>1, StatusWritten
      <3>3. OpenOf(s)'
        BY <2>1, <3>1, <3>2 DEF StatusOf, OpenOf
      <3>4. About(tmpFile, child[s]) /\ About(Says(child[s], TRUE), child[s])
        BY <2>1, <2>3, AboutSaid DEF StatusOf, HeldOf
      <3>5. About(tmpFile', child[s])
        <4>1. tmpFile' = tmpFile \/ tmpFile' = Says(child[s], TRUE) \/ tmpFile' = Torn
          BY <3>2
        <4>2. About(Torn, child[s])
          BY AboutNone
        <4>3. QED
          BY <3>4, <4>1, <4>2
      <3>6. HeldOf(s)' /\ ShownOf(s)'
        BY <2>1, <3>1, <3>5 DEF HeldOf, ShownOf, About
      <3>7. QED
        BY <3>3, <3>6 DEF StatusOf
    <2>4. CASE pc[s] = "rename"
      <3>1. /\ pc'[s] = "idle" /\ tmpFile # NoFile /\ statusFile' = tmpFile /\ tmpFile' = NoFile
            /\ statusFD' = tmpFD /\ tmpFD' = {}
        BY <1>6, <2>4 DEF StartWritesStatus, RenameTmp
      <3>2. About(tmpFile, child[s])
        BY <2>4 DEF StatusOf, HeldOf
      <3>3. OpenOf(s)'
        BY <1>1, <2>1, <2>4, <3>1 DEF StatusOf, OpenOf
      <3>4. HeldOf(s)'
        BY <2>1, <3>1, AboutNone DEF HeldOf, About
      <3>5. ShownOf(s)'
        BY <2>1, <3>1, <3>2 DEF ShownOf, About
      <3>6. QED
        BY <3>3, <3>4, <3>5 DEF StatusOf
    <2>5. QED
      BY <1>6, <2>2, <2>3, <2>4 DEF StartWritesStatus
  <1>7. CASE StopReadsPID(s) \/ StopChecks(s) \/ StopWaits(s) \/ StopUnlinks(s)
    <2>1. UNCHANGED <<proc, statusFile, tmpFile, statusFD, tmpFD>> /\ Daemons' = Daemons
      BY <1>7 DEF StopReadsPID, StopChecks, StopWaits, StopUnlinks, RemovePID, Daemons
    <2>2. /\ pc[s] \notin {"write", "markwrite"}
          /\ pc'[s] \in {"stopcheck", "signal", "stopunlink", "mark", "idle", "read"}
          /\ pc'[s] = "idle" => result'[s] # "ok"
      BY <1>7 DEF StopReadsPID, StopChecks, StopWaits, StopUnlinks
    <2>3. QED
      BY <1>1, <2>1, <2>2, StatusLeftByShell
  <1>8. CASE Signal(s)
    <2>1. /\ UNCHANGED <<statusFile, tmpFile>> /\ pc[s] = "signal"
          /\ tmpFD' \subseteq tmpFD /\ statusFD' \subseteq statusFD
          /\ pc'[s] \in {"wait", "stopunlink"}
      BY <1>8 DEF Signal, Closes
    <2>2. proc' = proc \/ (proc[seen[s]] = "boot" /\ proc' = [proc EXCEPT ![seen[s]] = "dead"])
      BY <1>8 DEF Signal, Go
    <2>3. /\ \A q \in Daemons' : q \in Daemons /\ proc'[q] = proc[q]
          /\ \A w \in Pids : proc[w] \in {"write", "pubwrite", "lastwrite"} => proc'[w] = proc[w]
      BY <2>2 DEF Daemons, DaemonStates, ProcOK
    <2>4. QED
      BY <1>1, <2>1, <2>3, StatusLeftByShell
  <1>9. CASE MarkStopped(s)
    <2>1. /\ Daemons = {} /\ Daemons' = {} /\ UNCHANGED <<proc, cmd, seen>>
          /\ cmd[s] \in {"stop", "restart"} /\ seen[s] \in Pids
      BY <1>9 DEF MarkStopped, OneDaemonOf, Daemons, HasNumber
    <2>2. \A w \in tmpFD \cup statusFD : w = s /\ pc[s] = "markwrite" /\ w \notin statusFD
      BY <1>9, <2>1 DEF MarkStopped, StatusOf, OpenOf, Daemons, DaemonStates
    <2>3. CASE pc[s] = "mark"
      <3>1. /\ pc'[s] = "markwrite" /\ tmpFile' = Empty /\ tmpFD' = {s} /\ statusFD' = {}
        BY <1>9, <2>2, <2>3 DEF MarkStopped, OpenTmp
      <3>2. QED
        BY <2>1, <3>1 DEF StatusOf, OpenOf, HeldOf, ShownOf
    <2>4. CASE pc[s] = "markwrite"
      <3>1. pc'[s] = "markrename" /\ WriteTmp(s, Says(seen[s], FALSE))
        BY <1>9, <2>4 DEF MarkStopped
      <3>2. s \in tmpFD /\ s \notin statusFD /\ tmpFile = Empty
        BY <2>2, <2>4 DEF StatusOf, HeldOf
      <3>3. tmpFile' = Says(seen[s], FALSE) /\ tmpFD' = {} /\ statusFD' = {}
        <4>1. tmpFile' = Says(seen[s], FALSE)
          BY <3>1, <3>2, StatusWritten
        <4>2. tmpFD' = tmpFD \ {s} /\ statusFD' = statusFD \ {s}
          BY <3>1, StatusWritten
        <4>3. tmpFD \ {s} = {} /\ statusFD \ {s} = {}
          BY <2>2
        <4>4. QED
          BY <4>1, <4>2, <4>3
      <3>4. QED
        BY <2>1, <3>1, <3>3 DEF StatusOf, OpenOf, HeldOf, ShownOf
    <2>5. CASE pc[s] = "markrename"
      <3>1. /\ tmpFile = Says(seen[s], FALSE)
            /\ pc'[s] = IF cmd[s] = "restart" THEN "read" ELSE "idle"
        BY <1>9, <2>5 DEF MarkStopped, StatusOf, HeldOf
      <3>2. statusFile' = tmpFile /\ tmpFD' = {} /\ statusFD' = {}
        BY <1>9, <2>2, <2>5 DEF MarkStopped, RenameTmp
      <3>3. statusFile' \in RuntimeStatus /\ ~statusFile'.running
        BY <2>1, <3>1, <3>2, SaysTyped
      <3>4. QED
        BY <2>1, <3>1, <3>2, <3>3 DEF StatusOf, OpenOf, HeldOf, ShownOf
    <2>6. QED
      BY <1>9, <2>3, <2>4, <2>5 DEF MarkStopped
  <1>10. CASE MarkFails(s)
    <2>1. /\ UNCHANGED <<proc, statusFile, tmpFile>> /\ Daemons' = Daemons
          /\ tmpFD' = tmpFD \ {s} /\ statusFD' = statusFD \ {s}
          /\ pc'[s] \in {"read", "idle"} /\ result'[s] # "ok"
      BY <1>10 DEF MarkFails, Closes, Daemons
    <2>2. QED
      BY <2>1, StatusLeftByShell
  <1>11. CASE Status(s)
    <2>1. UNCHANGED <<proc, statusFile, tmpFile, statusFD, tmpFD>> /\ Daemons' = Daemons
      BY <1>11 DEF Status, StatusReads, StatusReadsPID, StatusChecks, StatusUnlinks, RemovePID,
                   Daemons
    <2>2. /\ pc[s] \notin {"write", "markwrite"}
          /\ pc'[s] \in {"statuspid", "statuscheck", "statusunlink", "idle"}
          /\ pc'[s] = "idle" => result'[s] # "ok"
      BY <1>11 DEF Status, StatusReads, StatusReadsPID, StatusChecks, StatusUnlinks
    <2>3. QED
      BY <1>1, <2>1, <2>2, StatusLeftByShell
  <1>12. QED
    BY <1>2, <1>3, <1>4, <1>5, <1>6, <1>7, <1>8, <1>9, <1>10, <1>11 DEF Start, Stop

\* The steps of the daemon and of the shell, one after the other.
LEMMA StatusStep ==
    ASSUME ShellAlone, TypeOK, HasNumber, OneDaemonInv, StatusInv, [Next]_vars
    PROVE  StatusInv'
  <1>1. PICK s : Shells = {s}
    BY DEF ShellAlone
  <1>2. Callers = {s}
    BY <1>1 DEF Callers, ShellAlone
  <1> CallerOK
    BY TypeParts
  <1>3. SUFFICES ASSUME ~misled' PROVE StatusOf(s)'
    BY <1>1, Zenon DEF StatusInv, StatusOf, OpenOf, HeldOf, ShownOf
  <1>4. ~misled /\ ~LookupFails(s)
    <2>1. ~misled
      BY <1>3, MisledStays, Zenon
    <2>2. LookupFails(s) => misled' = TRUE
      BY DEF LookupFails
    <2>3. QED
      BY <1>3, <2>1, <2>2, Zenon
  <1>5. OneDaemonOf(s) /\ StatusOf(s)
    BY <1>1, <1>4, OneDaemonByShell, StatusByShell, Zenon
  <1>6. CASE Command(s)
    <2>1. pc[s] = "idle" /\ pc'[s] \in {"read", "stopread", "statusread"}
      BY <1>2, <1>6, CommandBegins
    <2>2. UNCHANGED <<proc, statusFile, tmpFile, statusFD, tmpFD>> /\ Daemons' = Daemons
      BY <1>6 DEF Command, Daemons, files, statuses
    <2>3. s \notin tmpFD \cup statusFD
      BY <1>2, <1>5, <2>1, LifecycleAssumption DEF StatusOf, OpenOf
    <2>4. QED
      BY <1>2, <1>5, <2>1, <2>2, <2>3, StatusLeftByShell
  <1>7. CASE Errors(s)
    <2>1. /\ UNCHANGED <<proc, statusFile, tmpFile, statusFD, tmpFD>> /\ Daemons' = Daemons
          /\ pc[s] \notin {"write", "markwrite"} /\ pc'[s] = "idle" /\ result'[s] = "error"
      BY <1>2, <1>7 DEF Errors, Step, Return, Daemons, files, statuses, CallerOK
    <2>2. s \notin tmpFD \cup statusFD
      BY <1>2, <1>5, <2>1, LifecycleAssumption DEF StatusOf, OpenOf
    <2>3. QED
      BY <1>2, <1>5, <2>1, <2>2, StatusLeftByShell
  <1>8. ~Kill(s)
    <2>1. kills \in 0 .. MaxKills /\ MaxKills = 0
      BY TypeParts DEF BoundsOK, ShellAlone
    <2>2. QED
      BY <2>1 DEF Kill
  <1>9. CASE Reboot
    <2>1. Daemons' = {} /\ tmpFD' = {} /\ statusFD' = {} /\ UNCHANGED <<statusFile, tmpFile>>
      BY <1>9 DEF Reboot, Daemons, DaemonStates
    <2>2. pc'[s] = "idle" /\ result'[s] = "killed"
      BY <1>2, <1>9 DEF Reboot
    <2>3. QED
      BY <2>1, <2>2 DEF StatusOf, OpenOf, HeldOf, ShownOf
  <1>10. CASE UNCHANGED vars
    BY <1>5, <1>10 DEF vars, files, statuses, caller, StatusOf, OpenOf, HeldOf, ShownOf, Daemons
  <1>11. QED
    BY <1>2, <1>4, <1>5, <1>6, <1>7, <1>8, <1>9, <1>10, StatusRun, StatusShell, NextSteps
    DEF CallerStep

\* With one shell, status.json belongs to who wrote it last on purpose, although
\* daemon and shell truncate and rename one temporary file for each other.
THEOREM StatusSafety == ShellAlone => (Spec => []StatusInv)
  <1> SUFFICES ASSUME ShellAlone PROVE Spec => []StatusInv
    OBVIOUS
  <1>1. Init => StatusInv
    <2> SUFFICES ASSUME Init, NEW s \in Shells PROVE StatusOf(s)
      BY Zenon DEF StatusInv, StatusOf, OpenOf, HeldOf, ShownOf
    <2>1. /\ Daemons = {} /\ pc[s] = "idle" /\ cmd[s] = "none"
          /\ tmpFD = {} /\ statusFD = {}
      BY DEF Init, Daemons, DaemonStates, Callers
    <2>2. QED
      BY <2>1 DEF StatusOf, OpenOf, HeldOf, ShownOf
  <1>2. StatusInv /\ LifecycleInv /\ OneDaemonInv /\ [Next]_vars => StatusInv'
    BY StatusStep DEF LifecycleInv
  <1>3. QED
    BY <1>1, <1>2, OneDaemonSafety, PTL DEF Spec

\* After a stop that reports success status.json says so too, although the
\* daemon and the shell both write it on the way, unless the shell's own write
\* of it failed (service.go:344-350, 510-520).
THEOREM StopIsShownAlways == ShellAlone => (Spec => []StopIsShown)
  <1> SUFFICES ASSUME ShellAlone PROVE Spec => []StopIsShown
    OBVIOUS
  <1>1. PICK s : Shells = {s}
    BY DEF ShellAlone
  <1>2. StatusInv => StopIsShown
    <2> SUFFICES ASSUME StatusOf(s), pc[s] = "idle", cmd[s] = "stop", result[s] = "ok"
                 PROVE  statusFile \in RuntimeStatus /\ ~statusFile.running
      BY <1>1, StatusByShell, Zenon DEF StopIsShown
    <2>1. QED
      BY DEF StatusOf, ShownOf
  <1>3. QED
    BY StatusSafety, <1>2, PTL

\* After a Start or a Restart that succeeded status.json is there and, where it
\* can be read, about the new daemon, never about the one before it
\* (service.go:123-137, 819-828).
THEOREM StatusIsTheChildsAlways == ShellAlone => (Spec => []StatusIsTheChilds)
  <1> SUFFICES ASSUME ShellAlone PROVE Spec => []StatusIsTheChilds
    OBVIOUS
  <1>1. PICK s : Shells = {s}
    BY DEF ShellAlone
  <1>2. StatusInv => StatusIsTheChilds
    <2> SUFFICES ASSUME StatusOf(s), pc[s] = "idle", cmd[s] \in {"start", "restart"},
                        result[s] = "ok"
                 PROVE  /\ statusFile # NoFile
                        /\ statusFile \in RuntimeStatus => statusFile.pid = child[s]
      BY <1>1, StatusByShell, Zenon DEF StatusIsTheChilds
    <2>1. QED
      BY DEF StatusOf, ShownOf, About
  <1>3. QED
    BY StatusSafety, <1>2, PTL

=============================================================================
