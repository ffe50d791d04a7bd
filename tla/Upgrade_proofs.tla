--------------------------- MODULE Upgrade_proofs ---------------------------
(***************************************************************************)
(* Theorems about Upgrade, for every number of builds, every assignment of *)
(* versions to them, every set of bad builds and every bound on faults.    *)
(***************************************************************************)
EXTENDS Upgrade, TLAPS

UpcValues == {"idle", "fetch", "download", "verify", "copy", "backup", "save", "replace",
              "applied"}
FdValues == {"none", "tmp", "state", "gone", "done"}

\* Updating a state gives a state.
LEMMA StateUpdated ==
    \A s \in States :
        /\ [s EXCEPT !.recent = FALSE] \in States
        /\ Started(s) \in States
        /\ Marked(s) \in States
  BY DEF States, Marked, Started

\* The state of a new upgrade is a state, of a build not started yet.
LEMMA UpgradeStateTyped ==
    ASSUME TypeOK, NEW u \in Processes
    PROVE  /\ UpgradeState(u) \in States
           /\ UpgradeState(u).to = VersionOf[rel[u]]
           /\ UpgradeState(u).from = VersionOf[build[u]]
           /\ ~UpgradeState(u).once /\ ~UpgradeState(u).recent /\ ~UpgradeState(u).clean
  <1>1. rel[u] \in Builds /\ build[u] \in Builds
    BY DEF TypeOK
  <1>2. VersionOf[rel[u]] \in Nat /\ VersionOf[build[u]] \in Nat
    BY <1>1, UpgradeAssumption
  <1>3. QED
    BY <1>2 DEF UpgradeState, States

\* What is aged is a state where it was one.
LEMMA AgedState ==
    ASSUME NEW s \in StateFiles
    PROVE  /\ Aged(s) \in StateFiles
           /\ s \in States => Aged(s) = [s EXCEPT !.recent = FALSE] /\ Aged(s) \in States
           /\ s \notin States => Aged(s) = s
  BY StateUpdated DEF Aged, StateFiles

\* The processes write the state of their upgrade.
LEMMA UpgraderContent ==
    ASSUME NEW u \in Processes, "main" \notin Processes
    PROVE  Content(u) = UpgradeState(u)
  BY DEF Content

LEMMA NotMain == "main" \notin Processes /\ "daemon" \in Processes
                 /\ Writers = Processes \cup {"main"}
                 /\ Upgraders \subseteq Processes /\ Processes \subseteq {"daemon", "cli"}
  BY UpgradeAssumption DEF Processes, Writers

\* What a writer saves is a state.
LEMMA ContentTyped ==
    ASSUME TypeOK, NEW w \in Writers, w = "main" => loaded \in States
    PROVE  Content(w) \in States
  <1>1. CASE w \in Processes
    BY <1>1, NotMain, UpgradeStateTyped, UpgraderContent
  <1>2. CASE w = "main"
    BY <1>2, StateUpdated DEF Content
  <1>3. QED
    BY <1>1, <1>2, NotMain

\* A step of a save keeps the types of the files and of the open files.
LEMMA SaveTyped ==
    ASSUME TypeOK, NEW w \in Writers, w = "main" => loaded \in States,
           OpenState(w) \/ WriteState(w) \/ RenameState(w) \/ UnlinkState(w)
    PROVE  {st', stTmp'} \subseteq StateFiles /\ fd' \in [Writers -> FdValues]
  <1> USE DEF TypeOK, FdValues
  <1>0. Content(w) \in StateFiles /\ {NoFile, Empty, Torn} \subseteq StateFiles
    BY ContentTyped DEF StateFiles
  <1>1. CASE OpenState(w)
    BY <1>0, <1>1 DEF OpenState
  <1>2. CASE WriteState(w)
    BY <1>0, <1>2 DEF WriteState, Over
  <1>3. CASE RenameState(w)
    BY <1>0, <1>3 DEF RenameState, Renamed
  <1>4. CASE UnlinkState(w)
    BY <1>0, <1>4 DEF UnlinkState, Removed
  <1>5. QED
    BY <1>1, <1>2, <1>3, <1>4

\* Closing what a writer had open keeps the type.
LEMMA ClosedTyped ==
    ASSUME TypeOK, NEW ws
    PROVE  Closed(ws) \in [Writers -> FdValues] /\ Removed \in [Writers -> FdValues]
  BY DEF TypeOK, Closed, Removed, FdValues

\* A failed operation is counted.
LEMMA FailTyped == TypeOK /\ Fail => failures' \in 0 .. MaxFailures /\ failures' > 0
  BY UpgradeAssumption DEF TypeOK, Fail

\* A process image is started on the installed build, or not at all.
LEMMA RunBinaryTyped ==
    ASSUME TypeOK, RunBinary
    PROVE  /\ build' \in [Processes -> Builds]
           /\ build'["daemon"] \in Builds
           /\ bin \in Builds => build'["daemon"] = bin
           /\ bin \notin Builds => dpc' = "down"
           /\ upc' = [upc EXCEPT !["daemon"] = "idle"]
           /\ fd' = Closed({"daemon", "main"})
           /\ dpc' \in {"load", "down"}
           /\ checked' = FALSE /\ loaded' = NoFile
  BY DEF TypeOK, RunBinary, Processes

\* The first installation is typed.
LEMMA InitTyped == Init => TypeOK /\ LoadedPresent /\ SavesOwned
  <1> SUFFICES ASSUME Init PROVE TypeOK /\ LoadedPresent /\ SavesOwned
    OBVIOUS
  <1>1. 1 \in Builds /\ 1 \in Contents
    BY UpgradeAssumption DEF Builds, Contents
  <1>2. {bin, new, bak, bakTmp} \subseteq MaybeFile /\ published \in Builds
    BY <1>1 DEF Init, MaybeFile
  <1>3. {st, stTmp} \subseteq StateFiles /\ loaded \in States \cup {NoFile}
    BY DEF Init, StateFiles
  <1>4. /\ build \in [Processes -> Builds] /\ rel \in [Processes -> Builds]
        /\ upc \in [Processes -> UpcValues]
        /\ fd \in [Writers -> FdValues]
    BY <1>1 DEF Init, UpcValues, FdValues
  <1>5. crashes \in 0 .. MaxCrashes /\ failures \in 0 .. MaxFailures /\ windows \in 0 .. MaxWindows
    BY UpgradeAssumption DEF Init
  <1>6. LoadedPresent /\ SavesOwned
    BY NotMain DEF Init, LoadedPresent, SavesOwned
  <1>7. TypeOK
    BY <1>2, <1>3, <1>4, <1>5 DEF Init, TypeOK, UpcValues, FdValues
  <1>8. QED
    BY <1>6, <1>7

\* An upgrader keeps the types.
LEMMA UpgraderTyped ==
    ASSUME TypeOK, NEW u \in Upgraders, CheckAndUpgrade(u)
    PROVE  TypeOK'
  <1> USE DEF TypeOK, files, saves, disk, main, bounds, history
  <1>0. /\ rel[u] \in Builds /\ rel[u] \in Contents /\ Corrupt \in Contents
        /\ u \in Processes /\ u \in Writers /\ u # "main"
    BY NotMain DEF Contents
  <1>1. CASE FetchLatest(u)
    BY <1>1 DEF FetchLatest, UpgradeStep
  <1>2. CASE Download(u)
    <2>1. {bin, new', bak, bakTmp} \subseteq MaybeFile
      BY <1>0, <1>2 DEF Download, MaybeFile
    <2>2. QED
      BY <1>2, <2>1 DEF Download, UpgradeStep
  <1>3. CASE Verify(u)
    BY <1>3 DEF Verify, UpgradeStep
  <1>4. CASE CopyBinary(u)
    BY <1>4 DEF CopyBinary, UpgradeStep
  <1>5. CASE Backup(u)
    <2>1. {bin, new, bak', bakTmp'} \subseteq MaybeFile
      BY <1>0, <1>5 DEF Backup, MaybeFile
    <2>2. QED
      BY <1>5, <2>1 DEF Backup, UpgradeStep
  <1>6. CASE SaveState(u)
    <2>1. {st', stTmp'} \subseteq StateFiles /\ fd' \in [Writers -> FdValues]
      BY <1>0, <1>6, SaveTyped DEF SaveState
    <2>2. upc' \in [Processes -> UpcValues]
      BY <1>6 DEF SaveState, UpcValues
    <2>3. QED
      BY <1>6, <2>1, <2>2 DEF SaveState, UpcValues, FdValues
  <1>7. CASE Replace(u)
    <2>1. {bin', new', bak, bakTmp} \subseteq MaybeFile /\ fresh' \in BOOLEAN
      BY <1>7 DEF Replace, MaybeFile
    <2>2. upc' \in [Processes -> UpcValues]
      BY <1>7 DEF Replace, UpcValues
    <2>3. unannounced' \subseteq Contents
      BY <1>7 DEF Replace, MaybeFile
    <2>4. failures' \in 0 .. MaxFailures
      BY <1>7, FailTyped DEF Replace
    <2>5. QED
      BY <1>7, <2>1, <2>2, <2>3, <2>4 DEF Replace, UpcValues
  <1>8. CASE RemoveTarget(u)
    <2>1. {bin', new, bak', bakTmp} \subseteq MaybeFile /\ fresh' \in BOOLEAN
      BY <1>8 DEF RemoveTarget, MaybeFile
    <2>2. failures' \in 0 .. MaxFailures
      BY <1>8, FailTyped DEF RemoveTarget
    <2>3. {st', stTmp'} \subseteq StateFiles /\ fd' \in [Writers -> FdValues]
      BY <1>0, <1>8, SaveTyped DEF RemoveTarget, FdValues
    <2>4. QED
      BY <1>8, <2>1, <2>2, <2>3 DEF RemoveTarget, FdValues
  <1>9. CASE Abandon(u)
    <2>1. failures' \in 0 .. MaxFailures
      BY <1>9, FailTyped DEF Abandon
    <2>2. fd' \in [Writers -> FdValues]
      BY <1>9, ClosedTyped DEF Abandon
    <2>3. QED
      BY <1>9, <2>1, <2>2 DEF Abandon, UpgradeStep, FdValues
  <1>10. QED
    BY <1>1, <1>2, <1>3, <1>4, <1>5, <1>6, <1>7, <1>8, <1>9 DEF CheckAndUpgrade

\* The daemon's main goroutine keeps the types.
LEMMA DaemonTyped == TypeOK /\ LoadedPresent /\ Daemon => TypeOK'
  <1> SUFFICES ASSUME TypeOK, LoadedPresent, Daemon PROVE TypeOK'
    OBVIOUS
  <1> USE DEF TypeOK, files, saves, disk, main, bounds, history
  <1>0. "main" \in Writers /\ (dpc \in {"once", "marksave"} => loaded \in States)
    BY NotMain DEF LoadedPresent
  <1>1. CASE Boot
    <2>1. fd' = Closed({"daemon", "main"})
      BY <1>1 DEF Boot, RunBinary
    <2>2. fd' \in [Writers -> FdValues]
      BY <2>1, ClosedTyped
    <2>3. QED
      BY <1>1, <2>2, RunBinaryTyped DEF Boot, FdValues
  <1>2. CASE LoadState
    <2>1. dpc' \in {"running", "clear", "once", "finish", "rollback"}
      BY <1>2 DEF LoadState, Verdict
    <2>2. QED
      BY <1>2, <2>1 DEF LoadState
  <1>3. CASE MarkStarted
    <2>1. {st', stTmp'} \subseteq StateFiles /\ fd' \in [Writers -> FdValues]
      BY <1>0, <1>3, SaveTyped DEF MarkStarted
    <2>2. QED
      BY <1>3, <2>1 DEF MarkStarted, FdValues
  <1>4. CASE ClearState
    <2>1. failures' \in 0 .. MaxFailures /\ st' \in StateFiles
      BY <1>4, FailTyped DEF ClearState, StateFiles
    <2>2. dpc' \in {"running", "unback", "restart"}
      BY <1>4 DEF ClearState
    <2>3. fd' \in [Writers -> FdValues]
      BY <1>4, ClosedTyped DEF ClearState, FdValues
    <2>4. QED
      BY <1>4, <2>1, <2>2, <2>3 DEF ClearState, FdValues
  <1>5. CASE RemoveBackup
    BY <1>5 DEF RemoveBackup, MaybeFile
  <1>6. CASE Rollback
    BY <1>6 DEF Rollback, MaybeFile
  <1>7. CASE StartupFails
    <2>1. failures' \in 0 .. MaxFailures
      BY <1>7, FailTyped DEF StartupFails
    <2>2. fd' \in [Writers -> FdValues]
      BY <1>7, ClosedTyped DEF StartupFails
    <2>3. QED
      BY <1>7, <2>1, <2>2 DEF StartupFails, FdValues
  <1>8. CASE Restart
    <2>1. fd' = Closed({"daemon", "main"})
      BY <1>8 DEF Restart, RunBinary
    <2>2. fd' \in [Writers -> FdValues]
      BY <2>1, ClosedTyped
    <2>3. QED
      BY <1>8, <2>2, RunBinaryTyped DEF Restart, FdValues
  <1>9. CASE Terminate
    BY <1>9 DEF Terminate
  <1>10. CASE MarkLoad
    BY <1>10 DEF MarkLoad
  <1>11. CASE MarkSave
    <2>1. {st', stTmp'} \subseteq StateFiles /\ fd' \in [Writers -> FdValues]
      BY <1>0, <1>11, SaveTyped DEF MarkSave
    <2>2. QED
      BY <1>11, <2>1 DEF MarkSave, FdValues
  <1>12. CASE MarkFails
    <2>1. failures' \in 0 .. MaxFailures
      BY <1>12, FailTyped DEF MarkFails
    <2>2. fd' \in [Writers -> FdValues]
      BY <1>12, ClosedTyped DEF MarkFails
    <2>3. QED
      BY <1>12, <2>1, <2>2 DEF MarkFails, FdValues
  <1>13. CASE Exit
    <2>1. fd' \in [Writers -> FdValues]
      BY <1>13, ClosedTyped DEF Exit, Down
    <2>2. QED
      BY <1>13, <2>1 DEF Exit, Down, FdValues
  <1>14. CASE MainRemovesTarget
    <2>1. failures' \in 0 .. MaxFailures
      BY <1>14, FailTyped DEF MainRemovesTarget
    <2>2. {st', stTmp'} \subseteq StateFiles /\ fd' \in [Writers -> FdValues]
      BY <1>0, <1>14, SaveTyped DEF MainRemovesTarget, FdValues
    <2>3. bin' \in MaybeFile
      BY <1>14 DEF MainRemovesTarget, MaybeFile
    <2>4. QED
      BY <1>14, <2>1, <2>2, <2>3 DEF MainRemovesTarget, FdValues
  <1>15. QED
    BY <1>1, <1>2, <1>3, <1>4, <1>5, <1>6, <1>7, <1>8, <1>9, <1>10, <1>11, <1>12,
       <1>13, <1>14 DEF Daemon, HandleStartup

\* Whatever a step of any upgrader or of the environment changes has its type.
LEMMA NextTyped == TypeOK /\ LoadedPresent /\ [Next]_vars => TypeOK'
  <1> SUFFICES ASSUME TypeOK, LoadedPresent, [Next]_vars PROVE TypeOK'
    OBVIOUS
  <1> USE DEF files, saves, disk, main, bounds, history
  <1>1. CASE Daemon
    BY <1>1, DaemonTyped
  <1>2. CASE Crash
    <2>1. crashes' \in 0 .. MaxCrashes
      BY <1>2, UpgradeAssumption DEF Crash, TypeOK
    <2>2. fd' \in [Writers -> FdValues]
      BY <1>2, ClosedTyped DEF Crash, Down
    <2>3. QED
      BY <1>2, <2>1, <2>2 DEF Crash, Down, TypeOK, FdValues
  <1>3. CASE StartCheck
    BY <1>3 DEF StartCheck, UpgradeStep, TypeOK
  <1>4. CASE "cli" \in Upgraders /\ StartCLI
    BY <1>4 DEF StartCLI, UpgradeStep, TypeOK
  <1>5. ASSUME NEW u \in Upgraders, CheckAndUpgrade(u) PROVE TypeOK'
    BY <1>5, UpgraderTyped
  <1>6. CASE Publish
    <2>1. published' \in Builds
      BY <1>6, UpgradeAssumption DEF Publish, TypeOK, Builds
    <2>2. QED
      BY <1>6, <2>1 DEF Publish, TypeOK
  <1>7. CASE WindowPasses
    <2>1. {st', stTmp'} \subseteq StateFiles
      BY <1>7, AgedState DEF WindowPasses, TypeOK
    <2>2. loaded' \in States \cup {NoFile}
      BY <1>7, AgedState DEF WindowPasses, TypeOK, StateFiles
    <2>3. windows' \in 0 .. MaxWindows
      BY <1>7, UpgradeAssumption DEF WindowPasses, TypeOK
    <2>4. QED
      BY <1>7, <2>1, <2>2, <2>3 DEF WindowPasses, TypeOK
  <1>8. CASE UNCHANGED vars
    BY <1>8 DEF vars, TypeOK
  <1>9. QED
    BY <1>1, <1>2, <1>3, <1>4, <1>5, <1>6, <1>7, <1>8 DEF Next

\* A save leaves alone what the others have not begun, and its rename ends it.
LEMMA SaveOthers ==
    ASSUME TypeOK, NEW w \in Writers,
           OpenState(w) \/ WriteState(w) \/ RenameState(w) \/ UnlinkState(w)
    PROVE  /\ \A v \in Writers \ {w} : fd[v] = "none" => fd'[v] = "none"
           /\ RenameState(w) => fd'[w] = "none"
  <1> USE DEF TypeOK
  <1>1. CASE OpenState(w)
    BY <1>1 DEF OpenState, RenameState
  <1>2. CASE WriteState(w)
    BY <1>2 DEF WriteState, RenameState
  <1>3. CASE RenameState(w)
    BY <1>3 DEF RenameState, Renamed
  <1>4. CASE UnlinkState(w)
    BY <1>4 DEF UnlinkState, RenameState, Removed
  <1>5. QED
    BY <1>1, <1>2, <1>3, <1>4

\* Closing ends the saves of some and leaves the others as they are.
LEMMA ClosedMeans ==
    ASSUME TypeOK, NEW ws, NEW w \in Writers
    PROVE  /\ Closed(ws)[w] = (IF w \in ws THEN "none" ELSE fd[w])
           /\ fd[w] = "none" => Removed[w] = "none"
  BY DEF TypeOK, Closed, Removed

\* An upgrader saves only in its step for it.
LEMMA UpgraderOwns ==
    ASSUME TypeOK, SavesOwned, NEW u \in Upgraders, CheckAndUpgrade(u)
    PROVE  SavesOwned'
  <1> USE DEF TypeOK, SavesOwned, files, saves, disk, main, bounds, history
  <1>0. u \in Processes /\ u \in Writers /\ u # "main" /\ "main" \in Writers
        /\ Processes \subseteq Writers
    BY NotMain
  <1>1. CASE FetchLatest(u) \/ Download(u) \/ Verify(u) \/ CopyBinary(u) \/ Backup(u)
    <2>1. fd' = fd /\ dpc' = dpc
      BY <1>1 DEF FetchLatest, Download, Verify, CopyBinary, Backup
    <2>2. PICK to \in UpcValues : upc' = [upc EXCEPT ![u] = to] /\ upc[u] # "save"
      BY <1>1 DEF FetchLatest, Download, Verify, CopyBinary, Backup, UpgradeStep, UpcValues
    <2>3. QED
      BY <1>0, <2>1, <2>2
  <1>2. CASE SaveState(u)
    <2>1. dpc' = dpc /\ fd' \in [Writers -> FdValues]
      BY <1>0, <1>2, SaveTyped DEF SaveState
    <2>2. \A v \in Writers \ {u} : fd[v] = "none" => fd'[v] = "none"
      BY <1>0, <1>2, SaveOthers DEF SaveState
    <2>3. upc'[u] = "save" \/ fd'[u] = "none"
      BY <1>0, <1>2, SaveOthers DEF SaveState
    <2>4. \A v \in Processes \ {u} : upc'[v] = upc[v]
      BY <1>2 DEF SaveState
    <2>5. QED
      BY <1>0, <2>1, <2>2, <2>3, <2>4
  <1>3. CASE Replace(u)
    BY <1>3 DEF Replace
  <1>4. CASE RemoveTarget(u)
    <2>1. upc' = upc /\ dpc' = dpc
      BY <1>4 DEF RemoveTarget
    <2>2. CASE upc[u] = "save"
      <3>1. \A v \in Writers \ {u} : fd[v] = "none" => fd'[v] = "none"
        BY <1>0, <1>4, <2>2, SaveOthers DEF RemoveTarget
      <3>2. QED
        BY <1>0, <2>1, <2>2, <3>1
    <2>3. CASE upc[u] # "save"
      BY <1>4, <2>1, <2>3 DEF RemoveTarget
    <2>4. QED
      BY <2>2, <2>3
  <1>5. CASE Abandon(u)
    <2>1. \A w \in Writers : fd'[w] = (IF w = u THEN "none" ELSE fd[w])
      BY <1>5, ClosedMeans DEF Abandon
    <2>2. dpc' = dpc /\ \A v \in Processes \ {u} : upc'[v] = upc[v]
      BY <1>5 DEF Abandon, UpgradeStep
    <2>3. QED
      BY <1>0, <2>1, <2>2
  <1>6. QED
    BY <1>1, <1>2, <1>3, <1>4, <1>5 DEF CheckAndUpgrade

\* main saves only where it marks a state.
LEMMA DaemonOwns ==
    ASSUME TypeOK, LoadedPresent, SavesOwned, Daemon \/ Crash
    PROVE  SavesOwned'
  <1> USE DEF TypeOK, SavesOwned, LoadedPresent, files, saves, disk, main, bounds, history
  <1>0. "main" \in Writers /\ "main" \notin Processes /\ Processes \subseteq Writers
        /\ "daemon" \in Processes
    BY NotMain
  <1>1. CASE Boot \/ Restart
    <2>1. fd' = Closed({"daemon", "main"}) /\ upc' = [upc EXCEPT !["daemon"] = "idle"]
      BY <1>1 DEF Boot, Restart, RunBinary
    <2>2. \A w \in Writers : fd'[w] = (IF w \in {"daemon", "main"} THEN "none" ELSE fd[w])
      BY <2>1, ClosedMeans
    <2>3. QED
      BY <1>0, <2>1, <2>2
  <1>2. CASE Exit \/ Crash
    <2>1. fd' = Closed({"daemon", "main"}) /\ upc' = [upc EXCEPT !["daemon"] = "idle"]
      BY <1>2 DEF Exit, Crash, Down
    <2>2. \A w \in Writers : fd'[w] = (IF w \in {"daemon", "main"} THEN "none" ELSE fd[w])
      BY <2>1, ClosedMeans
    <2>3. QED
      BY <1>0, <2>1, <2>2
  <1>3. CASE LoadState \/ RemoveBackup \/ Rollback \/ Terminate \/ MarkLoad
    BY <1>3 DEF LoadState, RemoveBackup, Rollback, Terminate, MarkLoad
  <1>4. CASE MarkStarted \/ MarkSave
    <2>1. \A v \in Writers \ {"main"} : fd[v] = "none" => fd'[v] = "none"
      BY <1>0, <1>4, SaveOthers DEF MarkStarted, MarkSave
    <2>2. dpc' \in {"once", "marksave"} \/ fd'["main"] = "none"
      BY <1>0, <1>4, SaveOthers DEF MarkStarted, MarkSave
    <2>3. upc' = upc
      BY <1>4 DEF MarkStarted, MarkSave
    <2>4. QED
      BY <1>0, <2>1, <2>2, <2>3
  <1>5. CASE ClearState
    <2>1. \A w \in Writers : fd[w] = "none" => fd'[w] = "none"
      BY <1>5, ClosedMeans DEF ClearState
    <2>2. upc' = upc /\ fd["main"] = "none"
      BY <1>5 DEF ClearState
    <2>3. QED
      BY <1>0, <2>1, <2>2
  <1>6. CASE StartupFails \/ MarkFails
    <2>1. fd' = Closed({"main"}) /\ upc' = upc
      BY <1>6 DEF StartupFails, MarkFails
    <2>2. \A w \in Writers : fd'[w] = (IF w = "main" THEN "none" ELSE fd[w])
      BY <2>1, ClosedMeans
    <2>3. QED
      BY <1>0, <2>1, <2>2
  <1>7. CASE MainRemovesTarget
    <2>1. CASE dpc = "rollback" /\ UNCHANGED saves
      BY <1>7, <2>1 DEF MainRemovesTarget
    <2>2. CASE dpc \in {"once", "marksave"} /\ UnlinkState("main")
      <3>1. \A v \in Writers \ {"main"} : fd[v] = "none" => fd'[v] = "none"
        BY <1>0, <2>2, SaveOthers
      <3>2. QED
        BY <1>0, <1>7, <2>2, <3>1 DEF MainRemovesTarget
    <2>3. QED
      BY <1>7, <2>1, <2>2 DEF MainRemovesTarget
  <1>8. QED
    BY <1>1, <1>2, <1>3, <1>4, <1>5, <1>6, <1>7 DEF Daemon, HandleStartup

\* main keeps what it has read until it has acted on it, and whoever saves is
\* at it.
LEMMA NextLoaded ==
    ASSUME TypeOK, LoadedPresent, SavesOwned, [Next]_vars
    PROVE  LoadedPresent' /\ SavesOwned'
  <1> USE DEF LoadedPresent, files, saves, disk, main, bounds, history
  <1>0. NoFile \notin States
    BY StateAssumption
  <1>1. CASE Daemon \/ Crash
    <2> SUFFICES LoadedPresent'
      BY <1>1, DaemonOwns
    <2>1. CASE Boot \/ Restart
      BY <2>1, RunBinaryTyped DEF Boot, Restart
    <2>2. CASE LoadState
      BY <2>2 DEF LoadState, Verdict
    <2>3. CASE MarkLoad
      BY <2>3 DEF MarkLoad
    <2>4. CASE MarkStarted \/ ClearState \/ RemoveBackup \/ Rollback \/ StartupFails
               \/ MainRemovesTarget
      BY <2>4 DEF MarkStarted, ClearState, RemoveBackup, Rollback, StartupFails,
                  MainRemovesTarget
    <2>5. CASE Terminate \/ MarkSave \/ MarkFails \/ Exit \/ Crash
      BY <2>5 DEF Terminate, MarkSave, MarkFails, Exit, Crash, Down
    <2>6. QED
      BY <1>1, <2>1, <2>2, <2>3, <2>4, <2>5 DEF Daemon, HandleStartup
  <1>2. CASE StartCheck \/ ("cli" \in Upgraders /\ StartCLI) \/ Publish
    <2>1. dpc' = dpc /\ loaded' = loaded /\ fd' = fd
      BY <1>2 DEF StartCheck, StartCLI, Publish
    <2>3. \A u \in Processes : upc[u] = "save" => upc'[u] = "save"
      BY <1>2 DEF StartCheck, StartCLI, Publish, UpgradeStep, TypeOK
    <2>4. QED
      BY <2>1, <2>3 DEF SavesOwned
  <1>3. ASSUME NEW u \in Upgraders, CheckAndUpgrade(u) PROVE LoadedPresent' /\ SavesOwned'
    <2>1. dpc' = dpc /\ loaded' = loaded
      BY <1>3 DEF CheckAndUpgrade, FetchLatest, Download, Verify, CopyBinary, Backup, SaveState,
                  Replace, RemoveTarget, Abandon
    <2>2. QED
      BY <1>3, <2>1, UpgraderOwns
  <1>4. CASE WindowPasses
    <2>1. loaded \in States => loaded' \in States
      BY <1>4, AgedState DEF WindowPasses, TypeOK, StateFiles
    <2>2. QED
      BY <1>4, <2>1 DEF WindowPasses, SavesOwned
  <1>5. CASE UNCHANGED vars
    BY <1>5 DEF vars, SavesOwned
  <1>6. QED
    BY <1>1, <1>2, <1>3, <1>4, <1>5 DEF Next

\* Every variable keeps its type, whoever upgrades and whatever fails, although
\* the daemon's two goroutines and the command write the state through one
\* temporary file; what a start or a mark acts on is a whole state, and a save
\* is open only where its writer is at it (manager.go:94-132, 236-280).
THEOREM TypeCorrect == Spec => [](TypeOK /\ LoadedPresent /\ SavesOwned)
  <1>1. TypeOK /\ LoadedPresent /\ SavesOwned /\ [Next]_vars
          => (TypeOK /\ LoadedPresent /\ SavesOwned)'
    BY NextTyped, NextLoaded
  <1>2. QED
    BY InitTyped, <1>1, PTL DEF Spec

-----------------------------------------------------------------------------
(* What the steps of a save do to the files.                               *)

\* The fields of a state that is updated.
LEMMA UpdatedFields ==
    \A s \in States :
        /\ [s EXCEPT !.recent = FALSE].from = s.from
        /\ [s EXCEPT !.recent = FALSE].to = s.to
        /\ [s EXCEPT !.recent = FALSE].once = s.once
        /\ [s EXCEPT !.recent = FALSE].clean = s.clean
        /\ ~[s EXCEPT !.recent = FALSE].recent
        /\ Started(s).from = s.from /\ Started(s).to = s.to
        /\ Started(s).once /\ Started(s).recent /\ ~Started(s).clean
        /\ Marked(s).from = s.from /\ Marked(s).to = s.to
        /\ Marked(s).once = s.once /\ Marked(s).clean
        /\ Marked(s).recent = s.recent
  BY DEF States, Marked, Started

\* What a state file becomes when the window passes.
LEMMA AgedFields ==
    ASSUME NEW s \in StateFiles
    PROVE  /\ s \in States <=> Aged(s) \in States
           /\ s \in States => /\ Aged(s).from = s.from /\ Aged(s).to = s.to
                              /\ Aged(s).once = s.once /\ Aged(s).clean = s.clean
                              /\ ~Aged(s).recent
           /\ ~Recent(Aged(s))
           /\ s \notin States => Aged(s) = s
  <1>1. CASE s \in States
    <2>1. Aged(s) = [s EXCEPT !.recent = FALSE] /\ Aged(s) \in States
      BY <1>1, AgedState
    <2>2. QED
      BY <1>1, <2>1, UpdatedFields DEF Recent
  <1>2. CASE s \notin States
    BY <1>2, AgedState DEF Recent
  <1>3. QED
    BY <1>1, <1>2

\* A save leaves only what was there, what is written, and wreckage.
LEMMA SaveFiles ==
    ASSUME TypeOK, NEW w \in Writers,
           OpenState(w) \/ WriteState(w) \/ RenameState(w) \/ UnlinkState(w)
    PROVE  {st', stTmp'} \subseteq {st, stTmp, Content(w), Empty, Torn, NoFile}
  BY DEF OpenState, WriteState, RenameState, UnlinkState, Over

\* Wreckage is no state.
LEMMA NoStates == \A s \in {Empty, Torn, NoFile} : s \notin States /\ ~Recent(s) /\ ~Armed(s)
  BY StateAssumption DEF Recent, Armed

\* A writer that has the temporary file for itself gets its state into it, and
\* then under its name.
LEMMA SaveAlongside ==
    ASSUME TypeOK, NEW w \in Writers,
           OpenState(w) \/ WriteState(w) \/ RenameState(w) \/ UnlinkState(w),
           fd[w] \in {"none", "tmp", "done"}, fd[w] = "tmp" => stTmp = Empty
    PROVE  /\ fd'[w] \in {"none", "tmp", "done"}
           /\ fd'[w] = "tmp" => stTmp' = Empty
           /\ fd'[w] = "done" => stTmp' = Content(w) \/ (fd[w] = "done" /\ stTmp' = stTmp)
           /\ RenameState(w) => fd[w] = "done" /\ st' = stTmp
           /\ ~RenameState(w) => st' \in {st, NoFile}
  <1> USE DEF TypeOK
  <1>1. CASE OpenState(w)
    BY <1>1 DEF OpenState, RenameState
  <1>2. CASE WriteState(w)
    BY <1>2 DEF WriteState, RenameState, Over
  <1>3. CASE RenameState(w)
    BY <1>3 DEF RenameState, Renamed
  <1>4. CASE UnlinkState(w)
    BY <1>4 DEF UnlinkState, RenameState, Removed
  <1>5. QED
    BY <1>1, <1>2, <1>3, <1>4

-----------------------------------------------------------------------------
(* Where only the daemon upgrades.                                         *)

DaemonAlone == Upgraders = {"daemon"}

LEMMA AloneWriters ==
    DaemonAlone => /\ "daemon" \in Upgraders /\ Processes = {"daemon"}
                   /\ Writers = {"daemon", "main"} /\ ~CutsShort /\ ~CommandBusy
  BY DEF DaemonAlone, Processes, Writers, CutsShort, CommandBusy

\* A step of the daemon's upgrade goroutine moves it.
LEMMA DaemonSteps ==
    ASSUME TypeOK, NEW from, NEW to, UpgradeStep("daemon", from, to)
    PROVE  upc["daemon"] = from /\ upc'["daemon"] = to /\ Alive("daemon")
  BY DEF TypeOK, UpgradeStep, Processes

\* The upgrade goroutine works in a process that runs.
LEMMA UpgradeAlive ==
    ASSUME TypeOK, CheckAndUpgrade("daemon")
    PROVE  /\ Alive("daemon") /\ upc["daemon"] # "idle"
           /\ UNCHANGED <<main, build>>
  BY DaemonSteps DEF CheckAndUpgrade, FetchLatest, Download, Verify, CopyBinary, Backup,
     SaveState, Replace, RemoveTarget, Abandon, main

\* The steps that are left.
LEMMA AloneSteps ==
    ASSUME DaemonAlone, [Next]_vars
    PROVE  \/ Daemon \/ Crash \/ StartCheck \/ CheckAndUpgrade("daemon")
           \/ Publish \/ WindowPasses \/ UNCHANGED vars
  BY DEF DaemonAlone, Next

\* What a release is verified against, what is backed up, what is installed.
LEMMA VerifiedStep ==
    ASSUME DaemonAlone, DaemonInv, [Next]_vars
    PROVE  InstalledVerified' /\ Verified'
  <1> USE DEF DaemonInv, InstalledVerified, Verified, files, saves, disk, main, history
  <1>0. /\ Corrupt \notin Builds /\ NoFile # Corrupt /\ NoFile \notin Builds
        /\ rel["daemon"] \in Builds /\ "daemon" \in Upgraders /\ TypeOK
        /\ Upgraders \ {"daemon"} = {}
    BY UpgradeAssumption, AloneWriters DEF TypeOK, Contents, DaemonAlone
  <1>1. CASE CheckAndUpgrade("daemon")
    <2>1. CASE FetchLatest("daemon")
      BY <1>0, <2>1, DaemonSteps DEF FetchLatest
    <2>2. CASE Download("daemon")
      BY <1>0, <2>2, DaemonSteps DEF Download
    <2>3. CASE Verify("daemon")
      BY <1>0, <2>3, DaemonSteps DEF Verify, ChecksumMatches
    <2>4. CASE CopyBinary("daemon")
      BY <1>0, <2>4, DaemonSteps DEF CopyBinary
    <2>5. CASE Backup("daemon")
      BY <1>0, <2>5, DaemonSteps DEF Backup
    <2>6. CASE SaveState("daemon")
      BY <1>0, <2>6 DEF SaveState, TypeOK, Processes
    <2>7. CASE Replace("daemon")
      BY <1>0, <2>7 DEF Replace, TypeOK, Processes
    <2>8. CASE RemoveTarget("daemon")
      BY <1>0, <2>8 DEF RemoveTarget
    <2>9. CASE Abandon("daemon")
      BY <1>0, <2>9, DaemonSteps DEF Abandon
    <2>10. QED
      BY <1>1, <2>1, <2>2, <2>3, <2>4, <2>5, <2>6, <2>7, <2>8, <2>9 DEF CheckAndUpgrade
  <1>2. CASE Daemon
    <2>1. CASE Boot \/ Restart
      <3>1. upc'["daemon"] = "idle"
        BY <1>0, <2>1, RunBinaryTyped DEF Boot, Restart, TypeOK, Processes
      <3>2. QED
        BY <2>1, <3>1 DEF Boot, Restart
    <2>2. CASE LoadState \/ MarkStarted \/ ClearState \/ StartupFails
      BY <2>2 DEF LoadState, MarkStarted, ClearState, StartupFails
    <2>3. CASE RemoveBackup
      BY <1>0, <2>3 DEF RemoveBackup
    <2>4. CASE Rollback
      BY <1>0, <2>4 DEF Rollback, TypeOK, MaybeFile, Contents
    <2>5. CASE Terminate \/ MarkLoad \/ MarkSave \/ MarkFails
      BY <2>5 DEF Terminate, MarkLoad, MarkSave, MarkFails
    <2>6. CASE Exit
      BY <1>0, <2>6 DEF Exit, Down, TypeOK, Processes
    <2>7. CASE MainRemovesTarget
      BY <1>0, <2>7 DEF MainRemovesTarget
    <2>8. QED
      BY <1>2, <2>1, <2>2, <2>3, <2>4, <2>5, <2>6, <2>7 DEF Daemon, HandleStartup
  <1>3. CASE Crash
    BY <1>0, <1>3 DEF Crash, Down, TypeOK, Processes
  <1>4. CASE StartCheck
    BY <1>0, <1>4, DaemonSteps DEF StartCheck
  <1>5. CASE Publish \/ WindowPasses
    BY <1>5 DEF Publish, WindowPasses
  <1>6. CASE UNCHANGED vars
    BY <1>6 DEF vars
  <1>7. QED
    BY <1>1, <1>2, <1>3, <1>4, <1>5, <1>6, AloneSteps

\* Where the upgrade goroutine is, and which build main runs.
LEMMA PhasesStep ==
    ASSUME DaemonAlone, DaemonInv, [Next]_vars
    PROVE  Phases'
  <1> USE DEF DaemonInv, Phases, Alive, files, saves, disk, main, bounds, history
  <1>0. TypeOK /\ "daemon" \in Upgraders /\ "daemon" \in Processes
    BY AloneWriters
  <1>1. CASE CheckAndUpgrade("daemon")
    <2>1. CASE FetchLatest("daemon") \/ Download("daemon") \/ Verify("daemon")
               \/ CopyBinary("daemon") \/ Backup("daemon")
      BY <1>0, <2>1, DaemonSteps DEF FetchLatest, Download, Verify, CopyBinary, Backup
    <2>2. CASE SaveState("daemon")
      BY <1>0, <2>2 DEF SaveState, TypeOK
    <2>3. CASE Replace("daemon")
      BY <1>0, <2>3, FailTyped DEF Replace, TypeOK
    <2>4. CASE RemoveTarget("daemon")
      BY <1>0, <2>4, FailTyped DEF RemoveTarget
    <2>5. CASE Abandon("daemon")
      BY <1>0, <2>5, DaemonSteps, FailTyped DEF Abandon
    <2>6. QED
      BY <1>1, <2>1, <2>2, <2>3, <2>4, <2>5 DEF CheckAndUpgrade
  <1>2. CASE Daemon
    <2>1. CASE Boot \/ Restart
      <3>1. /\ upc'["daemon"] = "idle" /\ dpc' \in {"load", "down"}
            /\ dpc' = "load" => build'["daemon"] = bin
        BY <1>0, <2>1, RunBinaryTyped DEF Boot, Restart, TypeOK
      <3>2. QED
        BY <2>1, <3>1 DEF Boot, Restart
    <2>2. CASE LoadState
      BY <2>2 DEF LoadState, Verdict
    <2>3. CASE MarkStarted
      BY <2>3 DEF MarkStarted
    <2>4. CASE ClearState
      BY <2>4, FailTyped DEF ClearState
    <2>5. CASE RemoveBackup \/ Rollback
      BY <2>5 DEF RemoveBackup, Rollback
    <2>6. CASE StartupFails
      BY <2>6, FailTyped DEF StartupFails
    <2>7. CASE Terminate \/ MarkLoad \/ MarkSave
      BY <2>7 DEF Terminate, MarkLoad, MarkSave
    <2>8. CASE MarkFails
      BY <2>8, FailTyped DEF MarkFails
    <2>9. CASE Exit
      BY <1>0, <2>9 DEF Exit, Down, TypeOK
    <2>10. CASE MainRemovesTarget
      BY <2>10, FailTyped DEF MainRemovesTarget
    <2>11. QED
      BY <1>2, <2>1, <2>2, <2>3, <2>4, <2>5, <2>6, <2>7, <2>8, <2>9, <2>10
         DEF Daemon, HandleStartup
  <1>3. CASE Crash
    BY <1>0, <1>3 DEF Crash, Down, TypeOK
  <1>4. CASE StartCheck
    BY <1>0, <1>4, DaemonSteps DEF StartCheck
  <1>5. CASE Publish \/ WindowPasses
    BY <1>5 DEF Publish, WindowPasses
  <1>6. CASE UNCHANGED vars
    BY <1>6 DEF vars
  <1>7. QED
    BY <1>1, <1>2, <1>3, <1>4, <1>5, <1>6, AloneSteps

\* An upgrade under way is one outside the rollback window, and its steps, and
\* a mark beside it, stay there.
LEMMA QuietSave ==
    ASSUME DaemonInv, Quiet, NEW w \in Writers, ~Recent(Content(w)),
           OpenState(w) \/ WriteState(w) \/ RenameState(w) \/ UnlinkState(w)
    PROVE  ~InWindow'
  <1>1. {st', stTmp'} \subseteq {st, stTmp, Content(w), Empty, Torn, NoFile}
    BY SaveFiles DEF DaemonInv
  <1>2. QED
    BY <1>1, NoStates DEF Quiet, InWindow

LEMMA QuietUpgrade ==
    ASSUME DaemonAlone, DaemonInv, CheckAndUpgrade("daemon")
    PROVE  Quiet'
  <1> USE DEF files, saves, disk, main
  <1>0. /\ TypeOK /\ Quiet /\ "daemon" \in Writers /\ "daemon" \in Processes
        /\ UNCHANGED <<dpc, loaded>>
    BY UpgradeAlive, AloneWriters DEF DaemonInv, WindowQuiet
  <1>1. ~Recent(Content("daemon"))
    BY <1>0, NotMain, UpgradeStateTyped, UpgraderContent DEF Recent
  <1>2. CASE FetchLatest("daemon") \/ Download("daemon") \/ Verify("daemon")
             \/ CopyBinary("daemon") \/ Backup("daemon") \/ Replace("daemon")
             \/ Abandon("daemon")
    BY <1>0, <1>2 DEF FetchLatest, Download, Verify, CopyBinary, Backup, Replace, Abandon,
                      Quiet, InWindow
  <1>3. CASE SaveState("daemon")
    BY <1>0, <1>1, <1>3, QuietSave DEF SaveState, Quiet
  <1>4. CASE RemoveTarget("daemon")
    BY <1>0, <1>1, <1>4, QuietSave DEF RemoveTarget, Quiet, InWindow
  <1>5. QED
    BY <1>2, <1>3, <1>4 DEF CheckAndUpgrade

\* An upgrade starts outside the rollback window, and nothing that runs beside
\* it opens one.
LEMMA WindowQuietStep ==
    ASSUME DaemonAlone, DaemonInv, [Next]_vars
    PROVE  WindowQuiet'
  <1> USE DEF DaemonInv, WindowQuiet, files, saves, disk, main
  <1>0. /\ TypeOK /\ "daemon" \in Upgraders /\ "daemon" \in Processes
        /\ "daemon" \in Writers /\ "main" \in Writers
    BY AloneWriters
  <1>1. CASE CheckAndUpgrade("daemon")
    BY <1>1, QuietUpgrade
  <1>2. CASE Daemon
    <2>1. CASE Boot \/ Restart
      <3>1. upc'["daemon"] = "idle" /\ dpc' \in {"load", "down"}
        BY <1>0, <2>1, RunBinaryTyped DEF Boot, Restart, TypeOK
      <3>2. QED
        BY <3>1 DEF Alive
    <2>2. CASE LoadState \/ MarkStarted \/ ClearState \/ RemoveBackup \/ Rollback
      <3>1. /\ upc' = upc /\ upc["daemon"] = "idle" /\ build' = build
            /\ dpc' = "running" => bin' = bin /\ bin = build["daemon"]
            /\ dpc' \notin {"mark", "marksave", "exit"}
        BY <2>2 DEF LoadState, MarkStarted, ClearState, RemoveBackup, Rollback, Phases, Alive,
                    Verdict
      <3>2. QED
        BY <3>1 DEF Alive
    <2>3. CASE MainRemovesTarget
      <3>1. upc' = upc /\ dpc' = dpc /\ build' = build /\ loaded' = loaded
        BY <2>3 DEF MainRemovesTarget
      <3>2. CASE dpc # "marksave"
        BY <2>3, <3>1, <3>2 DEF MainRemovesTarget, Phases, Alive
      <3>3. CASE dpc = "marksave"
        <4>1. bin' = bin /\ UnlinkState("main")
          BY <2>3, <3>3 DEF MainRemovesTarget
        <4>2. Quiet => ~InWindow'
          <5>1. Quiet => ~Recent(Content("main"))
            BY <3>3, UpdatedFields DEF Quiet, Content, LoadedPresent, Recent
          <5>2. QED
            BY <1>0, <4>1, <5>1, QuietSave
        <4>3. QED
          BY <3>1, <4>1, <4>2 DEF Alive, Quiet
      <3>4. QED
        BY <3>2, <3>3
    <2>4. CASE StartupFails \/ Terminate \/ MarkFails
      <3>1. /\ upc' = upc /\ build' = build /\ bin' = bin
            /\ upc["daemon"] # "idle" \/ bin \notin {build["daemon"], NoFile} => Alive("daemon")
            /\ dpc' # "marksave" /\ InWindow' = InWindow
        BY <2>4 DEF StartupFails, Terminate, MarkFails, Phases, Alive, InWindow
      <3>2. QED
        BY <3>1 DEF Quiet
    <2>5. CASE MarkLoad
      BY <2>5 DEF MarkLoad, Alive, Quiet, InWindow, Recent
    <2>6. CASE MarkSave
      <3>1. Quiet => ~Recent(Content("main"))
        BY <2>6, UpdatedFields DEF MarkSave, Quiet, Content, LoadedPresent, Recent
      <3>2. Quiet => ~InWindow'
        BY <1>0, <2>6, <3>1, QuietSave DEF MarkSave
      <3>3. QED
        BY <2>6, <3>2 DEF MarkSave, Alive, Quiet
    <2>7. CASE Exit
      BY <1>0, <2>7 DEF Exit, Down, TypeOK, Alive
    <2>8. QED
      BY <1>2, <2>1, <2>2, <2>3, <2>4, <2>5, <2>6, <2>7 DEF Daemon, HandleStartup
  <1>3. CASE Crash
    BY <1>0, <1>3 DEF Crash, Down, TypeOK, Alive
  <1>4. CASE StartCheck
    BY <1>4 DEF StartCheck, Quiet, InWindow
  <1>5. CASE Publish
    BY <1>5 DEF Publish, Quiet, InWindow, Alive
  <1>6. CASE WindowPasses
    <2>1. ~InWindow'
      BY <1>0, <1>6, AgedFields DEF WindowPasses, TypeOK, InWindow
    <2>2. dpc = "marksave" => ~loaded'.recent
      BY <1>0, <1>6, AgedFields DEF WindowPasses, LoadedPresent, StateFiles
    <2>3. QED
      BY <1>6, <2>1, <2>2 DEF WindowPasses, Quiet
  <1>7. CASE UNCHANGED vars
    BY <1>7 DEF vars, Quiet, InWindow, Alive
  <1>8. QED
    BY <1>1, <1>2, <1>3, <1>4, <1>5, <1>6, <1>7, AloneSteps

\* A start, and the upgrade of a daemon that is not being stopped, save with
\* nobody at the temporary file beside them.
LEMMA SaveAloneStep ==
    ASSUME DaemonAlone, DaemonInv, [Next]_vars
    PROVE  SaveAlone'
  <1> USE DEF DaemonInv, SaveAlone, files, saves, disk, main
  <1>0. /\ TypeOK /\ "daemon" \in Upgraders /\ "daemon" \in Processes
        /\ "daemon" \in Writers /\ "main" \in Writers /\ Processes = {"daemon"}
    BY AloneWriters
  <1>1. CASE CheckAndUpgrade("daemon")
    <2>1. UNCHANGED <<main, build>> /\ dpc # "once"
      BY <1>0, <1>1, UpgradeAlive DEF Alive
    <2>2. CASE SaveState("daemon") \/ (RemoveTarget("daemon") /\ upc["daemon"] = "save")
      <3>1. UpgradeState("daemon")' = UpgradeState("daemon")
        BY <2>1, <2>2 DEF SaveState, RemoveTarget, UpgradeState
      <3>2. Content("daemon") = UpgradeState("daemon")
        BY <1>0, NotMain, UpgraderContent
      <3>3. \/ OpenState("daemon") \/ WriteState("daemon") \/ RenameState("daemon")
            \/ UnlinkState("daemon")
        BY <2>2 DEF SaveState, RemoveTarget
      <3>4. CASE dpc = "running"
        BY <1>0, <2>1, <3>1, <3>2, <3>3, <3>4, SaveAlongside
      <3>5. QED
        BY <2>1, <3>4
    <2>3. CASE ~SaveState("daemon") /\ ~(RemoveTarget("daemon") /\ upc["daemon"] = "save")
      <3>1. fd'["daemon"] = "none"
        <4>1. CASE Abandon("daemon")
          BY <1>0, <4>1, ClosedMeans DEF Abandon
        <4>2. CASE ~Abandon("daemon")
          <5>1. upc["daemon"] # "save" /\ fd' = fd
            BY <1>0, <1>1, <2>3, <4>2, DaemonSteps
               DEF CheckAndUpgrade, FetchLatest, Download, Verify, CopyBinary, Backup, Replace,
                   RemoveTarget
          <5>2. QED
            BY <1>0, <5>1 DEF SavesOwned
        <4>3. QED
          BY <4>1, <4>2
      <3>2. QED
        BY <2>1, <3>1
    <2>4. QED
      BY <2>2, <2>3
  <1>2. CASE Daemon
    <2>1. CASE Boot \/ Restart
      <3>1. dpc' \in {"load", "down"}
        BY <1>0, <2>1, RunBinaryTyped DEF Boot, Restart
      <3>2. QED
        BY <3>1
    <2>2. CASE LoadState \/ RemoveBackup
      <3>1. fd["main"] = "none" /\ fd["daemon"] = "none" /\ fd' = fd
        BY <1>0, <2>2 DEF LoadState, RemoveBackup, SavesOwned, Phases, Alive
      <3>2. QED
        BY <3>1
    <2>3. CASE ClearState
      <3>1. fd["main"] = "none" /\ fd["daemon"] = "none"
        BY <1>0, <2>3 DEF ClearState, SavesOwned, Phases, Alive
      <3>2. fd'["main"] = "none" /\ fd'["daemon"] = "none"
        BY <1>0, <2>3, <3>1, ClosedMeans DEF ClearState
      <3>3. QED
        BY <3>2
    <2>4. CASE Rollback \/ Terminate \/ MarkLoad \/ MarkSave \/ MarkFails \/ Exit
      BY <2>4 DEF Rollback, Terminate, MarkLoad, MarkSave, MarkFails, Exit, Down
    <2>5. CASE StartupFails
      <3>1. fd["daemon"] = "none"
        BY <1>0, <2>5 DEF StartupFails, SavesOwned, Phases, Alive
      <3>2. fd'["daemon"] = "none" /\ dpc' = "running"
        BY <1>0, <2>5, <3>1, ClosedMeans DEF StartupFails
      <3>3. QED
        BY <3>2
    <2>6. CASE MarkStarted \/ (MainRemovesTarget /\ dpc = "once")
      <3>1. fd["daemon"] = "none" /\ loaded' = loaded /\ dpc = "once"
        BY <1>0, <2>6 DEF MarkStarted, MainRemovesTarget, SavesOwned, Phases, Alive
      <3>2. \/ OpenState("main") \/ WriteState("main") \/ RenameState("main")
            \/ UnlinkState("main")
        BY <2>6 DEF MarkStarted, MainRemovesTarget
      <3>3. fd'["daemon"] = "none"
        BY <1>0, <3>1, <3>2, SaveOthers
      <3>4. Content("main") = Started(loaded) /\ loaded \in States /\ Started(loaded) \in States
        BY <3>1, StateUpdated DEF Content, LoadedPresent
      <3>5. QED
        BY <1>0, <3>1, <3>2, <3>3, <3>4, SaveAlongside, UpdatedFields
    <2>7. CASE MainRemovesTarget /\ dpc # "once"
      BY <2>7 DEF MainRemovesTarget
    <2>8. QED
      BY <1>2, <2>1, <2>2, <2>3, <2>4, <2>5, <2>6, <2>7 DEF Daemon, HandleStartup
  <1>3. CASE Crash
    BY <1>3 DEF Crash, Down
  <1>4. CASE StartCheck
    <2>1. fd'["daemon"] = "none" /\ dpc' = "running"
      BY <1>0, <1>4, DaemonSteps DEF StartCheck, SavesOwned
    <2>2. QED
      BY <2>1
  <1>5. CASE Publish
    BY <1>5 DEF Publish, UpgradeState
  <1>6. CASE WindowPasses
    <2>1. /\ dpc' = dpc /\ fd' = fd /\ upc' = upc
          /\ stTmp' = Aged(stTmp) /\ loaded' = Aged(loaded)
      BY <1>6 DEF WindowPasses
    <2>2. CASE dpc = "once"
      <3>1. loaded \in States /\ loaded'.from = loaded.from
        BY <2>1, <2>2, AgedFields DEF LoadedPresent, StateFiles
      <3>2. /\ stTmp = Empty => stTmp' = Empty
            /\ stTmp \in States => /\ stTmp' \in States /\ stTmp'.from = stTmp.from
                                   /\ stTmp'.once = stTmp.once /\ stTmp'.clean = stTmp.clean
        BY <1>0, <2>1, AgedFields, NoStates DEF TypeOK
      <3>3. QED
        BY <2>1, <2>2, <3>1, <3>2
    <2>3. CASE dpc = "running"
      <3>1. fd["daemon"] = "none"
        BY <1>0, <1>6 DEF WindowPasses, WindowQuiet, Quiet, SavesOwned
      <3>2. QED
        BY <2>1, <2>3, <3>1
    <2>4. QED
      BY <2>1, <2>2, <2>3
  <1>7. CASE UNCHANGED vars
    BY <1>7 DEF vars, UpgradeState
  <1>8. QED
    BY <1>1, <1>2, <1>3, <1>4, <1>5, <1>6, <1>7, AloneSteps

\* When a build is not one that a start rolls back.
LEMMA NotArmed ==
    /\ \A s : ~Recent(s) => ~Armed(s)
    /\ \A s \in States : s.clean => ~Armed(s)
    /\ \A s : Armed(s) => s \in States /\ s.once /\ ~s.clean /\ s.recent
  BY DEF Recent, Armed

\* What the verdict of a start says of the state.
LEMMA VerdictMeans ==
    ASSUME NEW state, NEW b
    PROVE  /\ Verdict(state, b) \in {"running", "clear", "once", "rollback", "finish"}
           /\ Verdict(state, b) = "running" <=> state \notin States
           /\ Verdict(state, b) = "once" => ~state.once /\ About(state, b)
           /\ Verdict(state, b) = "rollback" => Armed(state) /\ About(state, b)
  BY DEF Verdict, Armed

\* The mark of a state beside no upgrade.
LEMMA MarkAloneStep ==
    ASSUME DaemonAlone, DaemonInv, MarkAlone, dpc = "marksave", upc' = upc, loaded' = loaded,
           OpenState("main") \/ WriteState("main") \/ RenameState("main") \/ UnlinkState("main")
    PROVE  /\ MarkAlone'
           /\ RenameState("main") => st' \in States /\ st'.clean
  <1>1. "main" \in Writers /\ TypeOK
    BY AloneWriters DEF DaemonInv
  <1>2. Content("main") = Marked(loaded) /\ loaded \in States
    BY DEF Content, DaemonInv, LoadedPresent
  <1>3. Marked(loaded) \in States /\ Marked(loaded).clean
    BY <1>2, StateUpdated, UpdatedFields
  <1>4. QED
    BY <1>1, <1>2, <1>3, SaveAlongside DEF MarkAlone

\* The clean flag is set, or nothing is there to be flagged, when main exits.
LEMMA CleanStopStep ==
    ASSUME DaemonAlone, DaemonInv, [Next]_vars
    PROVE  CleanStop'
  <1> USE DEF DaemonInv, CleanStop, files, saves, disk, main, history
  <1>0. /\ TypeOK /\ "daemon" \in Upgraders /\ "daemon" \in Processes /\ NoFile \notin Builds
        /\ ~CutsShort /\ ~CommandBusy /\ "main" \in Writers
    BY AloneWriters, UpgradeAssumption DEF Contents
  <1>1. CASE CheckAndUpgrade("daemon")
    <2>1. Alive("daemon") /\ UNCHANGED <<main, build>> /\ Quiet'
      BY <1>0, <1>1, UpgradeAlive, QuietUpgrade
    <2>2. ~ArmedFor(bin)'
      BY <2>1, NotArmed DEF Quiet, InWindow, ArmedFor
    <2>3. crossed' = crossed
      BY <1>1 DEF CheckAndUpgrade, FetchLatest, Download, Verify, CopyBinary, Backup, SaveState,
                  Replace, RemoveTarget, Abandon
    <2>4. QED
      BY <2>1, <2>2, <2>3 DEF Alive
  <1>2. CASE Daemon
    <2>1. CASE Boot \/ Restart
      <3>1. dpc' \in {"load", "down"} /\ checked' = FALSE /\ crossed' = crossed
            /\ UNCHANGED <<st, bin>>
        BY <1>0, <2>1, RunBinaryTyped DEF Boot, Restart
      <3>2. lastExit' = "clean" => dpc = "down" /\ lastExit = "clean"
        BY <2>1 DEF Boot, Restart
      <3>3. QED
        BY <3>1, <3>2 DEF ArmedFor
    <2>2. CASE LoadState
      <3>1. build["daemon"] = bin /\ bin \in Builds
        BY <1>0, <2>2 DEF LoadState, Phases, TypeOK
      <3>2. dpc' \notin {"marksave", "exit", "down", "load"}
        BY <2>2, VerdictMeans DEF LoadState
      <3>3. dpc' = "rollback" => ArmedFor(bin)
        BY <2>2, <3>1, VerdictMeans DEF LoadState, ArmedFor
      <3>4. QED
        BY <2>2, <3>2, <3>3 DEF LoadState
    <2>3. CASE MarkStarted \/ ClearState \/ RemoveBackup \/ Rollback
      <3>1. ~crossed'
        BY <1>0, <2>3, Zenon DEF MarkStarted, ClearState, RemoveBackup, Rollback
      <3>2. dpc' \notin {"marksave", "exit", "down", "load", "rollback"}
        BY <2>3 DEF MarkStarted, ClearState, RemoveBackup, Rollback
      <3>3. QED
        BY <3>1, <3>2
    <2>4. CASE StartupFails \/ MarkFails
      <3>1. ~crossed'
        BY <1>0, <2>4, Zenon DEF StartupFails, MarkFails
      <3>2. dpc' \in {"running", "exit"} /\ checked' = FALSE
        BY <2>4 DEF StartupFails, MarkFails
      <3>3. QED
        BY <3>1, <3>2
    <2>5. CASE MainRemovesTarget /\ dpc # "marksave"
      <3>1. ~crossed'
        BY <1>0, <2>5, Zenon DEF MainRemovesTarget
      <3>2. dpc' \in {"rollback", "once"} /\ dpc' = dpc /\ lastExit' = lastExit
        BY <2>5 DEF MainRemovesTarget
      <3>3. QED
        BY <3>1, <3>2
    <2>6. CASE Terminate
      BY <2>6 DEF Terminate
    <2>7. CASE MarkLoad
      <3>1. dpc' = "marksave" => Quiet' \/ MarkAlone'
        <4>1. CASE upc["daemon"] = "idle"
          BY <1>0, <2>7, <4>1 DEF MarkLoad, MarkAlone, SavesOwned
        <4>2. CASE upc["daemon"] # "idle"
          BY <1>0, <2>7, <4>2 DEF MarkLoad, WindowQuiet, Quiet, InWindow, Recent
        <4>3. QED
          BY <4>1, <4>2
      <3>2. dpc' = "exit" /\ checked' => ~ArmedFor(bin)
        <4>1. CASE bin \in {build["daemon"], NoFile}
          BY <1>0, <2>7, <4>1, NotArmed, NoStates DEF MarkLoad, ArmedFor
        <4>2. CASE bin \notin {build["daemon"], NoFile}
          BY <1>0, <2>7, <4>2, NotArmed DEF MarkLoad, WindowQuiet, Quiet, InWindow, ArmedFor, Alive
        <4>3. QED
          BY <4>1, <4>2
      <3>3. QED
        BY <2>7, <3>1, <3>2 DEF MarkLoad, ArmedFor
    <2>8. CASE MarkSave \/ (MainRemovesTarget /\ dpc = "marksave")
      <3>1. /\ \/ OpenState("main") \/ WriteState("main") \/ RenameState("main")
               \/ UnlinkState("main")
            /\ dpc = "marksave" /\ dpc' \in {"marksave", "exit"} /\ UNCHANGED <<upc, loaded, bin>>
            /\ dpc' = "exit" => RenameState("main")
            /\ crossed' = crossed
        BY <2>8 DEF MarkSave, MainRemovesTarget
      <3>2. CASE MarkAlone
        <4>1. MarkAlone' /\ (RenameState("main") => st' \in States /\ st'.clean)
          BY <3>1, <3>2, MarkAloneStep
        <4>2. QED
          BY <3>1, <4>1, NotArmed DEF ArmedFor
      <3>3. CASE Quiet
        <4>1. ~Recent(Content("main"))
          BY <3>1, <3>3, UpdatedFields DEF Quiet, Content, LoadedPresent, Recent
        <4>2. ~InWindow'
          BY <1>0, <3>1, <3>3, <4>1, QuietSave
        <4>3. ~ArmedFor(bin)'
          BY <4>2, NotArmed DEF InWindow, ArmedFor
        <4>4. QED
          BY <3>1, <3>3, <4>2, <4>3 DEF Quiet
      <3>4. QED
        BY <3>1, <3>2, <3>3
    <2>9. CASE Exit
      BY <1>0, <2>9 DEF Exit, Down, ArmedFor
    <2>10. QED
      BY <1>2, <2>1, <2>2, <2>3, <2>4, <2>5, <2>6, <2>7, <2>8, <2>9
         DEF Daemon, HandleStartup
  <1>3. CASE Crash
    BY <1>0, <1>3 DEF Crash, Down
  <1>4. CASE StartCheck
    BY <1>4 DEF StartCheck
  <1>5. CASE Publish
    BY <1>5 DEF Publish, ArmedFor, Quiet, InWindow, MarkAlone
  <1>6. CASE WindowPasses
    <2>1. ~InWindow'
      BY <1>0, <1>6, AgedFields DEF WindowPasses, TypeOK, InWindow
    <2>2. dpc' = "marksave" => ~loaded'.recent
      BY <1>0, <1>6, AgedFields DEF WindowPasses, LoadedPresent, StateFiles
    <2>3. ~ArmedFor(bin)'
      BY <2>1, NotArmed DEF InWindow, ArmedFor
    <2>4. QED
      BY <1>6, <2>1, <2>2, <2>3 DEF WindowPasses, Quiet
  <1>7. CASE UNCHANGED vars
    BY <1>7 DEF vars, ArmedFor, Quiet, InWindow, MarkAlone
  <1>8. QED
    BY <1>1, <1>2, <1>3, <1>4, <1>5, <1>6, <1>7, AloneSteps

\* The first installation is a published build and nothing is under way.
LEMMA InitDaemonInv == Init => DaemonInv
  <1> SUFFICES ASSUME Init PROVE DaemonInv
    OBVIOUS
  <1>1. TypeOK /\ LoadedPresent /\ SavesOwned
    BY InitTyped
  <1>2. 1 \in Builds /\ upc["daemon"] = "idle" /\ NoFile # Corrupt
    BY UpgradeAssumption DEF Init, Builds, Processes, Contents
  <1>3. ~Recent(st) /\ ~Armed(st)
    BY NoStates DEF Init
  <1>4. QED
    BY <1>1, <1>2, <1>3
       DEF Init, DaemonInv, InstalledVerified, Verified, Phases, WindowQuiet, SaveAlone,
           CleanStop, Alive, ArmedFor

\* The inductive invariant of the daemon's own upgrades: each of its parts is
\* needed for the one after it.  It holds however SIGTERM, crashes, failed
\* requests, renames and chmods fall between the steps of CheckAndUpgrade,
\* HandleStartup and MarkCleanShutdown (manager.go:94-185, 261-280).
THEOREM DaemonSafety == DaemonAlone => (Spec => []DaemonInv)
  <1> SUFFICES ASSUME DaemonAlone PROVE Spec => []DaemonInv
    OBVIOUS
  <1>1. DaemonInv /\ [Next]_vars => DaemonInv'
    <2> SUFFICES ASSUME DaemonInv, [Next]_vars PROVE DaemonInv'
      OBVIOUS
    <2>1. TypeOK' /\ LoadedPresent' /\ SavesOwned'
      BY NextTyped, NextLoaded DEF DaemonInv
    <2>2. InstalledVerified' /\ Verified' /\ Phases'
      BY VerifiedStep, PhasesStep
    <2>3. WindowQuiet' /\ SaveAlone' /\ CleanStop'
      BY WindowQuietStep, SaveAloneStep, CleanStopStep
    <2>4. QED
      BY <2>1, <2>2, <2>3 DEF DaemonInv
  <1>2. QED
    BY InitDaemonInv, <1>1, PTL DEF Spec

\* The installed binary is always a published build whose checksum matched,
\* wherever the daemon, its upgrade goroutine or the machine stops
\* (manager.go:152-181), unless a replaceFile has removed it (375-378).
THEOREM InstalledVerifiedAlways == DaemonAlone => (Spec => []InstalledVerified)
  <1>1. DaemonInv => InstalledVerified
    BY DEF DaemonInv
  <1>2. QED
    BY DaemonSafety, <1>1, PTL

\* A daemon that stopped cleanly is not rolled back at its next start, even if
\* the SIGTERM came in the middle of an upgrade (manager.go:115-119, 261-280).
THEOREM NoRollbackAlways == DaemonAlone => (Spec => []NoRollbackAfterCleanStop)
  <1>1. DaemonInv => NoRollbackAfterCleanStop
    BY DEF DaemonInv, CleanStop, NoRollbackAfterCleanStop
  <1>2. QED
    BY DaemonSafety, <1>1, PTL

-----------------------------------------------------------------------------
(* Where no SIGTERM reaches the daemon in the middle of an upgrade.         *)

\* The first installation replaced nothing.
LEMMA InitProbation == Init => Probation
  BY NotMain DEF Init, Probation, InstalledOnProbation

\* The backup, the state and the new build appear in that order, and the state
\* stays until a daemon has started the build.
LEMMA ProbationStep ==
    ASSUME DaemonAlone, ~StopMidUpgrade, DaemonInv, Probation, [Next]_vars
    PROVE  Probation'
  <1> USE DEF DaemonInv, Probation, InstalledOnProbation, files, saves, disk, main, history
  <1>0. /\ TypeOK /\ "daemon" \in Upgraders /\ "daemon" \in Processes
        /\ "daemon" \in Writers /\ "main" \in Writers /\ NoFile \notin Builds
    BY AloneWriters, UpgradeAssumption DEF Contents
  <1>1. CASE CheckAndUpgrade("daemon")
    <2>0. /\ UNCHANGED <<main, build>> /\ dpc = "running" /\ upc["daemon"] # "idle"
      BY <1>0, <1>1, UpgradeAlive
    <2>1. CASE FetchLatest("daemon") \/ Download("daemon") \/ Verify("daemon")
               \/ CopyBinary("daemon")
      BY <1>0, <2>0, <2>1, DaemonSteps DEF FetchLatest, Download, Verify, CopyBinary
    <2>2. CASE Backup("daemon")
      <3>1. upc["daemon"] = "backup" /\ upc'["daemon"] = "save"
        BY <1>0, <2>2, DaemonSteps DEF Backup
      <3>2. bak' \in Builds
        BY <1>0, <2>2 DEF Backup, TypeOK, MaybeFile, Contents, Verified, DaemonAlone
      <3>3. QED
        BY <2>0, <2>2, <3>1, <3>2 DEF Backup
    <2>3. CASE SaveState("daemon")
      <3>1. /\ upc["daemon"] = "save" /\ upc'["daemon"] \in {"save", "replace"}
            /\ upc'["daemon"] = "replace" => RenameState("daemon")
            /\ UNCHANGED <<files, history, rel>>
        BY <1>0, <2>3 DEF SaveState, TypeOK
      <3>2. UpgradeState("daemon")' = UpgradeState("daemon")
        BY <2>0, <3>1 DEF UpgradeState
      <3>3. upc'["daemon"] = "replace" => st' = UpgradeState("daemon")
        BY <2>0, <3>1 DEF RenameState, SaveAlone
      <3>4. QED
        BY <2>0, <3>1, <3>2, <3>3
    <2>4. CASE Replace("daemon")
      <3>1. /\ upc["daemon"] = "replace" /\ upc'["daemon"] \in {"applied", "idle"}
            /\ new = rel["daemon"] /\ rel["daemon"] \in Builds /\ bin' = new
            /\ UNCHANGED <<st, bak>>
        BY <1>0, <2>4 DEF Replace, Verified, TypeOK
      <3>2. upc'["daemon"] = "applied" \/ bin' \in unannounced'
        BY <1>0, <2>4 DEF Replace, TypeOK
      <3>3. st \in States /\ st.to = VersionOf[rel["daemon"]] /\ ~st.once
        BY <1>0, <3>1, UpgradeStateTyped
      <3>4. QED
        BY <2>0, <3>1, <3>2, <3>3
    <2>5. CASE RemoveTarget("daemon")
      <3>1. UpgradeState("daemon")' = UpgradeState("daemon")
        BY <2>0, <2>5 DEF RemoveTarget, UpgradeState
      <3>2. QED
        BY <1>0, <2>0, <2>5, <3>1 DEF RemoveTarget
    <2>6. CASE Abandon("daemon")
      BY <1>0, <2>0, <2>6, DaemonSteps DEF Abandon
    <2>7. QED
      BY <1>1, <2>1, <2>2, <2>3, <2>4, <2>5, <2>6 DEF CheckAndUpgrade
  <1>2. CASE Daemon
    <2>1. CASE Boot \/ Restart
      <3>1. upc'["daemon"] = "idle" /\ dpc' \in {"load", "down"}
        BY <1>0, <2>1, RunBinaryTyped DEF Boot, Restart, TypeOK
      <3>2. QED
        BY <2>1, <3>1 DEF Boot, Restart
    <2>2. CASE LoadState
      BY <2>2 DEF LoadState, Phases
    <2>3. CASE MarkStarted \/ ClearState \/ RemoveBackup \/ Rollback \/ MainRemovesTarget
      BY <2>3 DEF MarkStarted, ClearState, RemoveBackup, Rollback, MainRemovesTarget
    <2>4. CASE StartupFails
      BY <2>4 DEF StartupFails, Phases
    <2>5. CASE Terminate
      BY <2>5 DEF Terminate
    <2>6. CASE MarkLoad \/ MarkSave \/ MarkFails
      BY <2>6 DEF MarkLoad, MarkSave, MarkFails
    <2>7. CASE Exit
      BY <1>0, <2>7 DEF Exit, Down, TypeOK
    <2>8. QED
      BY <1>2, <2>1, <2>2, <2>3, <2>4, <2>5, <2>6, <2>7 DEF Daemon, HandleStartup
  <1>3. CASE Crash
    BY <1>0, <1>3 DEF Crash, Down, TypeOK
  <1>4. CASE StartCheck
    BY <1>0, <1>4, DaemonSteps DEF StartCheck
  <1>5. CASE Publish
    BY <1>5 DEF Publish, UpgradeState
  <1>6. CASE WindowPasses
    <2>1. upc["daemon"] = "idle" /\ upc'["daemon"] = "idle"
      BY <1>6 DEF WindowPasses, WindowQuiet, Quiet
    <2>2. st \in States => st' \in States /\ st'.to = st.to /\ st'.once = st.once
      BY <1>0, <1>6, AgedFields DEF WindowPasses, TypeOK
    <2>3. QED
      BY <1>6, <2>1, <2>2 DEF WindowPasses
  <1>7. CASE UNCHANGED vars
    BY <1>7 DEF vars, UpgradeState
  <1>8. QED
    BY <1>1, <1>2, <1>3, <1>4, <1>5, <1>6, <1>7, AloneSteps

\* A newly installed build is on probation, with the build it replaced in the
\* backup, before any daemon can start it, wherever the daemon or its upgrade
\* crashes or fails (manager.go:163-176); only the build whose chmod failed
\* (179-181) is none of which this is said.  The one thing that can take the
\* probation away is a SIGTERM in the middle of an upgrade (run up_probation).
THEOREM InstalledOnProbationAlways ==
    DaemonAlone /\ ~StopMidUpgrade => (Spec => []InstalledOnProbation)
  <1> SUFFICES ASSUME DaemonAlone, ~StopMidUpgrade PROVE Spec => []InstalledOnProbation
    OBVIOUS
  <1>1. DaemonInv /\ Probation /\ [Next]_vars => Probation'
    BY ProbationStep
  <1>2. Probation => InstalledOnProbation
    BY DEF Probation
  <1>3. QED
    BY DaemonSafety, InitProbation, <1>1, <1>2, PTL DEF Spec

-----------------------------------------------------------------------------
(* What a rollback puts back.                                              *)

\* The upgrade saves a state that has its backup.
LEMMA BackupKeptSave ==
    ASSUME DaemonAlone, DaemonInv, BackupKept, upc["daemon"] = "save", UNCHANGED <<files, build>>,
           unannounced' = unannounced, dpc' = dpc, loaded' = loaded,
           upc'["daemon"] = "replace" => RenameState("daemon"),
           upc'["daemon"] \in {"save", "replace"}, dpc \notin {"once", "rollback"},
           \/ OpenState("daemon") \/ WriteState("daemon") \/ RenameState("daemon")
           \/ UnlinkState("daemon")
    PROVE  BackupKept'
  <1> USE DEF BackupKept, Kept, FromBackup, OddBackup, FromHere, files
  <1>0. /\ TypeOK /\ "daemon" \in Processes /\ "daemon" \in Writers /\ "main" \in Writers
        /\ \A s \in {Empty, Torn, NoFile} : s \notin States
        /\ Content("daemon") = UpgradeState("daemon")
    BY AloneWriters, NotMain, UpgraderContent, NoStates DEF DaemonInv
  <1>1. /\ UpgradeState("daemon").from = VersionOf[build["daemon"]]
        /\ ~UpgradeState("daemon").clean
    BY <1>0, UpgradeStateTyped
  <1>2. CASE OpenState("daemon")
    <2>1. st' = st /\ stTmp' = Empty /\ upc'["daemon"] = "save"
      BY <1>2 DEF OpenState, RenameState
    <2>2. QED
      BY <1>0, <2>1
  <1>3. CASE WriteState("daemon")
    <2>1. /\ \/ st' = st /\ stTmp' \in {Content("daemon"), Torn}
             \/ st' \in {Content("daemon"), Torn} /\ stTmp' = stTmp
             \/ st' = st /\ stTmp' = stTmp
          /\ fd["daemon"] # "none" /\ (fd'["main"] # "none" => fd["main"] # "none")
          /\ upc'["daemon"] = "save"
      BY <1>0, <1>3 DEF WriteState, RenameState, Over, TypeOK
    <2>2. QED
      BY <1>0, <1>1, <2>1
  <1>4. CASE RenameState("daemon")
    <2>1. st' = stTmp /\ stTmp' = NoFile /\ fd["daemon"] # "none"
      BY <1>4 DEF RenameState
    <2>2. QED
      BY <1>0, <2>1
  <1>5. CASE UnlinkState("daemon")
    <2>1. /\ st' = NoFile /\ stTmp' = stTmp /\ fd["daemon"] # "none"
          /\ upc'["daemon"] = "save"
      BY <1>5 DEF UnlinkState, RenameState
    <2>2. QED
      BY <1>0, <2>1
  <1>6. QED
    BY <1>2, <1>3, <1>4, <1>5

\* The steps of the upgrade goroutine keep the relation of backup and state.
LEMMA BackupKeptUpgrade ==
    ASSUME DaemonAlone, DaemonInv, BackupKept, CheckAndUpgrade("daemon")
    PROVE  BackupKept'
  <1> USE DEF BackupKept, Kept, FromBackup, OddBackup, FromHere, files, saves, disk, main, history
  <1>0. /\ TypeOK /\ "daemon" \in Upgraders /\ "daemon" \in Processes /\ "daemon" \in Writers
        /\ Alive("daemon") /\ dpc \notin {"once", "rollback"} /\ UNCHANGED <<main, build>>
        /\ "main" \in Writers /\ SavesOwned
    BY UpgradeAlive, AloneWriters DEF DaemonInv, Alive
  <1>1. CASE FetchLatest("daemon") \/ Download("daemon") \/ Verify("daemon")
             \/ CopyBinary("daemon")
    <2>1. /\ UNCHANGED <<bin, bak, st, stTmp, fd, unannounced>>
          /\ upc'["daemon"] \in {"idle", "download", "verify", "copy", "backup"}
          /\ upc'["daemon"] = "backup" => bakTmp' = bin
      BY <1>0, <1>1, DaemonSteps DEF FetchLatest, Download, Verify, CopyBinary
    <2>2. QED
      BY <1>0, <2>1
  <1>2. CASE Backup("daemon")
    <2>1. /\ upc["daemon"] = "backup" /\ upc'["daemon"] = "save"
          /\ bak' = bakTmp /\ bakTmp = bin /\ bin # NoFile
          /\ UNCHANGED <<bin, st, stTmp, fd, unannounced>>
      BY <1>0, <1>2, DaemonSteps DEF Backup, DaemonAlone
    <2>2. bin \in {build["daemon"]} \cup unannounced
      BY <1>0, <2>1 DEF DaemonInv, Phases
    <2>3. fd["daemon"] = "none"
      BY <1>0, <2>1 DEF SavesOwned
    <2>4. QED
      BY <1>0, <2>1, <2>2, <2>3
  <1>3. CASE SaveState("daemon") \/ (RemoveTarget("daemon") /\ upc["daemon"] = "save")
    <2>1. /\ upc["daemon"] = "save" /\ upc'["daemon"] \in {"save", "replace"}
          /\ upc'["daemon"] = "replace" => RenameState("daemon")
          /\ \/ OpenState("daemon") \/ WriteState("daemon") \/ RenameState("daemon")
             \/ UnlinkState("daemon")
          /\ UNCHANGED <<files, unannounced>>
      BY <1>0, <1>3 DEF SaveState, RemoveTarget, TypeOK
    <2>2. QED
      BY <1>0, <2>1, BackupKeptSave
  <1>4. CASE Replace("daemon")
    <2>1. /\ upc["daemon"] = "replace" /\ upc'["daemon"] \in {"applied", "idle"}
          /\ unannounced \subseteq unannounced'
          /\ UNCHANGED <<bak, bakTmp, st, stTmp, fd>>
      BY <1>0, <1>4 DEF Replace, TypeOK
    <2>2. fd["daemon"] = "none"
      BY <1>0, <2>1 DEF SavesOwned
    <2>3. QED
      BY <1>0, <2>1, <2>2
  <1>5. CASE RemoveTarget("daemon") /\ upc["daemon"] # "save"
    <2>1. \/ upc["daemon"] = "backup" /\ bak' = NoFile /\ bin' = bin
          \/ upc["daemon"] = "replace" /\ bin' = NoFile /\ bak' = bak
      BY <1>5 DEF RemoveTarget
    <2>2. UNCHANGED <<bakTmp, st, stTmp, fd, upc, unannounced>>
      BY <1>5 DEF RemoveTarget
    <2>3. QED
      BY <1>0, <2>1, <2>2
  <1>6. CASE Abandon("daemon")
    <2>1. fd'["daemon"] = "none" /\ fd'["main"] = fd["main"]
      BY <1>0, <1>6, ClosedMeans, NotMain DEF Abandon
    <2>2. upc'["daemon"] = "idle" /\ UNCHANGED <<files, st, stTmp, unannounced>>
      BY <1>0, <1>6, DaemonSteps DEF Abandon
    <2>3. QED
      BY <1>0, <2>1, <2>2
  <1>7. QED
    BY <1>1, <1>2, <1>3, <1>4, <1>5, <1>6 DEF CheckAndUpgrade

\* main's saves keep it: what is started keeps its backup, and what is marked
\* needs none.
LEMMA BackupKeptMain ==
    ASSUME DaemonAlone, DaemonInv, BackupKept, UNCHANGED <<files, build, upc>>,
           unannounced' = unannounced, loaded' = loaded, dpc \in {"once", "marksave"},
           dpc' \in {"running", "exit"} \/ dpc' = dpc,
           OpenState("main") \/ WriteState("main") \/ RenameState("main") \/ UnlinkState("main")
    PROVE  BackupKept'
  <1> USE DEF BackupKept, Kept, FromBackup, OddBackup, FromHere, files
  <1>0. /\ TypeOK /\ LoadedPresent /\ loaded \in States
        /\ "daemon" \in Processes /\ "daemon" \in Writers /\ "main" \in Writers
        /\ \A s \in {Empty, Torn, NoFile} : s \notin States
    BY AloneWriters, NoStates DEF DaemonInv, LoadedPresent
  <1>1. CASE OpenState("main")
    <2>1. st' = st /\ stTmp' = Empty
      BY <1>1 DEF OpenState
    <2>2. QED
      BY <1>0, <2>1
  <1>2. CASE WriteState("main")
    <2>1. /\ \/ st' = st /\ stTmp' \in {Content("main"), Torn}
             \/ st' \in {Content("main"), Torn} /\ stTmp' = stTmp
             \/ st' = st /\ stTmp' = stTmp
          /\ fd["main"] # "none" /\ (fd'["daemon"] # "none" => fd["daemon"] # "none")
      BY <1>0, <1>2 DEF WriteState, Over, TypeOK
    <2>2. CASE dpc = "once"
      <3>1. Content("main") = Started(loaded)
        BY <2>2 DEF Content
      <3>2. Content("main").from = loaded.from /\ ~Content("main").clean
        BY <1>0, <3>1, UpdatedFields
      <3>3. bin = build["daemon"] /\ upc["daemon"] = "idle" /\ fd["daemon"] = "none"
        BY <1>0, <2>2 DEF DaemonInv, Phases, SavesOwned, Alive
      <3>4. QED
        BY <1>0, <2>1, <2>2, <3>2, <3>3
    <2>3. CASE dpc = "marksave"
      <3>1. Content("main") = Marked(loaded) /\ loaded.once
        BY <2>3 DEF Content
      <3>2. Content("main").clean /\ Content("main").once
        BY <1>0, <3>1, UpdatedFields
      <3>3. QED
        BY <1>0, <2>1, <2>3, <3>2
    <2>4. QED
      BY <2>2, <2>3
  <1>3. CASE RenameState("main")
    <2>1. /\ st' = stTmp /\ stTmp' = NoFile /\ fd["main"] # "none"
          /\ fd'["daemon"] # "none" => fd["daemon"] # "none"
      BY <1>0, <1>3 DEF RenameState, Renamed, TypeOK
    <2>2. QED
      BY <1>0, <2>1
  <1>4. CASE UnlinkState("main")
    <2>1. /\ st' = NoFile /\ stTmp' = stTmp /\ fd["main"] # "none"
          /\ fd'["daemon"] # "none" => fd["daemon"] # "none"
      BY <1>0, <1>4 DEF UnlinkState, Removed, TypeOK
    <2>2. QED
      BY <1>0, <2>1
  <1>5. QED
    BY <1>1, <1>2, <1>3, <1>4

\* A backup is the predecessor of the state's build or the installed build.
LEMMA BackupKeptStep ==
    ASSUME DaemonAlone, DaemonInv, BackupKept, [Next]_vars
    PROVE  BackupKept'
  <1> USE DEF BackupKept, Kept, FromBackup, OddBackup, FromHere, files, saves, disk, main, history
  <1>0. /\ TypeOK /\ "daemon" \in Upgraders /\ LoadedPresent /\ SavesOwned
        /\ "daemon" \in Processes /\ "daemon" \in Writers /\ "main" \in Writers
        /\ \A s \in {Empty, Torn, NoFile} : s \notin States
        /\ NoFile \notin Builds
    BY AloneWriters, NoStates, UpgradeAssumption DEF DaemonInv, Contents
  <1>1. CASE CheckAndUpgrade("daemon")
    BY <1>1, BackupKeptUpgrade
  <1>2. CASE Daemon
    <2>1. CASE Boot \/ Restart
      <3>1. /\ upc'["daemon"] = "idle" /\ dpc' \in {"load", "down"}
            /\ fd' = Closed({"daemon", "main"})
        BY <1>0, <2>1, RunBinaryTyped DEF Boot, Restart, TypeOK
      <3>2. fd'["daemon"] = "none" /\ fd'["main"] = "none"
        BY <1>0, <3>1, ClosedMeans
      <3>3. UNCHANGED <<bin, bak, st, stTmp, unannounced>>
        BY <2>1 DEF Boot, Restart
      <3>4. QED
        BY <3>1, <3>2, <3>3
    <2>2. CASE LoadState
      <3>1. dpc' \in {"once", "rollback"} => loaded' = st /\ st \in States /\ (st.clean => ~st.once)
        BY <2>2, VerdictMeans DEF LoadState, Armed
      <3>2. /\ dpc' # "marksave" /\ bin = build["daemon"] /\ bin \in Builds
            /\ upc["daemon"] = "idle"
        BY <1>0, <2>2, VerdictMeans DEF LoadState, DaemonInv, Phases, TypeOK, Alive
      <3>3. UNCHANGED <<disk, build, upc, unannounced>>
        BY <2>2 DEF LoadState
      <3>4. QED
        BY <1>0, <3>1, <3>2, <3>3
    <2>3. CASE MarkStarted \/ MarkSave \/ (MainRemovesTarget /\ dpc # "rollback")
      <3>1. /\ UNCHANGED <<files, build, upc, unannounced, loaded>>
            /\ dpc \in {"once", "marksave"}
            /\ dpc' \in {"running", "exit"} \/ dpc' = dpc
            /\ \/ OpenState("main") \/ WriteState("main") \/ RenameState("main")
               \/ UnlinkState("main")
        BY <2>3 DEF MarkStarted, MarkSave, MainRemovesTarget
      <3>2. QED
        BY <3>1, BackupKeptMain
    <2>4. CASE ClearState
      <3>1. /\ st' \in {st, NoFile} /\ dpc' \in {"running", "unback", "restart"}
            /\ UNCHANGED <<bak, bin, upc, stTmp, build, unannounced>>
        BY <2>4 DEF ClearState
      <3>2. fd["daemon"] = "none" /\ fd["main"] = "none" /\ upc["daemon"] = "idle"
        BY <1>0, <2>4 DEF ClearState, SavesOwned, DaemonInv, Phases, Alive
      <3>3. fd'["daemon"] = "none" /\ fd'["main"] = "none"
        BY <1>0, <2>4, <3>2, ClosedMeans DEF ClearState
      <3>4. QED
        BY <1>0, <3>1, <3>2, <3>3
    <2>5. CASE RemoveBackup \/ Rollback
      <3>1. /\ upc["daemon"] = "idle" /\ fd["daemon"] = "none" /\ fd["main"] = "none"
            /\ bak' = NoFile /\ dpc' \in {"running", "undo"}
            /\ UNCHANGED <<st, stTmp, fd, upc>>
        BY <1>0, <2>5 DEF RemoveBackup, Rollback, DaemonInv, Phases, Alive, SavesOwned
      <3>2. QED
        BY <1>0, <3>1
    <2>6. CASE MainRemovesTarget /\ dpc = "rollback"
      <3>1. /\ upc["daemon"] = "idle" /\ bin' = NoFile
            /\ UNCHANGED <<bak, saves, upc, dpc, loaded, build, unannounced>>
        BY <1>0, <2>6 DEF MainRemovesTarget, DaemonInv, Phases, Alive
      <3>2. QED
        BY <1>0, <3>1
    <2>7. CASE StartupFails \/ MarkFails
      <3>1. fd'["daemon"] = fd["daemon"] /\ fd'["main"] = "none"
        BY <1>0, <2>7, ClosedMeans, NotMain DEF StartupFails, MarkFails
      <3>2. /\ dpc' \in {"running", "exit"}
            /\ UNCHANGED <<files, st, stTmp, upc, build, unannounced>>
        BY <2>7 DEF StartupFails, MarkFails
      <3>3. QED
        BY <1>0, <3>1, <3>2
    <2>8. CASE Terminate \/ MarkLoad
      <3>1. /\ UNCHANGED <<disk, upc, build, unannounced>>
            /\ dpc' \in {"mark", "marksave", "exit"}
            /\ dpc' = "marksave" => loaded'.once
        BY <2>8 DEF Terminate, MarkLoad
      <3>2. QED
        BY <3>1
    <2>9. CASE Exit
      <3>1. fd'["daemon"] = "none" /\ fd'["main"] = "none"
        BY <1>0, <2>9, ClosedMeans DEF Exit, Down
      <3>2. /\ upc'["daemon"] = "idle" /\ dpc' = "down"
            /\ UNCHANGED <<files, st, stTmp, build, unannounced>>
        BY <1>0, <2>9 DEF Exit, Down, TypeOK
      <3>3. QED
        BY <3>1, <3>2
    <2>10. QED
      BY <1>2, <2>1, <2>2, <2>3, <2>4, <2>5, <2>6, <2>7, <2>8, <2>9
         DEF Daemon, HandleStartup
  <1>3. CASE Crash
    <2>1. fd'["daemon"] = "none" /\ fd'["main"] = "none"
      BY <1>0, <1>3, ClosedMeans DEF Crash, Down
    <2>2. /\ upc'["daemon"] = "idle" /\ dpc' = "down"
          /\ UNCHANGED <<files, st, stTmp, build, unannounced>>
      BY <1>0, <1>3 DEF Crash, Down, TypeOK
    <2>3. QED
      BY <2>1, <2>2
  <1>4. CASE StartCheck
    BY <1>0, <1>4, DaemonSteps DEF StartCheck
  <1>5. CASE Publish
    BY <1>5 DEF Publish
  <1>6. CASE WindowPasses
    <2>1. \A s \in {st, stTmp} :
              /\ s \in States <=> Aged(s) \in States
              /\ s \in States => Aged(s).from = s.from /\ Aged(s).once = s.once
                                 /\ Aged(s).clean = s.clean
      BY <1>0, AgedFields DEF TypeOK
    <2>2. dpc \in {"once", "rollback", "marksave"} =>
             loaded'.from = loaded.from /\ loaded'.once = loaded.once
      BY <1>0, <1>6, AgedFields DEF WindowPasses, LoadedPresent, StateFiles
    <2>3. UNCHANGED <<files, build, upc, dpc, fd, unannounced>> /\ st' = Aged(st) /\ stTmp' = Aged(stTmp)
      BY <1>6 DEF WindowPasses
    <2>4. QED
      BY <2>1, <2>2, <2>3
  <1>7. CASE UNCHANGED vars
    BY <1>7 DEF vars
  <1>8. QED
    BY <1>1, <1>2, <1>3, <1>4, <1>5, <1>6, <1>7, AloneSteps

\* What has failed stays failed.
LEMMA FailuresGrow == TypeOK /\ [Next]_vars /\ failures' = 0 => failures = 0
  <1> SUFFICES ASSUME TypeOK, [Next]_vars, failures' = 0 PROVE failures = 0
    OBVIOUS
  <1>1. failures \in Nat
    BY UpgradeAssumption DEF TypeOK
  <1>2. failures' = failures \/ failures' = failures + 1
    <2>1. ASSUME NEW u \in Upgraders, CheckAndUpgrade(u)
          PROVE  failures' = failures \/ failures' = failures + 1
      BY <2>1 DEF CheckAndUpgrade, FetchLatest, Download, Verify, CopyBinary, Backup, SaveState,
         Replace, RemoveTarget, Abandon, Fail, bounds
    <2>2. ASSUME Daemon PROVE failures' = failures \/ failures' = failures + 1
      BY <2>2 DEF Daemon, HandleStartup, Boot, LoadState, MarkStarted, ClearState, RemoveBackup,
         Rollback, StartupFails, Restart, Terminate, MarkLoad, MarkSave, MarkFails, Exit, Down,
         MainRemovesTarget, Fail, bounds
    <2>3. ASSUME Crash \/ StartCheck \/ StartCLI \/ Publish \/ WindowPasses \/ UNCHANGED vars
          PROVE  failures' = failures
      BY <2>3 DEF Crash, Down, StartCheck, StartCLI, Publish, WindowPasses, vars, bounds
    <2>4. QED
      BY <2>1, <2>2, <2>3 DEF Next
  <1>3. QED
    BY <1>1, <1>2

\* Where nothing has failed, nothing is removed or left unannounced.
LEMMA NothingFailed ==
    ASSUME DaemonInv, failures = 0
    PROVE  unannounced = {} /\ ~removed /\ bin \in Builds /\ bin # NoFile
  BY UpgradeAssumption DEF DaemonInv, Phases, InstalledVerified, Contents

\* No step that does not fail counts a failure.
LEMMA NoFailure == failures = 0 /\ failures' = 0 => ~Fail
  BY DEF Fail

\* A state that waits for a start or a verdict, once the window has passed.
LEMMA AgedPending ==
    ASSUME NEW s \in StateFiles
    PROVE  /\ Pending(Aged(s)) => Pending(s) /\ Aged(s).from = s.from
           /\ Aged(s) \in States <=> s \in States
           /\ s \in States => Aged(s).once = s.once /\ Aged(s).clean = s.clean
  BY AgedFields DEF Pending

\* The steps of the upgrade goroutine, while nothing fails.
LEMMA NothingOutlivesUpgrade ==
    ASSUME DaemonAlone, DaemonInv, BackupKept, NothingOutlives, failures = 0, failures' = 0,
           CheckAndUpgrade("daemon")
    PROVE  NothingOutlives'
  <1> USE DEF NothingOutlives, FromBackup, files, saves, disk, main
  <1>0. /\ TypeOK /\ "daemon" \in Upgraders /\ "daemon" \in Processes /\ "daemon" \in Writers
        /\ dpc \notin {"once", "rollback", "unback"} /\ UNCHANGED <<main, build>>
        /\ "main" \in Writers /\ "main" # "daemon" /\ SavesOwned /\ ~Fail
        /\ unannounced = {} /\ bin # NoFile
        /\ \A s \in {Empty, Torn, NoFile} : s \notin States
    BY UpgradeAlive, AloneWriters, NothingFailed, NoFailure, NoStates DEF DaemonInv, Alive
  <1>1. CASE FetchLatest("daemon") \/ Download("daemon") \/ Verify("daemon")
             \/ CopyBinary("daemon")
    <2>1. /\ UNCHANGED <<bin, bak, st, stTmp, fd>>
          /\ upc["daemon"] \in {"fetch", "download", "verify", "copy"}
          /\ upc'["daemon"] \in {"idle", "download", "verify", "copy", "backup"}
      BY <1>0, <1>1, DaemonSteps DEF FetchLatest, Download, Verify, CopyBinary
    <2>2. QED
      BY <1>0, <2>1
  <1>2. CASE Backup("daemon")
    <2>1. /\ upc["daemon"] = "backup" /\ upc'["daemon"] = "save"
          /\ UNCHANGED <<bin, st, stTmp, fd>>
      BY <1>0, <1>2, DaemonSteps DEF Backup
    <2>2. fd["daemon"] = "none"
      BY <1>0, <2>1 DEF SavesOwned
    <2>3. QED
      BY <1>0, <2>1, <2>2 DEF Pending
  <1>3. CASE SaveState("daemon")
    <2>1. /\ upc["daemon"] = "save" /\ upc'["daemon"] \in {"save", "replace"}
          /\ upc'["daemon"] = "save" => OpenState("daemon") \/ WriteState("daemon")
          /\ UNCHANGED <<files>>
      BY <1>0, <1>3 DEF SaveState, TypeOK
    <2>2. /\ Content("daemon").from = VersionOf[build["daemon"]]
          /\ bak = build["daemon"]
      BY <1>0, <2>1, UpgradeStateTyped, UpgraderContent, NotMain DEF BackupKept
    <2>3. CASE OpenState("daemon")
      BY <1>0, <2>1, <2>3 DEF OpenState, Pending, TypeOK
    <2>4. CASE WriteState("daemon")
      <3>1. /\ \/ st' = st /\ stTmp' \in {Content("daemon"), Torn}
               \/ st' \in {Content("daemon"), Torn} /\ stTmp' = stTmp /\ dpc # "running"
               \/ st' = st /\ stTmp' = stTmp
            /\ fd["daemon"] # "none"
        BY <1>0, <2>4 DEF WriteState, Over, TypeOK, DaemonInv, SaveAlone
      <3>2. QED
        BY <1>0, <2>1, <2>2, <3>1 DEF Pending
    <2>5. CASE RenameState("daemon") /\ upc'["daemon"] = "replace"
      BY <1>0, <2>1, <2>5 DEF RenameState, Pending
    <2>6. QED
      BY <1>3, <2>1, <2>3, <2>4, <2>5 DEF SaveState
  <1>4. CASE Replace("daemon")
    <2>1. /\ upc["daemon"] = "replace" /\ upc'["daemon"] = "applied"
          /\ UNCHANGED <<bak, st, stTmp, fd>>
      BY <1>0, <1>4 DEF Replace, TypeOK
    <2>2. QED
      BY <1>0, <2>1
  <1>5. CASE RemoveTarget("daemon")
    BY <1>0, <1>5 DEF RemoveTarget
  <1>6. CASE Abandon("daemon")
    <2>1. Missing("daemon")
      BY <1>0, <1>6 DEF Abandon
    <2>2. upc["daemon"] = "save"
      <3>1. upc["daemon"] = "replace" => new = rel["daemon"] /\ rel["daemon"] \in Builds
        BY <1>0 DEF DaemonInv, Verified, TypeOK
      <3>2. upc["daemon"] = "backup" => bakTmp = bin
        BY DEF BackupKept
      <3>3. NoFile \notin Builds
        BY UpgradeAssumption DEF Contents
      <3>4. QED
        BY <1>0, <2>1, <3>1, <3>2, <3>3 DEF Missing
    <2>3. /\ upc'["daemon"] = "idle" /\ UNCHANGED <<files, st, stTmp>>
          /\ fd'["daemon"] = "none" /\ fd'["main"] = fd["main"]
      BY <1>0, <1>6, DaemonSteps, ClosedMeans DEF Abandon
    <2>4. QED
      BY <1>0, <2>2, <2>3
  <1>7. QED
    BY <1>1, <1>2, <1>3, <1>4, <1>5, <1>6 DEF CheckAndUpgrade

\* A start's record of the state keeps its backup.
LEMMA NothingOutlivesStarted ==
    ASSUME DaemonAlone, DaemonInv, BackupKept, NothingOutlives, MarkStarted
    PROVE  NothingOutlives'
  <1> USE DEF NothingOutlives, FromBackup, files, saves, disk, main
  <1>0. /\ TypeOK /\ loaded \in States /\ dpc = "once" /\ UNCHANGED <<bak, upc, loaded>>
        /\ "daemon" \in Processes /\ "daemon" \in Writers /\ "main" \in Writers
        /\ upc["daemon"] = "idle" /\ fd["daemon"] = "none"
        /\ dpc' \in {"once", "running"}
        /\ \A s \in {Empty, Torn, NoFile} : s \notin States
    BY AloneWriters, NoStates
       DEF MarkStarted, DaemonInv, LoadedPresent, Phases, SavesOwned, Alive
  <1>1. fd'["daemon"] = "none"
    BY <1>0, SaveOthers DEF MarkStarted
  <1>2. CASE OpenState("main") /\ dpc' = dpc
    BY <1>0, <1>1, <1>2 DEF OpenState, Pending
  <1>3. CASE WriteState("main") /\ dpc' = dpc
    <2>1. Content("main") = Started(loaded)
      BY <1>0 DEF Content
    <2>2. Content("main").from = loaded.from
      BY <1>0, <2>1, UpdatedFields
    <2>3. fd["main"] \in {"tmp", "done"}
      BY <1>0, <1>3 DEF WriteState, DaemonInv, SaveAlone
    <2>4. st' = st /\ stTmp' \in {Content("main"), Torn}
      BY <1>3, <2>3 DEF WriteState, Over
    <2>5. QED
      BY <1>0, <1>1, <1>3, <2>2, <2>4 DEF Pending
  <1>4. CASE RenameState("main") /\ dpc' = "running"
    <2>1. st' = stTmp /\ stTmp' = NoFile /\ fd["main"] = "done" /\ fd'["main"] = "none"
      BY <1>0, <1>4, SaveOthers DEF RenameState
    <2>2. stTmp.once
      BY <1>0, <2>1 DEF DaemonInv, SaveAlone
    <2>3. QED
      BY <1>0, <1>1, <1>4, <2>1, <2>2
  <1>5. QED
    BY <1>2, <1>3, <1>4 DEF MarkStarted

\* A mark of a clean stop waits for nothing.
LEMMA NothingOutlivesMarked ==
    ASSUME DaemonAlone, DaemonInv, BackupKept, NothingOutlives, MarkSave
    PROVE  NothingOutlives'
  <1> USE DEF NothingOutlives, FromBackup, files, saves, disk, main
  <1>0. /\ TypeOK /\ loaded \in States /\ dpc = "marksave" /\ UNCHANGED <<bak, upc, loaded>>
        /\ "daemon" \in Processes /\ "daemon" \in Writers /\ "main" \in Writers
        /\ dpc' \in {"marksave", "exit"} /\ loaded.once
        /\ \A s \in {Empty, Torn, NoFile} : s \notin States
    BY AloneWriters, NoStates DEF MarkSave, DaemonInv, LoadedPresent, BackupKept
  <1>1. fd["daemon"] = "none" => fd'["daemon"] = "none"
    BY <1>0, SaveOthers, NotMain DEF MarkSave
  <1>2. Content("main") = Marked(loaded)
    BY <1>0 DEF Content
  <1>3. Content("main").once /\ Content("main").clean
    BY <1>0, <1>2, UpdatedFields
  <1>4. CASE OpenState("main")
    BY <1>0, <1>1, <1>4 DEF OpenState, Pending
  <1>5. CASE WriteState("main")
    <2>1. /\ \/ st' = st /\ stTmp' \in {Content("main"), Torn}
             \/ st' \in {Content("main"), Torn} /\ stTmp' = stTmp
             \/ st' = st /\ stTmp' = stTmp
          /\ fd["main"] # "none"
      BY <1>0, <1>5 DEF WriteState, Over
    <2>2. QED
      BY <1>0, <1>1, <1>3, <2>1 DEF Pending
  <1>6. CASE RenameState("main")
    <2>1. st' = stTmp /\ stTmp' = NoFile /\ fd["main"] # "none" /\ fd'["main"] = "none"
      BY <1>0, <1>6, SaveOthers DEF RenameState
    <2>2. QED
      BY <1>0, <1>1, <2>1 DEF Pending
  <1>7. QED
    BY <1>4, <1>5, <1>6 DEF MarkSave

\* While nothing has failed, no state outlives its backup.
LEMMA NothingOutlivesStep ==
    ASSUME DaemonAlone, DaemonInv, BackupKept, NothingOutlives, failures = 0, failures' = 0,
           [Next]_vars
    PROVE  NothingOutlives'
  <1> USE DEF NothingOutlives, FromBackup, files, saves, disk, main
  <1>0. /\ TypeOK /\ "daemon" \in Upgraders /\ LoadedPresent /\ SavesOwned /\ ~Fail
        /\ "daemon" \in Processes /\ "daemon" \in Writers /\ "main" \in Writers
        /\ \A s \in {Empty, Torn, NoFile} : s \notin States
    BY AloneWriters, NoStates, NoFailure DEF DaemonInv
  <1>1. CASE CheckAndUpgrade("daemon")
    BY <1>1, NothingOutlivesUpgrade
  <1>2. CASE Daemon
    <2>1. CASE Boot \/ Restart
      <3>1. /\ upc'["daemon"] = "idle" /\ dpc' \in {"load", "down"}
            /\ fd' = Closed({"daemon", "main"})
        BY <1>0, <2>1, RunBinaryTyped DEF Boot, Restart, TypeOK
      <3>2. fd'["daemon"] = "none" /\ fd'["main"] = "none"
        BY <1>0, <3>1, ClosedMeans
      <3>3. UNCHANGED <<bak, st>>
        BY <2>1 DEF Boot, Restart
      <3>4. QED
        BY <3>1, <3>2, <3>3
    <2>2. CASE LoadState
      <3>1. /\ dpc' \in {"running", "clear", "once", "rollback", "finish"}
            /\ dpc' = "running" => st \notin States
            /\ dpc' = "once" => st \in States /\ ~st.once /\ loaded' = st
            /\ dpc' = "rollback" => st \in States /\ st.once /\ ~st.clean /\ st.recent
                                    /\ loaded' = st
        BY <2>2, VerdictMeans DEF LoadState, Armed
      <3>2. UNCHANGED <<disk, upc>> /\ upc["daemon"] = "idle"
        BY <2>2 DEF LoadState, DaemonInv, Phases, Alive
      <3>3. QED
        BY <3>1, <3>2 DEF Pending
    <2>3. CASE MarkStarted
      BY <2>3, NothingOutlivesStarted
    <2>4. CASE ClearState
      <3>1. /\ st' = NoFile /\ dpc' \in {"running", "unback", "restart"}
            /\ UNCHANGED <<bak, upc, stTmp>>
        BY <1>0, <2>4 DEF ClearState
      <3>2. fd["daemon"] = "none" /\ fd["main"] = "none" /\ upc["daemon"] = "idle"
        BY <1>0, <2>4 DEF ClearState, SavesOwned, DaemonInv, Phases, Alive
      <3>3. fd'["daemon"] = "none" /\ fd'["main"] = "none"
        BY <1>0, <2>4, <3>2, ClosedMeans DEF ClearState
      <3>4. QED
        BY <1>0, <3>1, <3>2, <3>3 DEF Pending
    <2>5. CASE RemoveBackup \/ Rollback
      <3>1. upc["daemon"] = "idle" /\ bak' = NoFile /\ UNCHANGED <<saves, upc>>
        BY <2>5 DEF RemoveBackup, Rollback, DaemonInv, Phases, Alive
      <3>2. dpc' = "undo" \/ (dpc' = "running" /\ st \notin States)
        BY <2>5 DEF RemoveBackup, Rollback
      <3>3. QED
        BY <3>1, <3>2
    <2>6. CASE MainRemovesTarget
      BY <1>0, <2>6 DEF MainRemovesTarget
    <2>7. CASE StartupFails
      <3>1. ~(dpc = "once" /\ TmpTaken("main"))
        BY <1>0 DEF TmpTaken, DaemonInv, SaveAlone
      <3>2. /\ dpc = "rollback" /\ dpc' = "running" /\ upc["daemon"] = "idle"
            /\ fd["daemon"] = "none" /\ fd["main"] = "none" /\ UNCHANGED <<bak, st, stTmp, upc>>
        BY <1>0, <2>7, <3>1 DEF StartupFails, DaemonInv, Phases, SavesOwned, Alive
      <3>3. fd'["daemon"] = "none" /\ fd'["main"] = "none"
        BY <1>0, <2>7, <3>2, ClosedMeans DEF StartupFails
      <3>4. QED
        BY <3>2, <3>3
    <2>8. CASE Terminate \/ MarkLoad
      <3>1. UNCHANGED <<bak, saves, upc>> /\ dpc' \in {"mark", "marksave", "exit"}
        BY <2>8 DEF Terminate, MarkLoad
      <3>2. QED
        BY <3>1
    <2>9. CASE MarkSave
      BY <2>9, NothingOutlivesMarked
    <2>10. CASE MarkFails
      <3>1. fd'["daemon"] = fd["daemon"] /\ fd'["main"] = "none"
        BY <1>0, <2>10, ClosedMeans, NotMain DEF MarkFails
      <3>2. dpc' = "exit" /\ UNCHANGED <<bak, st, stTmp, upc>>
        BY <2>10 DEF MarkFails
      <3>3. QED
        BY <3>1, <3>2
    <2>11. CASE Exit
      <3>1. fd'["daemon"] = "none" /\ fd'["main"] = "none"
        BY <1>0, <2>11, ClosedMeans DEF Exit, Down
      <3>2. upc'["daemon"] = "idle" /\ dpc' = "down" /\ UNCHANGED <<bak, st>>
        BY <1>0, <2>11 DEF Exit, Down, TypeOK
      <3>3. QED
        BY <3>1, <3>2
    <2>12. QED
      BY <1>2, <2>1, <2>2, <2>3, <2>4, <2>5, <2>6, <2>7, <2>8, <2>9, <2>10, <2>11
         DEF Daemon, HandleStartup
  <1>3. CASE Crash
    <2>1. fd'["daemon"] = "none" /\ fd'["main"] = "none"
      BY <1>0, <1>3, ClosedMeans DEF Crash, Down
    <2>2. upc'["daemon"] = "idle" /\ dpc' = "down" /\ UNCHANGED <<bak, st>>
      BY <1>0, <1>3 DEF Crash, Down, TypeOK
    <2>3. QED
      BY <2>1, <2>2
  <1>4. CASE StartCheck
    <2>1. /\ dpc = "running" /\ upc["daemon"] = "idle" /\ upc'["daemon"] = "fetch"
          /\ ~Recent(st) /\ fd["main"] = "none" /\ UNCHANGED <<bak, saves, dpc>>
      BY <1>0, <1>4, DaemonSteps DEF StartCheck, InWindow, SavesOwned
    <2>2. QED
      BY <2>1 DEF Pending, Recent
  <1>5. CASE Publish
    BY <1>5 DEF Publish
  <1>6. CASE WindowPasses
    <2>1. \A s \in {st, stTmp} :
              /\ Pending(Aged(s)) => Pending(s) /\ Aged(s).from = s.from
              /\ Aged(s) \in States <=> s \in States
              /\ s \in States => Aged(s).once = s.once /\ Aged(s).clean = s.clean
      BY <1>0, AgedPending DEF TypeOK
    <2>2. dpc \in {"once", "rollback"} => loaded'.from = loaded.from
      BY <1>0, <1>6, AgedFields DEF WindowPasses, LoadedPresent, StateFiles
    <2>3. UNCHANGED <<bak, upc, dpc, fd>> /\ st' = Aged(st) /\ stTmp' = Aged(stTmp)
      BY <1>6 DEF WindowPasses
    <2>4. QED
      BY <2>1, <2>2, <2>3
  <1>7. CASE UNCHANGED vars
    BY <1>7 DEF vars
  <1>8. QED
    BY <1>1, <1>2, <1>3, <1>4, <1>5, <1>6, <1>7, AloneSteps

\* There is no state and no backup at first.
LEMMA InitBackup == Init => BackupInv
  <1> SUFFICES ASSUME Init PROVE BackupInv
    OBVIOUS
  <1>1. st \notin States /\ fd["main"] = "none" /\ fd["daemon"] = "none" /\ upc["daemon"] = "idle"
    BY NoStates, NotMain DEF Init
  <1>2. QED
    BY <1>1 DEF Init, BackupInv, BackupKept, NothingOutlives, Kept, Pending

\* A rollback puts back the version that its upgrade replaced, wherever the
\* daemon or its upgrade crashes or is stopped.  Where a file operation has
\* failed too, it may put back the running build, or one whose chmod failed,
\* never another one (manager.go:94-132, 179-181; manager_test.go:179-194).
THEOREM RollbackRestoresAlways == DaemonAlone => (Spec => []RollbackRestoresPrevious)
  <1> SUFFICES ASSUME DaemonAlone PROVE Spec => []RollbackRestoresPrevious
    OBVIOUS
  <1>1. DaemonInv /\ BackupInv /\ [Next]_vars => BackupInv'
    <2> SUFFICES ASSUME DaemonInv, BackupInv, [Next]_vars PROVE BackupInv'
      OBVIOUS
    <2>1. BackupKept'
      BY BackupKeptStep DEF BackupInv
    <2>2. ASSUME failures' = 0 PROVE NothingOutlives'
      BY <2>2, FailuresGrow, NothingOutlivesStep DEF BackupInv, DaemonInv
    <2>3. QED
      BY <2>1, <2>2 DEF BackupInv
  <1>2. DaemonInv /\ BackupInv => RollbackRestoresPrevious
    <2> SUFFICES ASSUME DaemonInv, BackupInv, dpc = "rollback", bak \in Builds
                 PROVE  \/ VersionOf[bak] = loaded.from
                        \/ failures > 0 /\ bak = build["daemon"]
                        \/ bak \in unannounced
      BY DEF RollbackRestoresPrevious
    <2>1. bak # NoFile
      BY UpgradeAssumption DEF Contents
    <2>2. CASE failures = 0
      BY <2>1, <2>2 DEF BackupInv, NothingOutlives, FromBackup
    <2>3. CASE failures # 0
      <3>1. failures > 0
        BY <2>3, UpgradeAssumption DEF DaemonInv, TypeOK
      <3>2. QED
        BY <2>1, <3>1 DEF BackupInv, BackupKept, FromBackup
    <2>4. QED
      BY <2>2, <2>3
  <1>3. QED
    BY DaemonSafety, InitBackup, <1>1, <1>2, PTL DEF Spec

-----------------------------------------------------------------------------
(* Where only the command upgrades.                                        *)

\* The daemon handles its starts and marks its stops, but no check of its own,
\* which comes hours after a start (service.go:384-387), installs anything.
CommandAlone == Upgraders = {"cli"}

LEMMA CommandWriters ==
    CommandAlone => /\ "cli" \in Upgraders /\ Processes = {"cli", "daemon"}
                    /\ Writers = {"cli", "daemon", "main"}
                    /\ CommandBusy <=> upc["cli"] # "idle"
                    /\ CutsShort <=> dpc = "once" /\ fd["main"] = "done" /\ fd["cli"] # "none"
  BY DEF CommandAlone, Processes, Writers, CutsShort, CommandBusy

\* A step of the command moves it and nothing else.
LEMMA CommandSteps ==
    ASSUME TypeOK, CommandAlone, NEW from, NEW to, UpgradeStep("cli", from, to)
    PROVE  /\ upc["cli"] = from /\ upc'["cli"] = to
           /\ upc'["daemon"] = upc["daemon"]
  BY DEF TypeOK, CommandAlone, UpgradeStep, Processes

\* What the command leaves alone.
LEMMA CommandFrame ==
    ASSUME TypeOK, CommandAlone, CheckAndUpgrade("cli")
    PROVE  /\ UNCHANGED <<main, build, crossed>>
           /\ upc["cli"] # "idle" /\ upc'["daemon"] = upc["daemon"]
  BY CommandSteps DEF CheckAndUpgrade, FetchLatest, Download, Verify, CopyBinary, Backup,
     SaveState, Replace, RemoveTarget, Abandon, main, history, TypeOK, CommandAlone, Processes

\* The steps that are left.
LEMMA CommandAloneSteps ==
    ASSUME CommandAlone, [Next]_vars
    PROVE  \/ Daemon \/ Crash \/ StartCLI \/ CheckAndUpgrade("cli")
           \/ Publish \/ WindowPasses \/ UNCHANGED vars
  BY DEF CommandAlone, Next, StartCheck

\* The daemon leaves the command alone.
LEMMA DaemonSparesCommand ==
    ASSUME TypeOK, CommandAlone, Daemon \/ Crash
    PROVE  /\ upc'["cli"] = upc["cli"] /\ rel' = rel /\ new' = new /\ bakTmp' = bakTmp
           /\ build'["cli"] = build["cli"]
           /\ upc["daemon"] = "idle" => upc'["daemon"] = "idle"
  <1> USE DEF TypeOK, CommandAlone, Processes, files, saves, disk, main
  <1>1. CASE Boot \/ Restart
    BY <1>1 DEF Boot, Restart, RunBinary
  <1>2. CASE HandleStartup \/ MainRemovesTarget
    BY <1>2 DEF HandleStartup, LoadState, MarkStarted, ClearState, RemoveBackup, Rollback,
       StartupFails, MainRemovesTarget
  <1>3. CASE Terminate \/ MarkLoad \/ MarkSave \/ MarkFails
    BY <1>3 DEF Terminate, MarkLoad, MarkSave, MarkFails
  <1>4. CASE Exit \/ Crash
    BY <1>4 DEF Exit, Crash, Down
  <1>5. QED
    BY <1>1, <1>2, <1>3, <1>4 DEF Daemon

\* The command backs up and installs what is verified.
LEMMA CommandVerifiedStep ==
    ASSUME CommandAlone, CommandInv, [Next]_vars
    PROVE  InstalledVerified' /\ CommandVerified'
  <1> USE DEF InstalledVerified, CommandVerified, files, saves, disk, main, history
  <1>0. /\ Corrupt \notin Builds /\ NoFile # Corrupt /\ NoFile \notin Builds
        /\ "cli" \in Upgraders /\ "cli" \in Processes /\ rel["cli"] \in Builds
        /\ TypeOK /\ InstalledVerified /\ CommandVerified
        /\ Upgraders \ {"cli"} = {}
    BY UpgradeAssumption, CommandWriters DEF CommandInv, CommandAlone, TypeOK, Contents
  <1>1. CASE CheckAndUpgrade("cli")
    <2>0. upc'["daemon"] = "idle"
      BY <1>0, <1>1, CommandFrame
    <2>1. CASE FetchLatest("cli") \/ Download("cli") \/ Abandon("cli")
      BY <1>0, <2>0, <2>1, CommandSteps DEF FetchLatest, Download, Abandon
    <2>2. CASE Verify("cli")
      BY <1>0, <2>0, <2>2, CommandSteps DEF Verify, ChecksumMatches
    <2>3. CASE CopyBinary("cli") \/ Backup("cli")
      BY <1>0, <2>0, <2>3, CommandSteps DEF CopyBinary, Backup
    <2>4. CASE SaveState("cli")
      BY <1>0, <2>0, <2>4 DEF SaveState, TypeOK
    <2>5. CASE Replace("cli")
      BY <1>0, <2>0, <2>5 DEF Replace, TypeOK
    <2>6. CASE RemoveTarget("cli")
      BY <1>0, <2>0, <2>6 DEF RemoveTarget
    <2>7. QED
      BY <1>1, <2>1, <2>2, <2>3, <2>4, <2>5, <2>6 DEF CheckAndUpgrade
  <1>2. CASE Daemon \/ Crash
    <2>1. upc'["cli"] = upc["cli"] /\ rel' = rel /\ new' = new /\ bakTmp' = bakTmp
          /\ upc'["daemon"] = "idle"
      BY <1>0, <1>2, DaemonSparesCommand
    <2>2. \/ bin' = bin /\ bak' \in {bak, NoFile} /\ (removed => removed')
          \/ bak # NoFile /\ bin' = bak /\ bak' = NoFile /\ (removed => removed')
          \/ bin' = NoFile /\ bak' = bak /\ removed'
      BY <1>2 DEF Daemon, HandleStartup, Boot, LoadState, MarkStarted, ClearState, RemoveBackup,
         Rollback, StartupFails, Restart, Terminate, MarkLoad, MarkSave, MarkFails, Exit, Crash,
         Down, MainRemovesTarget
    <2>3. bak # NoFile => bak \in Builds
      BY <1>0 DEF TypeOK, MaybeFile, Contents
    <2>4. QED
      BY <1>0, <2>1, <2>2, <2>3
  <1>3. CASE StartCLI
    BY <1>0, <1>3, CommandSteps DEF StartCLI
  <1>4. CASE Publish \/ WindowPasses \/ UNCHANGED vars
    BY <1>0, <1>4 DEF Publish, WindowPasses, vars
  <1>5. QED
    BY <1>1, <1>2, <1>3, <1>4, CommandAloneSteps

\* Once the two have crossed, they have.
LEMMA CrossedStays ==
    ASSUME CommandAlone, [Next]_vars, crossed PROVE crossed'
  <1> USE DEF main, history
  <1>1. CASE CheckAndUpgrade("cli")
    BY <1>1, Zenon DEF CheckAndUpgrade, FetchLatest, Download, Verify, CopyBinary, Backup,
       SaveState, Replace, RemoveTarget, Abandon
  <1>2. CASE Daemon \/ Crash
    <2>1. CASE HandleStartup \/ MainRemovesTarget
      BY <2>1, Zenon DEF HandleStartup, LoadState, MarkStarted, ClearState, RemoveBackup,
         Rollback, StartupFails, MainRemovesTarget
    <2>2. CASE Boot \/ Restart \/ Terminate \/ MarkLoad \/ MarkSave \/ MarkFails
      BY <2>2, Zenon DEF Boot, Restart, Terminate, MarkLoad, MarkSave, MarkFails
    <2>3. CASE Exit \/ Crash
      BY <2>3, Zenon DEF Exit, Crash, Down
    <2>4. QED
      BY <1>2, <2>1, <2>2, <2>3 DEF Daemon
  <1>3. CASE StartCLI \/ Publish \/ WindowPasses \/ UNCHANGED vars
    BY <1>3, Zenon DEF StartCLI, Publish, WindowPasses, vars
  <1>4. QED
    BY <1>1, <1>2, <1>3, CommandAloneSteps

\* What is known while they have not.
Uncrossed == CommandInv /\ Ascending /\ ArmedTmp /\ ArmedForDaemon /\ Disarmed

LEMMA UncrossedMeans ==
    ASSUME CommandAlone, Uncrossed
    PROVE  /\ "cli" \in Upgraders /\ "cli" \in Processes /\ "daemon" \in Processes
           /\ "cli" \in Writers /\ "main" \in Writers /\ "daemon" \in Writers
           /\ TypeOK /\ LoadedPresent /\ SavesOwned /\ InstalledVerified /\ CommandVerified
           /\ Ascending /\ ArmedTmp /\ ArmedForDaemon /\ Disarmed
           /\ fd["daemon"] = "none"
           /\ NoFile \notin Builds
           /\ \A s \in {Empty, Torn, NoFile} : s \notin States
           /\ build["daemon"] \in Builds /\ build["cli"] \in Builds /\ rel["cli"] \in Builds
  BY CommandWriters, NoStates, UpgradeAssumption
     DEF Uncrossed, CommandInv, CommandVerified, SavesOwned, TypeOK, Contents

\* The versions of builds are numbers, so that their order is one.
LEMMA NotAboveMeans ==
    /\ \A b \in Builds : VersionOf[b] \in Nat
    /\ \A b \in Builds : NotAbove(b, b)
    /\ \A b : NotAbove(NoFile, b)
    /\ \A x, a, b : a \in Builds /\ b \in Builds /\ NotAbove(x, a) /\ NotAbove(a, b)
                      => NotAbove(x, b)
  BY UpgradeAssumption DEF NotAbove, Contents

\* Versions only go up.
LEMMA AscendingStep ==
    ASSUME CommandAlone, Uncrossed, [Next]_vars, ~crossed'
    PROVE  Ascending'
  <1> USE DEF files, saves, disk, main, history
  <1>0. /\ "cli" \in Upgraders /\ "cli" \in Processes /\ TypeOK /\ CommandVerified /\ Ascending
        /\ NoFile \notin Builds /\ (bin # NoFile => bin \in Builds)
        /\ build["daemon"] \in Builds /\ build["cli"] \in Builds /\ rel["cli"] \in Builds
    BY UncrossedMeans DEF InstalledVerified
  <1>1. CASE CheckAndUpgrade("cli")
    <2>0. UNCHANGED <<dpc, build>> /\ Up' = Up
      BY <1>0, <1>1, CommandFrame DEF Up
    <2>1. CASE FetchLatest("cli")
      <3>1. /\ upc["cli"] = "fetch" /\ upc'["cli"] \in {"download", "idle"}
            /\ upc'["cli"] = "download" => NeedsUpgrade("cli", published)
            /\ rel'["cli"] = published /\ UNCHANGED <<bin, bak, bakTmp>>
        BY <1>0, <2>1, CommandSteps DEF FetchLatest, TypeOK
      <3>2. NeedsUpgrade("cli", published) => NotAbove(build["cli"], published)
        <4>1. VersionOf[published] \in Nat /\ VersionOf[build["cli"]] \in Nat
          BY <1>0, UpgradeAssumption DEF TypeOK
        <4>2. QED
          BY <4>1 DEF NeedsUpgrade, NotAbove
      <3>3. QED
        BY <1>0, <2>0, <3>1, <3>2 DEF Ascending, NotAbove
    <2>2. CASE Download("cli") \/ Verify("cli") \/ CopyBinary("cli") \/ Abandon("cli")
      <3>1. /\ UNCHANGED <<bin, bak, rel>> /\ upc["cli"] # "idle"
            /\ upc'["cli"] = "backup" => bakTmp' = bin
            /\ upc["cli"] = "fetch" => upc'["cli"] \in {"idle", "fetch"}
        BY <1>0, <2>2, CommandSteps DEF Download, Verify, CopyBinary, Abandon
      <3>2. QED
        BY <1>0, <2>0, <3>1 DEF Ascending, NotAbove
    <2>3. CASE Backup("cli")
      <3>1. /\ upc["cli"] = "backup" /\ upc'["cli"] = "save" /\ UNCHANGED <<bin, rel>>
            /\ bak' = bakTmp
        BY <1>0, <2>3, CommandSteps DEF Backup, CommandAlone
      <3>2. QED
        BY <1>0, <2>0, <3>1, NotAboveMeans DEF Ascending
    <2>4. CASE SaveState("cli")
      <3>1. /\ upc["cli"] = "save" /\ upc'["cli"] \in {"save", "replace"}
            /\ UNCHANGED <<bin, bak, rel>>
        BY <1>0, <2>4 DEF SaveState, TypeOK
      <3>2. QED
        BY <1>0, <2>0, <3>1 DEF Ascending, NotAbove
    <2>5. CASE Replace("cli")
      <3>1. /\ upc["cli"] = "replace" /\ upc'["cli"] = "idle" /\ bak' = bak
            /\ bin' = rel["cli"]
        BY <1>0, <2>5 DEF Replace, CommandVerified, TypeOK
      <3>2. /\ NotAbove(bak, build["cli"]) /\ NotAbove(build["cli"], rel["cli"])
            /\ Up => NotAbove(build["daemon"], build["cli"])
        BY <1>0, <3>1 DEF Ascending
      <3>3. NotAbove(bak, rel["cli"]) /\ (Up => NotAbove(build["daemon"], rel["cli"]))
        BY <1>0, <3>2, NotAboveMeans
      <3>4. QED
        BY <2>0, <3>1, <3>3 DEF Ascending, NotAbove
    <2>6. CASE RemoveTarget("cli")
      <3>1. /\ UNCHANGED <<upc, rel>>
            /\ \/ bin' = bin /\ bak' \in {bak, NoFile} /\ bakTmp' = bakTmp
               \/ upc["cli"] = "replace" /\ bin' = NoFile /\ bak' = bak
        BY <2>6 DEF RemoveTarget
      <3>2. CASE bin' = bin
        BY <1>0, <2>0, <3>1, <3>2, NotAboveMeans DEF Ascending
      <3>3. CASE upc["cli"] = "replace" /\ bin' = NoFile /\ bak' = bak
        BY <1>0, <2>0, <3>1, <3>3, NotAboveMeans DEF Ascending
      <3>4. QED
        BY <3>1, <3>2, <3>3
    <2>7. QED
      BY <1>1, <2>1, <2>2, <2>3, <2>4, <2>5, <2>6 DEF CheckAndUpgrade
  <1>2. CASE Daemon \/ Crash
    <2>0. upc'["cli"] = upc["cli"] /\ rel' = rel /\ build'["cli"] = build["cli"] /\ bakTmp' = bakTmp
      BY <1>0, <1>2, DaemonSparesCommand
    <2>1. CASE Boot \/ Restart
      <3>1. /\ UNCHANGED <<bin, bak>>
            /\ \/ build'["daemon"] = bin /\ bin \in Builds
               \/ ~Up'
        BY <1>0, <2>1, RunBinaryTyped DEF Boot, Restart, Up
      <3>2. QED
        BY <1>0, <2>0, <3>1, NotAboveMeans DEF Ascending, NotAbove
    <2>2. CASE Rollback \/ (MainRemovesTarget /\ dpc = "rollback")
      <3>1. upc["cli"] = "idle"
        BY <2>2, CommandWriters DEF Rollback, MainRemovesTarget
      <3>2. \/ bak # NoFile /\ bin' = bak /\ bak' = NoFile /\ ~Up'
            \/ bin' = NoFile
        BY <2>2 DEF Rollback, MainRemovesTarget, Up
      <3>3. CASE bin' = NoFile
        BY <1>0, <2>0, <3>1, <3>3 DEF Ascending
      <3>4. CASE bak' = NoFile /\ ~Up'
        BY <2>0, <3>1, <3>4, NotAboveMeans DEF Ascending
      <3>5. QED
        BY <3>2, <3>3, <3>4
    <2>3. CASE LoadState \/ MarkStarted \/ ClearState \/ RemoveBackup \/ StartupFails
               \/ (MainRemovesTarget /\ dpc # "rollback")
      <3>1. dpc \in {"load", "once", "clear", "finish", "undo", "unback", "rollback", "marksave"}
            /\ bin' = bin /\ build' = build /\ bak' \in {bak, NoFile}
            /\ (dpc = "undo" => dpc' = "restart")
        BY <2>3 DEF LoadState, MarkStarted, ClearState, RemoveBackup, StartupFails,
                    MainRemovesTarget
      <3>2. Up' => Up
        BY <3>1 DEF Up
      <3>3. QED
        BY <1>0, <2>0, <3>1, <3>2, NotAboveMeans DEF Ascending
    <2>4. CASE Terminate \/ MarkLoad \/ MarkSave \/ MarkFails \/ Exit \/ Crash
      <3>1. (Up' => Up) /\ UNCHANGED <<bin, bak, build>>
        BY <2>4 DEF Up, Terminate, MarkLoad, MarkSave, MarkFails, Exit, Crash, Down
      <3>2. QED
        BY <1>0, <2>0, <3>1 DEF Ascending, NotAbove
    <2>5. QED
      BY <1>2, <2>1, <2>2, <2>3, <2>4 DEF Daemon, HandleStartup
  <1>3. CASE StartCLI
    <2>1. /\ upc'["cli"] = "fetch" /\ build'["cli"] = bin /\ build'["daemon"] = build["daemon"]
          /\ UNCHANGED <<bin, bak, dpc>> /\ bin \in Builds
      BY <1>0, <1>3, CommandSteps DEF StartCLI, TypeOK
    <2>2. QED
      BY <1>0, <2>1, NotAboveMeans DEF Up, Ascending, NotAbove
  <1>4. CASE Publish \/ WindowPasses \/ UNCHANGED vars
    BY <1>0, <1>4 DEF Publish, WindowPasses, vars, Up, Ascending, NotAbove
  <1>5. QED
    BY <1>1, <1>2, <1>3, <1>4, CommandAloneSteps


\* The command writes no armed state, and main only at a start.
LEMMA ArmedContent ==
    ASSUME TypeOK, CommandAlone
    PROVE  /\ ~Armed(Content("cli"))
           /\ loaded \in States /\ Armed(Content("main")) =>
                dpc = "once" /\ Content("main").to = loaded.to
  <1>1. Content("cli") = UpgradeState("cli") /\ ~UpgradeState("cli").once
    BY CommandWriters, UpgradeStateTyped, UpgraderContent, NotMain
  <1>2. loaded \in States => Marked(loaded).clean /\ Started(loaded).to = loaded.to
    BY UpdatedFields
  <1>3. QED
    BY <1>1, <1>2 DEF Armed, Content

\* How a save makes a state armed: it publishes one that was, or main writes it.
LEMMA SaveArms ==
    ASSUME TypeOK, CommandAlone, NEW w \in {"cli", "main"}, w = "main" => loaded \in States,
           OpenState(w) \/ WriteState(w) \/ RenameState(w) \/ UnlinkState(w)
    PROVE  /\ Armed(stTmp') =>
                \/ stTmp' = stTmp /\ fd[w] # "none" /\ (fd["main"] = "done" => fd'["main"] = "done")
                \/ w = "main" /\ fd'["main"] = "done" /\ stTmp' = Content("main")
           /\ Armed(st') => \/ st' = st /\ ~RenameState(w)
                            \/ RenameState(w) /\ fd[w] # "none" /\ st' = stTmp
                            \/ ~RenameState(w) /\ w = "main" /\ st' = Content("main")
           /\ RenameState(w) => stTmp' = NoFile
  <1>0. /\ "cli" \in Writers /\ "main" \in Writers /\ w \in Writers /\ fd \in [Writers -> FdValues]
        /\ ~Armed(Content("cli")) /\ ~Armed(Empty) /\ ~Armed(Torn) /\ ~Armed(NoFile)
    BY CommandWriters, ArmedContent, NoStates DEF TypeOK, FdValues
  <1>1. CASE OpenState(w)
    BY <1>0, <1>1 DEF OpenState, RenameState
  <1>2. CASE WriteState(w)
    <2>1. ~RenameState(w)
      BY <1>0, <1>2 DEF WriteState, RenameState
    <2>2. fd[w] # "none" /\ fd' = [fd EXCEPT ![w] = "done"]
      BY <1>0, <1>2 DEF WriteState
    <2>3. /\ stTmp' \in {stTmp, Content(w), Torn}
          /\ st' \in {st, Content(w), Torn}
      BY <1>2 DEF WriteState, Over
    <2>4. fd'["main"] = IF w = "main" THEN "done" ELSE fd["main"]
      BY <1>0, <2>2
    <2>5. QED
      BY <1>0, <2>1, <2>2, <2>3, <2>4
  <1>3. CASE RenameState(w)
    BY <1>0, <1>3 DEF RenameState
  <1>4. CASE UnlinkState(w)
    BY <1>0, <1>4 DEF UnlinkState, Removed, RenameState
  <1>5. QED
    BY <1>1, <1>2, <1>3, <1>4

\* While the two have not crossed, a state becomes armed only where main marks
\* the build it runs as started, although the command may be the one that
\* publishes it.
ArmedNow ==
    /\ dpc = "once" /\ About(st', build["daemon"]) /\ dpc' \in {"once", "running"}
    /\ UNCHANGED <<bin, build, rel>>

\* The saves that publish a state.
PublishesState == \/ SaveState("cli") /\ upc'["cli"] = "replace"
                  \/ MarkSave /\ dpc' = "exit"

\* What a save of the command does to the two files.
LEMMA CommandSaves ==
    ASSUME CommandAlone, Uncrossed, SaveState("cli") \/ (RemoveTarget("cli") /\ upc["cli"] = "save")
    PROVE  /\ ArmedTmp'
           /\ Armed(st') => (st' = st /\ ~PublishesState) \/ ArmedNow
  <1> USE DEF files, saves, disk, main
  <1>0. /\ "cli" \in Upgraders /\ TypeOK /\ ArmedTmp /\ "cli" \in Processes
        /\ "cli" \in Writers /\ fd \in [Writers -> FdValues] /\ ~Armed(NoFile)
    BY UncrossedMeans, NoStates DEF TypeOK, FdValues
  <1>1. OpenState("cli") \/ WriteState("cli") \/ RenameState("cli") \/ UnlinkState("cli")
    BY DEF SaveState, RemoveTarget
  <1>2. UNCHANGED <<dpc, build, bin, rel>> /\ upc["cli"] = "save"
    BY DEF SaveState, RemoveTarget
  <1>3. SaveState("cli") /\ upc'["cli"] = "replace" => RenameState("cli")
    BY <1>0, <1>2 DEF SaveState, TypeOK
  <1>4. ~(MarkSave /\ dpc' = "exit")
    BY <1>2 DEF MarkSave
  <1>5. ArmedTmp'
    BY <1>0, <1>1, <1>2, SaveArms DEF ArmedTmp, About
  <1>6. ASSUME Armed(st') PROVE (st' = st /\ ~PublishesState) \/ ArmedNow
    <2>1. CASE RenameState("cli")
      BY <1>0, <1>1, <1>2, <1>6, <2>1, SaveArms DEF ArmedTmp, ArmedNow, About
    <2>2. CASE ~RenameState("cli")
      BY <1>1, <1>3, <1>4, <1>6, <2>2, <1>0, SaveArms DEF PublishesState
    <2>3. QED
      BY <2>1, <2>2
  <1>7. QED
    BY <1>5, <1>6

\* And one of main's.
LEMMA MainSaves ==
    ASSUME CommandAlone, Uncrossed,
           MarkStarted \/ MarkSave \/ (MainRemovesTarget /\ dpc # "rollback")
    PROVE  /\ ArmedTmp'
           /\ Armed(st') => (st' = st /\ ~PublishesState) \/ ArmedNow
  <1> USE DEF files, saves, disk, main
  <1>0. /\ TypeOK /\ ArmedTmp /\ "main" \in Writers /\ fd \in [Writers -> FdValues]
        /\ ~Armed(NoFile) /\ "cli" \in Processes
    BY UncrossedMeans, NoStates DEF TypeOK, FdValues
  <1>1. OpenState("main") \/ WriteState("main") \/ RenameState("main") \/ UnlinkState("main")
    BY DEF MarkStarted, MarkSave, MainRemovesTarget
  <1>2. /\ UNCHANGED <<build, bin, rel, upc>> /\ dpc \in {"once", "marksave"} /\ loaded \in States
        /\ dpc' = dpc \/ (RenameState("main") /\ dpc' = IF dpc = "once" THEN "running" ELSE "exit")
    BY UncrossedMeans DEF MarkStarted, MarkSave, MainRemovesTarget, LoadedPresent
  <1>3. dpc = "once" => About(loaded, build["daemon"])
    BY UncrossedMeans DEF ArmedForDaemon
  <1>4. Armed(Content("main")) => dpc = "once" /\ About(Content("main"), build["daemon"])
    BY <1>0, <1>2, <1>3, ArmedContent DEF About
  <1>5. ArmedTmp'
    <2>1. CASE RenameState("main")
      BY <1>0, <1>1, <1>2, <2>1, SaveArms DEF ArmedTmp
    <2>2. CASE ~RenameState("main")
      BY <1>0, <1>1, <1>2, <1>4, <2>2, SaveArms DEF ArmedTmp, About
    <2>3. QED
      BY <2>1, <2>2
  <1>6. SaveState("cli") /\ upc'["cli"] = "replace" => FALSE
    BY <1>0, <1>2 DEF SaveState, TypeOK
  <1>7. ASSUME Armed(st') PROVE (st' = st /\ ~PublishesState) \/ ArmedNow
    <2>1. CASE RenameState("main")
      BY <1>0, <1>1, <1>2, <1>7, <2>1, SaveArms DEF ArmedTmp, ArmedNow, About
    <2>2. CASE ~RenameState("main")
      <3>1. ~PublishesState /\ dpc' = dpc
        BY <1>2, <1>6, <2>2 DEF PublishesState, MarkSave
      <3>2. QED
        BY <1>0, <1>1, <1>2, <1>4, <1>7, <2>2, <3>1, SaveArms DEF ArmedNow, About
    <2>3. QED
      BY <2>1, <2>2
  <1>8. QED
    BY <1>5, <1>7

\* The other steps open, write and publish nothing; what they close was not
\* the last hold on an armed file, or the two have crossed.
LEMMA OtherSteps ==
    ASSUME CommandAlone, Uncrossed, ~crossed', stTmp' = stTmp, st' \in {st, NoFile},
           \A w \in {"cli", "main"} : fd'[w] # "none" => fd[w] # "none",
           \/ dpc # "once"
           \/ UNCHANGED <<dpc, build>> /\ fd'["main"] = fd["main"]
           \/ fd'["main"] = "none" /\ fd'["cli"] = fd["cli"] /\ (CutsShort => crossed'),
           ~PublishesState
    PROVE  /\ ArmedTmp'
           /\ Armed(st') => (st' = st /\ ~PublishesState) \/ ArmedNow
  <1>0. ArmedTmp /\ ~Armed(NoFile)
    BY UncrossedMeans, NoStates
  <1>1. CASE dpc # "once"
    BY <1>0, <1>1 DEF ArmedTmp
  <1>2. CASE UNCHANGED <<dpc, build>> /\ fd'["main"] = fd["main"]
    BY <1>0, <1>2 DEF ArmedTmp, About
  <1>3. CASE dpc = "once" /\ fd'["main"] = "none" /\ fd'["cli"] = fd["cli"]
             /\ (CutsShort => crossed')
    <2>1. ~CutsShort
      BY <1>3
    <2>2. ~(fd["main"] = "done" /\ fd["cli"] # "none")
      BY <1>3, <2>1, CommandWriters
    <2>3. QED
      BY <1>0, <1>3, <2>2 DEF ArmedTmp
  <1>4. QED
    BY <1>0, <1>1, <1>2, <1>3

LEMMA ArmedSources ==
    ASSUME CommandAlone, Uncrossed, [Next]_vars, ~crossed'
    PROVE  /\ ArmedTmp'
           /\ Armed(st') => (st' = st /\ ~PublishesState) \/ ArmedNow
  <1> USE DEF files, saves, disk, main, history
  <1>0. /\ TypeOK /\ "cli" \in Upgraders /\ {"main", "cli"} \subseteq Writers
        /\ "cli" \in Processes /\ ArmedTmp
    BY UncrossedMeans
  <1>1. \A ws, w : w \in {"cli", "main"} =>
          Closed(ws)[w] = IF w \in ws THEN "none" ELSE fd[w]
    BY <1>0, ClosedMeans
  <1>2. CASE CheckAndUpgrade("cli")
    <2>0. UNCHANGED <<dpc, build, crossed>>
      BY <1>0, <1>2, CommandFrame
    <2>a. ~(MarkSave /\ dpc' = "exit")
      BY <2>0 DEF MarkSave
    <2>1. CASE SaveState("cli") \/ (RemoveTarget("cli") /\ upc["cli"] = "save")
      BY <2>1, CommandSaves
    <2>2. CASE ~SaveState("cli") /\ ~(RemoveTarget("cli") /\ upc["cli"] = "save")
      <3>1. /\ UNCHANGED <<st, stTmp>> /\ fd' \in {fd, Closed({"cli"})} /\ ~PublishesState
        BY <1>2, <2>a, <2>2 DEF CheckAndUpgrade, FetchLatest, Download, Verify, CopyBinary, Backup,
           Replace, RemoveTarget, Abandon, PublishesState
      <3>2. fd'["main"] = fd["main"] /\ (fd'["cli"] # "none" => fd["cli"] # "none")
        BY <1>0, <1>1, <3>1
      <3>3. QED
        BY <2>0, <3>1, <3>2, OtherSteps
    <2>3. QED
      BY <2>1, <2>2
  <1>3. CASE Daemon \/ Crash
    <2>0. upc'["cli"] = upc["cli"] /\ (SaveState("cli") => upc["cli"] = "save")
      BY <1>0, <1>3, DaemonSparesCommand DEF SaveState
    <2>1. CASE MarkStarted \/ MarkSave \/ (MainRemovesTarget /\ dpc # "rollback")
      BY <2>1, MainSaves
    <2>2. CASE ~MarkSave /\ (Boot \/ Restart \/ LoadState \/ ClearState \/ RemoveBackup \/ Rollback
               \/ (MainRemovesTarget /\ dpc = "rollback")
               \/ Terminate \/ MarkLoad \/ MarkFails)
      <3>1. /\ stTmp' = stTmp /\ st' \in {st, NoFile} /\ dpc # "once"
            /\ fd' \in {fd, Removed, Closed({"main"}), Closed({"daemon", "main"})}
        BY <2>2 DEF Boot, Restart, RunBinary, LoadState, ClearState, RemoveBackup, Rollback,
           MainRemovesTarget, Terminate, MarkLoad, MarkFails
      <3>2. \A w \in {"cli", "main"} : fd'[w] # "none" => fd[w] # "none"
        BY <1>0, <1>1, <3>1, ClosedMeans
      <3>3. ~PublishesState
        BY <2>0, <2>2 DEF PublishesState
      <3>4. QED
        BY <3>1, <3>2, <3>3, OtherSteps
    <2>3. CASE ~MarkSave /\ (StartupFails \/ Exit \/ Crash)
      <3>1. /\ stTmp' = stTmp /\ st' = st
            /\ fd' \in {Closed({"main"}), Closed({"daemon", "main"})}
            /\ (CutsShort => crossed')
        BY <2>3, Zenon DEF StartupFails, Exit, Crash, Down
      <3>2. fd'["main"] = "none" /\ fd'["cli"] = fd["cli"]
        BY <1>1, <3>1
      <3>3. ~PublishesState
        BY <2>0, <2>3 DEF PublishesState
      <3>4. QED
        BY <3>1, <3>2, <3>3, OtherSteps
    <2>4. QED
      BY <1>3, <2>1, <2>2, <2>3 DEF Daemon, HandleStartup
  <1>4. CASE StartCLI \/ Publish \/ UNCHANGED vars
    <2>1. CASE StartCLI
      <3>1. upc'["cli"] = "fetch" /\ UNCHANGED <<stTmp, st, fd, dpc>>
        BY <1>0, <2>1, CommandSteps DEF StartCLI
      <3>2. build'["daemon"] = build["daemon"]
        BY <1>0, <2>1 DEF StartCLI, TypeOK
      <3>3. ~PublishesState
        BY <3>1 DEF PublishesState, MarkSave
      <3>4. QED
        BY <1>0, <3>1, <3>2, <3>3 DEF ArmedTmp, About
    <2>2. CASE Publish \/ UNCHANGED vars
      <3>1. UNCHANGED <<saves, dpc, build, upc>>
        BY <2>2 DEF Publish, vars
      <3>2. ~PublishesState
        BY <3>1 DEF PublishesState, SaveState, MarkSave
      <3>3. QED
        BY <1>0, <3>1, <3>2 DEF ArmedTmp, About
    <2>3. QED
      BY <1>4, <2>1, <2>2
  <1>5. CASE WindowPasses
    <2>1. ~Armed(st') /\ ~Armed(stTmp')
      BY <1>0, <1>5, AgedFields DEF WindowPasses, Armed, TypeOK
    <2>2. QED
      BY <2>1 DEF ArmedTmp
  <1>6. QED
    BY <1>2, <1>3, <1>4, <1>5, CommandAloneSteps

\* What main marks as started stays about its build.
LEMMA LoadedOnce ==
    ASSUME CommandAlone, Uncrossed, [Next]_vars
    PROVE  dpc' = "once" => About(loaded, build["daemon"])'
  <1> USE DEF files, saves, disk, main, history
  <1>0. /\ TypeOK /\ ArmedForDaemon /\ loaded \in States \cup {NoFile} /\ "cli" \in Processes
    BY UncrossedMeans DEF TypeOK
  <1>1. CASE CheckAndUpgrade("cli")
    <2>1. UNCHANGED <<dpc, build, loaded>>
      BY <1>0, <1>1, CommandFrame
    <2>2. QED
      BY <1>0, <2>1 DEF ArmedForDaemon, About
  <1>2. CASE LoadState
    <2>1. /\ build' = build /\ dpc' = Verdict(st, build["daemon"])
          /\ loaded' = IF st \in States THEN st ELSE NoFile
      BY <1>2 DEF LoadState
    <2>2. QED
      BY <2>1, VerdictMeans DEF About
  <1>3. CASE (Daemon /\ ~LoadState) \/ Crash
    <2>1. CASE Boot \/ Restart
      <3>1. dpc' # "once"
        BY <1>0, <2>1, RunBinaryTyped DEF Boot, Restart
      <3>2. QED
        BY <3>1
    <2>2. CASE MarkStarted \/ MainRemovesTarget
      <3>1. build' = build /\ loaded' = loaded /\ (dpc' = "once" => dpc = "once")
        BY <2>2 DEF MarkStarted, MainRemovesTarget
      <3>2. QED
        BY <1>0, <3>1 DEF ArmedForDaemon, About
    <2>3. CASE ClearState \/ RemoveBackup \/ Rollback \/ StartupFails \/ Terminate \/ MarkLoad
               \/ MarkSave \/ MarkFails \/ Exit \/ Crash
      <3>1. dpc' # "once"
        BY <2>3 DEF ClearState, RemoveBackup, Rollback, StartupFails, Terminate, MarkLoad,
           MarkSave, MarkFails, Exit, Crash, Down
      <3>2. QED
        BY <3>1
    <2>4. QED
      BY <1>3, <2>1, <2>2, <2>3 DEF Daemon, HandleStartup
  <1>4. CASE StartCLI \/ Publish \/ UNCHANGED vars
    <2>1. UNCHANGED <<dpc, loaded>>
      BY <1>4 DEF StartCLI, Publish, vars
    <2>2. build' = build \/ build' = [build EXCEPT !["cli"] = bin]
      BY <1>4 DEF StartCLI, Publish, vars
    <2>3. build'["daemon"] = build["daemon"]
      BY <2>2, <1>0, CommandWriters DEF TypeOK
    <2>4. QED
      BY <1>0, <2>1, <2>3 DEF ArmedForDaemon, About
  <1>5. CASE WindowPasses
    <2>1. UNCHANGED <<dpc, build>> /\ loaded' = Aged(loaded)
      BY <1>5 DEF WindowPasses
    <2>2. Aged(loaded).to = loaded.to
      BY <1>0, AgedFields, StateAssumption DEF StateFiles, Aged
    <2>3. QED
      BY <1>0, <2>1, <2>2 DEF ArmedForDaemon, About
  <1>6. QED
    BY <1>1, <1>2, <1>3, <1>4, <1>5, CommandAloneSteps

\* The daemon that runs is the one an armed state is about.
LEMMA ArmedForDaemonStep ==
    ASSUME CommandAlone, Uncrossed, [Next]_vars, ~crossed'
    PROVE  ArmedForDaemon'
  <1> USE DEF files, saves, disk, main, history
  <1>0. /\ TypeOK /\ "cli" \in Upgraders /\ "cli" \in Processes /\ ArmedForDaemon
        /\ NoFile \notin Builds /\ ~Armed(NoFile) /\ CommandVerified
        /\ build["daemon"] \in Builds /\ build["cli"] \in Builds /\ rel["cli"] \in Builds
        /\ \A b \in Builds : VersionOf[b] \in Nat
    BY UncrossedMeans, NotAboveMeans, NoStates
  <1>1. Armed(st') => (st' = st /\ ~PublishesState) \/ ArmedNow
    BY ArmedSources
  <1>2. CASE ArmedNow
    <2>1. Ascending'
      BY AscendingStep
    <2>2. ASSUME ArmedFor(bin)' PROVE VersionOf[build'["daemon"]] = VersionOf[bin']
      BY <1>2, <2>2 DEF ArmedNow, ArmedFor, About
    <2>3. ASSUME upc'["cli"] = "replace", ArmedFor(rel["cli"])'
          PROVE  /\ bin' \in Builds => VersionOf[bin'] = VersionOf[rel'["cli"]]
                 /\ VersionOf[build'["daemon"]] = VersionOf[rel'["cli"]]
      <3>1. VersionOf[build'["daemon"]] = VersionOf[rel'["cli"]] /\ Up'
        BY <1>2, <2>3 DEF ArmedNow, ArmedFor, About, Up
      <3>2. rel'["cli"] \in Builds /\ build'["cli"] \in Builds /\ build'["daemon"] \in Builds
        BY <1>0, <1>2 DEF ArmedNow
      <3>3. /\ bin' \in Builds => /\ VersionOf[build'["daemon"]] <= VersionOf[bin']
                                  /\ VersionOf[bin'] <= VersionOf[build'["cli"]]
            /\ VersionOf[build'["cli"]] <= VersionOf[rel'["cli"]]
        BY <2>1, <2>3, <3>1, <3>2 DEF Ascending, NotAbove
      <3>4. QED
        BY <1>0, <3>1, <3>2, <3>3
    <2>4. dpc' = "once" => About(loaded, build["daemon"])'
      BY LoadedOnce
    <2>5. QED
      BY <2>2, <2>3, <2>4 DEF ArmedForDaemon
  <1>3. CASE st' = st /\ ~PublishesState
    <2>1. CASE CheckAndUpgrade("cli")
      <3>0. UNCHANGED <<dpc, build, loaded>> /\ Up' = Up
        BY <1>0, <2>1, CommandFrame DEF Up
      <3>1. CASE FetchLatest("cli") \/ Download("cli") \/ Verify("cli") \/ CopyBinary("cli")
                 \/ Backup("cli") \/ Abandon("cli") \/ SaveState("cli")
        <4>1. bin' = bin /\ upc'["cli"] # "replace"
          <5>1. CASE SaveState("cli")
            BY <1>0, <1>3, <3>1, <5>1 DEF PublishesState, SaveState, TypeOK
          <5>2. CASE ~SaveState("cli")
            BY <1>0, <3>1, <5>2, CommandSteps DEF FetchLatest, Download, Verify, CopyBinary,
               Backup, Abandon
          <5>3. QED
            BY <5>1, <5>2
        <4>2. QED
          BY <1>0, <1>3, <3>0, <4>1 DEF ArmedForDaemon, ArmedFor, About
      <3>2. CASE Replace("cli")
        <4>1. upc["cli"] = "replace" /\ upc'["cli"] = "idle" /\ bin' = rel["cli"]
          BY <1>0, <3>2 DEF Replace, TypeOK, CommandVerified
        <4>2. QED
          BY <1>0, <1>3, <3>0, <4>1 DEF ArmedForDaemon, ArmedFor, About
      <3>3. CASE RemoveTarget("cli")
        <4>1. UNCHANGED <<upc, rel>> /\ bin' \in {bin, NoFile}
          BY <3>3 DEF RemoveTarget
        <4>2. QED
          BY <1>0, <1>3, <3>0, <4>1 DEF ArmedForDaemon, ArmedFor, About
      <3>4. QED
        BY <2>1, <3>1, <3>2, <3>3 DEF CheckAndUpgrade
    <2>2. CASE Daemon \/ Crash
      <3>0. upc'["cli"] = upc["cli"] /\ rel' = rel
        BY <1>0, <2>2, DaemonSparesCommand
      <3>1. CASE Boot \/ Restart
        <4>1. bin' = bin /\ ((bin \in Builds /\ build'["daemon"] = bin) \/ ~Up')
          BY <1>0, <3>1, RunBinaryTyped DEF Boot, Restart, Up
        <4>2. dpc' # "once"
          BY <1>0, <3>1, RunBinaryTyped DEF Boot, Restart
        <4>3. QED
          BY <1>0, <1>3, <3>0, <4>1, <4>2 DEF ArmedForDaemon, ArmedFor, About
      <3>2. CASE LoadState
        <4>1. /\ UNCHANGED <<bin, build>> /\ Up
              /\ dpc' = Verdict(st, build["daemon"])
              /\ loaded' = IF st \in States THEN st ELSE NoFile
          BY <3>2 DEF LoadState, Up
        <4>2. dpc' = "once" => About(loaded', build["daemon"])
          BY <4>1, VerdictMeans
        <4>3. QED
          BY <1>0, <1>3, <3>0, <4>1, <4>2 DEF ArmedForDaemon, ArmedFor, About
      <3>3. CASE Rollback \/ (MainRemovesTarget /\ dpc = "rollback")
        <4>1. upc["cli"] = "idle" /\ dpc' # "once" /\ (~Up' \/ bin' = NoFile)
          BY <3>3, CommandWriters DEF Rollback, MainRemovesTarget, Up
        <4>2. QED
          BY <1>0, <3>0, <4>1 DEF ArmedForDaemon, ArmedFor
      <3>4. CASE MarkStarted \/ ClearState \/ RemoveBackup \/ StartupFails
                 \/ (MainRemovesTarget /\ dpc # "rollback")
                 \/ Terminate \/ MarkLoad \/ MarkSave \/ MarkFails \/ Exit \/ Crash
        <4>1. /\ UNCHANGED <<bin, build>> /\ (Up' => Up)
              /\ dpc' = "once" => dpc = "once" /\ loaded' = loaded
          BY <3>4 DEF MarkStarted, ClearState, RemoveBackup, StartupFails, MainRemovesTarget,
             Terminate, MarkLoad, MarkSave, MarkFails, Exit, Crash, Down, Up
        <4>2. QED
          BY <1>0, <1>3, <3>0, <4>1 DEF ArmedForDaemon, ArmedFor, About
      <3>5. QED
        BY <2>2, <3>1, <3>2, <3>3, <3>4 DEF Daemon, HandleStartup
    <2>3. CASE StartCLI
      <3>1. /\ UNCHANGED <<bin, dpc, loaded>> /\ build'["daemon"] = build["daemon"]
            /\ upc'["cli"] = "fetch"
        BY <1>0, <2>3, CommandSteps DEF StartCLI, TypeOK
      <3>2. Up' = Up
        BY <3>1 DEF Up
      <3>3. QED
        BY <1>0, <1>3, <3>1, <3>2 DEF ArmedForDaemon, ArmedFor, About
    <2>4. CASE Publish \/ UNCHANGED vars
      <3>1. UNCHANGED <<bin, dpc, loaded, build, upc, rel>> /\ Up' = Up
        BY <2>4 DEF Publish, vars, Up
      <3>2. QED
        BY <1>0, <1>3, <3>1 DEF ArmedForDaemon, ArmedFor, About
    <2>5. CASE WindowPasses
      <3>1. ~Armed(st')
        BY <1>0, <2>5, AgedFields DEF WindowPasses, Armed, TypeOK
      <3>2. QED
        BY <3>1, LoadedOnce DEF ArmedForDaemon, ArmedFor
    <2>6. QED
      BY <2>1, <2>2, <2>3, <2>4, <2>5, CommandAloneSteps
  <1>4. CASE ~Armed(st')
    BY <1>4, LoadedOnce DEF ArmedForDaemon, ArmedFor
  <1>5. QED
    BY <1>1, <1>2, <1>3, <1>4

\* A start that rolls back does not follow a clean stop.
LEMMA RollbackUnclean ==
    ASSUME CommandAlone, Uncrossed, [Next]_vars
    PROVE  dpc' = "rollback" => lastExit' # "clean"
  <1> USE DEF files, saves, disk, main, history
  <1>0. TypeOK /\ Disarmed
    BY UncrossedMeans
  <1>1. CASE CheckAndUpgrade("cli")
    <2>1. UNCHANGED <<dpc, lastExit>>
      BY <1>0, <1>1, CommandFrame
    <2>2. QED
      BY <1>0, <2>1 DEF Disarmed
  <1>2. CASE LoadState
    <2>1. /\ lastExit' = lastExit /\ dpc = "load" /\ dpc' = Verdict(st, build["daemon"])
          /\ build["daemon"] \in Builds
      BY <1>2, UncrossedMeans DEF LoadState
    <2>2. dpc' = "rollback" => ArmedFor(build["daemon"])
      BY <2>1, VerdictMeans DEF ArmedFor
    <2>3. QED
      BY <1>0, <2>1, <2>2 DEF Disarmed
  <1>3. CASE MainRemovesTarget
    BY <1>0, <1>3 DEF MainRemovesTarget, Disarmed
  <1>4. CASE (Daemon /\ ~LoadState /\ ~MainRemovesTarget) \/ Crash
    <2>1. CASE Boot \/ Restart
      BY <1>0, <2>1, RunBinaryTyped DEF Boot, Restart
    <2>2. CASE MarkStarted \/ ClearState \/ RemoveBackup \/ Rollback \/ StartupFails
      BY <2>2 DEF MarkStarted, ClearState, RemoveBackup, Rollback, StartupFails
    <2>3. CASE Terminate \/ MarkLoad \/ MarkSave \/ MarkFails \/ Exit \/ Crash
      BY <2>3 DEF Terminate, MarkLoad, MarkSave, MarkFails, Exit, Crash, Down
    <2>4. QED
      BY <1>4, <2>1, <2>2, <2>3 DEF Daemon, HandleStartup
  <1>5. CASE StartCLI \/ Publish \/ WindowPasses \/ UNCHANGED vars
    <2>1. UNCHANGED <<dpc, lastExit>>
      BY <1>5 DEF StartCLI, Publish, WindowPasses, vars
    <2>2. QED
      BY <1>0, <2>1 DEF Disarmed
  <1>6. QED
    BY <1>1, <1>2, <1>3, <1>4, <1>5, CommandAloneSteps

\* What a clean stop leaves.
LEMMA DisarmedStep ==
    ASSUME CommandAlone, Uncrossed, [Next]_vars, ~crossed'
    PROVE  Disarmed'
  <1> USE DEF files, saves, disk, main, history
  <1>0. /\ TypeOK /\ "cli" \in Upgraders /\ "cli" \in Processes /\ Disarmed
        /\ NoFile \notin Builds /\ CommandVerified
    BY UncrossedMeans
  <1>1. Armed(st') => (st' = st /\ ~PublishesState) \/ ArmedNow
    BY ArmedSources
  <1>2. dpc' = "rollback" => lastExit' # "clean"
    BY RollbackUnclean
  <1>3. CASE ArmedNow
    BY <1>2, <1>3 DEF ArmedNow, Disarmed
  <1>4. CASE ~Armed(st')
    BY <1>2, <1>4 DEF Disarmed, ArmedFor
  <1>5. CASE st' = st /\ ~PublishesState
    <2>1. CASE CheckAndUpgrade("cli")
      <3>0. UNCHANGED <<dpc, build, checked, lastExit>>
        BY <1>0, <2>1, CommandFrame
      <3>1. CASE FetchLatest("cli") \/ Download("cli") \/ Verify("cli") \/ CopyBinary("cli")
                 \/ Backup("cli") \/ Abandon("cli") \/ SaveState("cli")
        <4>1. bin' = bin /\ upc'["cli"] # "replace"
          <5>1. CASE SaveState("cli")
            BY <1>0, <1>5, <3>1, <5>1 DEF PublishesState, SaveState, TypeOK
          <5>2. CASE ~SaveState("cli")
            BY <1>0, <3>1, <5>2, CommandSteps DEF FetchLatest, Download, Verify, CopyBinary,
               Backup, Abandon
          <5>3. QED
            BY <5>1, <5>2
        <4>2. QED
          BY <1>0, <1>5, <3>0, <4>1 DEF Disarmed, ArmedFor, About
      <3>2. CASE Replace("cli")
        <4>1. upc["cli"] = "replace" /\ upc'["cli"] = "idle" /\ bin' = rel["cli"]
          BY <1>0, <3>2 DEF Replace, TypeOK, CommandVerified
        <4>2. QED
          BY <1>0, <1>5, <3>0, <4>1 DEF Disarmed, ArmedFor, About
      <3>3. CASE RemoveTarget("cli")
        <4>1. UNCHANGED <<upc, rel>> /\ bin' \in {bin, NoFile}
          BY <3>3 DEF RemoveTarget
        <4>2. QED
          BY <1>0, <1>5, <3>0, <4>1 DEF Disarmed, ArmedFor, About
      <3>4. QED
        BY <2>1, <3>1, <3>2, <3>3 DEF CheckAndUpgrade
    <2>2. CASE Daemon \/ Crash
      <3>0. upc'["cli"] = upc["cli"] /\ rel' = rel
        BY <1>0, <2>2, DaemonSparesCommand
      <3>1. CASE Boot
        <4>1. /\ UNCHANGED <<bin, lastExit>> /\ bin \in Builds /\ dpc = "down"
              /\ build'["daemon"] = bin /\ dpc' = "load"
          BY <1>0, <3>1, RunBinaryTyped DEF Boot, RunBinary
        <4>2. QED
          BY <1>0, <1>5, <3>0, <4>1 DEF Disarmed, ArmedFor, About
      <3>2. CASE Restart
        <4>1. lastExit' = "exec" /\ dpc' \in {"down", "load"}
          BY <1>0, <3>2, RunBinaryTyped DEF Restart
        <4>2. QED
          BY <4>1 DEF Disarmed
      <3>3. CASE HandleStartup \/ MainRemovesTarget \/ MarkFails
        <4>1. dpc' \notin {"down", "load"} /\ (dpc' = "exit" => ~checked')
          <5>1. CASE LoadState
            BY <5>1, VerdictMeans DEF LoadState
          <5>2. CASE ~LoadState
            BY <3>3, <5>2 DEF HandleStartup, MarkStarted, ClearState, RemoveBackup, Rollback,
               StartupFails, MainRemovesTarget, MarkFails
          <5>3. QED
            BY <5>1, <5>2
        <4>2. QED
          BY <1>2, <4>1 DEF Disarmed
      <3>4. CASE Terminate
        <4>1. dpc' \in {"mark", "exit"} /\ (dpc' = "exit" => ~checked')
          BY <3>4 DEF Terminate
        <4>2. QED
          BY <4>1 DEF Disarmed
      <3>5. CASE MarkLoad
        <4>1. UNCHANGED <<bin, build>> /\ Up /\ dpc' \in {"marksave", "exit"}
          BY <3>5 DEF MarkLoad, Up
        <4>2. dpc' = "exit" /\ Armed(st) => ~About(st, build["daemon"])
          BY <3>5 DEF MarkLoad, Armed
        <4>3. ArmedForDaemon
          BY UncrossedMeans
        <4>4. QED
          BY <1>0, <1>5, <3>0, <4>1, <4>2, <4>3 DEF Disarmed, ArmedForDaemon, ArmedFor, About
      <3>6. CASE MarkSave
        <4>1. dpc' # "exit" /\ dpc = "marksave" /\ dpc' = dpc
          BY <1>5, <3>6 DEF PublishesState, MarkSave
        <4>2. QED
          BY <4>1 DEF Disarmed
      <3>7. CASE Exit
        <4>1. /\ UNCHANGED <<bin, build>> /\ dpc' = "down" /\ dpc = "exit"
              /\ lastExit' = "clean" => checked
          BY <3>7 DEF Exit, Down
        <4>2. QED
          BY <1>0, <1>5, <3>0, <4>1 DEF Disarmed, ArmedFor, About
      <3>8. CASE Crash
        <4>1. dpc' = "down" /\ lastExit' = "crash"
          BY <3>8 DEF Crash, Down
        <4>2. QED
          BY <4>1 DEF Disarmed
      <3>9. QED
        BY <2>2, <3>1, <3>2, <3>3, <3>4, <3>5, <3>6, <3>7, <3>8 DEF Daemon
    <2>3. CASE StartCLI
      <3>1. UNCHANGED <<bin, dpc, checked, lastExit>> /\ upc'["cli"] = "fetch"
        BY <1>0, <2>3, CommandSteps DEF StartCLI
      <3>2. build'["daemon"] = build["daemon"]
        BY <1>0, <2>3, CommandWriters DEF StartCLI, TypeOK
      <3>3. QED
        BY <1>0, <1>5, <3>1, <3>2 DEF Disarmed, ArmedFor, About
    <2>4. CASE Publish \/ UNCHANGED vars
      <3>1. UNCHANGED <<bin, dpc, checked, lastExit, build, upc, rel>>
        BY <2>4 DEF Publish, vars
      <3>2. QED
        BY <1>0, <1>5, <3>1 DEF Disarmed, ArmedFor, About
    <2>5. CASE WindowPasses
      <3>1. ~Armed(st')
        BY <1>0, <2>5, AgedFields DEF WindowPasses, Armed, TypeOK
      <3>2. QED
        BY <1>2, <3>1 DEF Disarmed, ArmedFor
    <2>6. QED
      BY <2>1, <2>2, <2>3, <2>4, <2>5, CommandAloneSteps
  <1>6. QED
    BY <1>1, <1>3, <1>4, <1>5

\* In the first state nothing is under way.
LEMMA InitCommandInv == CommandAlone /\ Init => CommandInv
  <1> SUFFICES ASSUME CommandAlone, Init PROVE CommandInv
    OBVIOUS
  <1>0. /\ Processes = {"cli", "daemon"} /\ Writers = {"cli", "daemon", "main"}
        /\ ~Armed(NoFile) /\ NoFile \notin Builds /\ NoFile # Corrupt
    BY CommandWriters, NoStates, UpgradeAssumption DEF Contents
  <1>1. TypeOK /\ LoadedPresent /\ SavesOwned
    BY InitTyped
  <1>2. 1 \in Builds /\ Corrupt \notin Builds
    BY UpgradeAssumption DEF Builds
  <1>3. InstalledVerified /\ CommandVerified
    BY <1>0, <1>2 DEF Init, InstalledVerified, CommandVerified
  <1>4. Ascending
    BY <1>0, <1>2, NotAboveMeans DEF Init, Ascending, Up
  <1>5. ArmedTmp /\ ArmedForDaemon /\ Disarmed
    BY <1>0 DEF Init, ArmedTmp, ArmedForDaemon, Disarmed, ArmedFor
  <1>6. QED
    BY <1>1, <1>3, <1>4, <1>5 DEF CommandInv

\* Where only the command upgrades, what its saves and the daemon's have in
\* common, their temporary file, harms nothing as long as the two do not cross.
THEOREM CommandSafety == CommandAlone => (Spec => []CommandInv)
  <1> SUFFICES ASSUME CommandAlone PROVE Spec => []CommandInv
    OBVIOUS
  <1>1. CommandInv /\ [Next]_vars => CommandInv'
    <2> SUFFICES ASSUME CommandInv, [Next]_vars PROVE CommandInv'
      OBVIOUS
    <2>1. (TypeOK /\ LoadedPresent /\ SavesOwned)'
      BY NextTyped, NextLoaded DEF CommandInv
    <2>2. InstalledVerified' /\ CommandVerified'
      BY CommandVerifiedStep
    <2>3. (crossed \/ (Ascending /\ ArmedTmp /\ ArmedForDaemon /\ Disarmed))'
      <3>1. CASE crossed
        <4>1. crossed'
          BY <3>1, CrossedStays
        <4>2. QED
          BY <4>1
      <3>2. CASE Ascending /\ ArmedTmp /\ ArmedForDaemon /\ Disarmed
        <4>1. Uncrossed
          BY <3>2 DEF Uncrossed
        <4>2. ASSUME ~crossed' PROVE (Ascending /\ ArmedTmp /\ ArmedForDaemon /\ Disarmed)'
          BY <4>1, <4>2, AscendingStep, ArmedSources, ArmedForDaemonStep, DisarmedStep
        <4>3. QED
          BY <4>2
      <3>3. QED
        BY <3>1, <3>2 DEF CommandInv
    <2>4. QED
      BY <2>1, <2>2, <2>3 DEF CommandInv
  <1>2. QED
    BY InitCommandInv, <1>1, PTL DEF Spec

\* What the command installs is a published build, and a daemon that it
\* upgrades is not rolled back after a clean stop, unless the two have crossed
\* (service.go:218-234 and 332-341, commands_upgrade.go:35-97).
THEOREM CommandNoRollback ==
    CommandAlone => (Spec => [](NoRollbackAfterCleanStop /\ InstalledVerified))
  <1> SUFFICES ASSUME CommandAlone
               PROVE  Spec => [](NoRollbackAfterCleanStop /\ InstalledVerified)
    OBVIOUS
  <1>1. CommandInv => NoRollbackAfterCleanStop /\ InstalledVerified
    BY DEF CommandInv, Disarmed, NoRollbackAfterCleanStop
  <1>2. QED
    BY CommandSafety, <1>1, PTL
=============================================================================
