-------------------------- MODULE DaemonRun_proofs --------------------------
(***************************************************************************)
(* What DaemonRun keeps for every number of jobs, images and failed        *)
(* writes.  The order of the argument: types; who is inside the mutex, and *)
(* that the goroutines are started last; what is known of the status       *)
(* inside and outside the mutex; why the clean way out was taken.          *)
(***************************************************************************)
EXTENDS DaemonRun, TLAPS


LEMMA TypeInit == Init => TypeOK
  <1> SUFFICES ASSUME Init PROVE TypeOK
    OBVIOUS
  <1>1. status \in RuntimeStatus
    BY DEF Init, Started, RuntimeStatus
  <1>2. QED BY <1>1 DEF Init, TypeOK, Goroutines

Booleans ==
    /\ pidFile \in BOOLEAN /\ term \in BOOLEAN
    /\ runCancelled \in BOOLEAN /\ upgradeRequested \in BOOLEAN
    /\ checked \in BOOLEAN /\ runErr \in BOOLEAN /\ final \in BOOLEAN

\* A goroutine's steps in updateStatus keep the types.
LEMMA PublishType ==
    ASSUME TypeOK, NEW g \in Goroutines, Publish(g)
    PROVE  TypeOK'
  <1>1. CASE Lock(g)
    <2>1. status' \in RuntimeStatus
      BY <1>1 DEF TypeOK, Lock, RuntimeStatus
    <2>2. status.jobs \in Nat
      BY DEF TypeOK, RuntimeStatus
    <2>3. QED BY <1>1, <2>1, <2>2 DEF TypeOK, Lock, control, files, flags
  <1>2. CASE Snapshot(g)
    BY <1>2 DEF TypeOK, Snapshot, RuntimeStatus, control, files, flags
  <1>3. CASE WriteTmp(g)
    <2>1. status' \in RuntimeStatus
      BY <1>3 DEF TypeOK, WriteTmp, RuntimeStatus
    <2>2. QED BY <1>3, <2>1 DEF TypeOK, WriteTmp, control, flags
  <1>4. CASE Rename(g)
    BY <1>4 DEF TypeOK, Rename, Returns, control, flags
  <1>5. CASE WriteFails(g)
    <2>1. status' \in RuntimeStatus
      BY <1>5 DEF TypeOK, WriteFails, RuntimeStatus
    <2>2. QED BY <1>5, <2>1 DEF TypeOK, WriteFails, Returns, files, flags
  <1>6. QED BY <1>1, <1>2, <1>3, <1>4, <1>5 DEF Publish

LEMMA MainType == ASSUME TypeOK, RunMain PROVE TypeOK'
  <1> USE DEF TypeOK, Main, Goroutines
  <1>1. CASE Boots BY <1>1 DEF Boots, Steady, update, files, flags
  <1>2. CASE WritesPID BY <1>2 DEF WritesPID, update, files, flags
  <1>3. CASE FirstStatus
    <2>1. status' \in RuntimeStatus
      BY <1>3 DEF FirstStatus, Started, RuntimeStatus
    <2>2. QED BY <1>3, <2>1 DEF FirstStatus, update, files, flags
  <1>4. CASE HandleStartup
    <2>1. Booleans' BY <1>4, Zenon DEF HandleStartup, UpdateStatus, CallsNothing, update, Booleans
    <2>2. QED BY <1>4, <2>1 DEF HandleStartup, Booleans, UpdateStatus, CallsNothing, update, files
  <1>5. CASE StartClient BY <1>5 DEF StartClient, update, files, flags
  <1>6. CASE OtherHook BY <1>6 DEF OtherHook, UpdateStatus, files, flags
  <1>7. CASE OnJobResult BY <1>7 DEF OnJobResult, UpdateStatus, files, flags
  <1>8. CASE ClientReturns
    <2>1. Booleans' BY <1>8, Zenon DEF ClientReturns, UpdateStatus, CallsNothing, update, Booleans
    <2>2. QED BY <1>8, <2>1 DEF ClientReturns, Booleans, UpdateStatus, CallsNothing, update, files
  <1>9. CASE CancelsRun BY <1>9 DEF CancelsRun, update, files
  <1>10. CASE JoinsTicker BY <1>10 DEF JoinsTicker, Steady, update, files, flags
  <1>11. CASE Decides BY <1>11 DEF Decides, UpdateStatus, CallsNothing, update, files, flags
  <1>12. CASE MarkCleanShutdown
    BY <1>12 DEF MarkCleanShutdown, UpdateStatus, CallsNothing, update, files, flags
  <1>13. CASE FinalStatus BY <1>13 DEF FinalStatus, files, flags
  <1>14. CASE RemovesPID
    <2>1. Booleans' BY <1>14, Zenon DEF RemovesPID, update, flags, Booleans
    <2>2. QED BY <1>14, <2>1 DEF RemovesPID, Booleans, update, files
  <1>15. CASE ReturnsError BY <1>15 DEF ReturnsError, Steady, update, files, flags
  <1>16. CASE Restarts
    <2>1. Booleans' BY <1>16, Zenon DEF Restarts, FreshImage, Steady, update, flags, Booleans
    <2>2. QED BY <1>16, <2>1 DEF Restarts, Booleans, FreshImage, Steady, update, files, flags
  <1>17. QED
    BY <1>1, <1>2, <1>3, <1>4, <1>5, <1>6, <1>7, <1>8, <1>9, <1>10, <1>11, <1>12, <1>13, <1>14,
       <1>15, <1>16 DEF RunMain

\* The steps of the ticker, of the upgrader and of the operating system.
Others == Tick \/ TickerStops \/ ChecksUpgrade \/ UpgradeChecked \/ RequestsUpgrade
            \/ UpgraderCancelsRun \/ UpgraderStops \/ Signal

LEMMA OthersType == ASSUME TypeOK, Others PROVE TypeOK'
  <1> USE DEF TypeOK, Goroutines, Upgrader, Free, Unflagged, CallsNothing
  <1>1. CASE Tick BY <1>1 DEF Tick, UpdateStatus, control, files, flags
  <1>2. CASE TickerStops BY <1>2 DEF TickerStops, update, files, flags
  <1>3. CASE ChecksUpgrade BY <1>3 DEF ChecksUpgrade, update, files, flags
  <1>4. CASE UpgradeChecked BY <1>4 DEF UpgradeChecked, UpdateStatus, update, files, flags
  <1>5. CASE RequestsUpgrade BY <1>5 DEF RequestsUpgrade, update, files
  <1>6. CASE UpgraderCancelsRun BY <1>6 DEF UpgraderCancelsRun, update, files
  <1>7. CASE UpgraderStops BY <1>7 DEF UpgraderStops, update, files, flags
  <1>8. CASE Signal
    <2>1. Booleans' BY <1>8, Zenon DEF Signal, update, flags, Booleans
    <2>2. QED BY <1>8, <2>1 DEF Signal, Booleans, update, files, flags
  <1>9. QED BY <1>1, <1>2, <1>3, <1>4, <1>5, <1>6, <1>7, <1>8 DEF Others

\* Every variable keeps its type.
THEOREM TypeCorrect == Spec => []TypeOK
  <1>1. TypeOK /\ [Next]_vars => TypeOK'
    <2> SUFFICES ASSUME TypeOK, [Next]_vars PROVE TypeOK'
      OBVIOUS
    <2>1. CASE UNCHANGED vars
      BY <2>1 DEF TypeOK, vars, control, update, files, flags
    <2>2. ASSUME NEW g \in Goroutines, Publish(g) PROVE TypeOK'
      BY <2>2, PublishType
    <2>3. CASE RunMain BY <2>3, MainType
    <2>4. CASE Others BY <2>4, OthersType
    <2>5. QED BY <2>1, <2>2, <2>3, <2>4 DEF Next, Others
  <1>2. QED BY <1>1, TypeInit, PTL DEF Spec

-----------------------------------------------------------------------------
(* The mutex, and the order in which the goroutines are started.           *)

Inside(g) == upd[g] \in {"locked", "snapped", "written"}

Early == {"exec", "boot", "first", "check", "factory"}

MutexInv ==
    /\ \A g \in Goroutines : Inside(g) => lock = g
    /\ main \in Early =>
         /\ ticker = "none" /\ upgrader = "none"
         /\ upd["ticker"] = "none" /\ upd["upgrader"] = "none"
    /\ main \in {"exec", "boot", "first"} => upd["main"] = "none"
    /\ final => main \in {"rmpid", "return", "gone"}
    /\ \A g \in Goroutines : upd[g] = "written" => tmpFile = status

LEMMA PublishMutex ==
    ASSUME TypeOK, MutexInv, NEW g \in Goroutines, Publish(g)
    PROVE  MutexInv'
  <1> USE DEF MutexInv, Inside, Early, TypeOK
  <1>0. "main" \in Goroutines /\ "ticker" \in Goroutines /\ "upgrader" \in Goroutines
    BY DEF Goroutines
  <1>1. CASE Lock(g)
    <2>1. \A h \in Goroutines : ~Inside(h)
      BY <1>1, DaemonRunAssumption DEF Lock, Goroutines
    <2>2. \A h \in Goroutines : h # g => upd'[h] = upd[h]
      BY <1>1 DEF Lock
    <2>3. /\ upd[g] = "want" /\ upd'[g] \in {"locked", "snapped"} /\ lock' = g
          /\ UNCHANGED <<main, ticker, upgrader, final, tmpFile>>
      BY <1>1 DEF Lock, control, files
    <2>4. QED BY <1>0, <2>1, <2>2, <2>3 DEF Goroutines
  <1>2. CASE Snapshot(g)
    BY <1>2, <1>0 DEF Snapshot, control, files, Goroutines
  <1>3. CASE WriteTmp(g)
    BY <1>3, <1>0 DEF WriteTmp, control, Goroutines
  <1>4. CASE Rename(g)
    BY <1>4, <1>0 DEF Rename, Returns, control, Goroutines
  <1>5. CASE WriteFails(g)
    BY <1>5, <1>0 DEF WriteFails, Returns, files, Goroutines
  <1>6. QED BY <1>1, <1>2, <1>3, <1>4, <1>5 DEF Publish

LEMMA MainMutex == ASSUME TypeOK, MutexInv, RunMain PROVE MutexInv'
  <1> USE DEF TypeOK, MutexInv, Inside, Early, Main, Goroutines
  <1>1. CASE Boots BY <1>1 DEF Boots, Steady, update, files, flags
  <1>2. CASE WritesPID BY <1>2 DEF WritesPID, update, files, flags
  <1>3. CASE FirstStatus BY <1>3 DEF FirstStatus, update, files, flags
  <1>4. CASE HandleStartup BY <1>4 DEF HandleStartup, UpdateStatus, CallsNothing, update, files
  <1>5. CASE StartClient BY <1>5 DEF StartClient, update, files, flags
  <1>6. CASE OtherHook BY <1>6 DEF OtherHook, UpdateStatus, files, flags
  <1>7. CASE OnJobResult BY <1>7 DEF OnJobResult, UpdateStatus, files, flags
  <1>8. CASE ClientReturns BY <1>8 DEF ClientReturns, UpdateStatus, CallsNothing, update, files
  <1>9. CASE CancelsRun BY <1>9 DEF CancelsRun, update, files
  <1>10. CASE JoinsTicker BY <1>10 DEF JoinsTicker, Steady, update, files, flags
  <1>11. CASE Decides BY <1>11 DEF Decides, UpdateStatus, CallsNothing, update, files, flags
  <1>12. CASE MarkCleanShutdown
    BY <1>12 DEF MarkCleanShutdown, UpdateStatus, CallsNothing, update, files, flags
  <1>13. CASE FinalStatus BY <1>13 DEF FinalStatus, files, flags
  <1>14. CASE RemovesPID BY <1>14 DEF RemovesPID, update, files, flags
  <1>15. CASE ReturnsError BY <1>15 DEF ReturnsError, Steady, update, files, flags
  <1>16. CASE Restarts
    BY <1>16 DEF Restarts, FreshImage, Steady, update, files, flags
  <1>17. QED
    BY <1>1, <1>2, <1>3, <1>4, <1>5, <1>6, <1>7, <1>8, <1>9, <1>10, <1>11, <1>12, <1>13, <1>14,
       <1>15, <1>16 DEF RunMain

LEMMA OthersMutex == ASSUME TypeOK, MutexInv, Others PROVE MutexInv'
  <1> USE DEF TypeOK, MutexInv, Inside, Early, Goroutines, Upgrader, Free, Unflagged,
              CallsNothing
  <1>1. CASE Tick BY <1>1 DEF Tick, UpdateStatus, control, files, flags
  <1>2. CASE TickerStops BY <1>2 DEF TickerStops, update, files, flags
  <1>3. CASE ChecksUpgrade BY <1>3 DEF ChecksUpgrade, update, files, flags
  <1>4. CASE UpgradeChecked BY <1>4 DEF UpgradeChecked, UpdateStatus, update, files, flags
  <1>5. CASE RequestsUpgrade BY <1>5 DEF RequestsUpgrade, update, files
  <1>6. CASE UpgraderCancelsRun BY <1>6 DEF UpgraderCancelsRun, update, files
  <1>7. CASE UpgraderStops BY <1>7 DEF UpgraderStops, update, files, flags
  <1>8. CASE Signal BY <1>8 DEF Signal, update, files, flags
  <1>9. QED BY <1>1, <1>2, <1>3, <1>4, <1>5, <1>6, <1>7, <1>8 DEF Others

LEMMA MutexStep == TypeOK /\ MutexInv /\ [Next]_vars => MutexInv'
  <1> SUFFICES ASSUME TypeOK, MutexInv, [Next]_vars PROVE MutexInv'
    OBVIOUS
  <1>1. CASE UNCHANGED vars
    BY <1>1 DEF MutexInv, Inside, vars, control, update, files, flags
  <1>2. ASSUME NEW g \in Goroutines, Publish(g) PROVE MutexInv'
    BY <1>2, PublishMutex
  <1>3. CASE RunMain BY <1>3, MainMutex
  <1>4. CASE Others BY <1>4, OthersMutex
  <1>5. QED BY <1>1, <1>2, <1>3, <1>4 DEF Next, Others

\* At most one goroutine is inside updateStatus, and a goroutine about to
\* rename status.json.tmp finds there the status that is in memory.
THEOREM RenamesItsOwnAlways == Spec => []RenamesItsOwn
  <1>1. Init => MutexInv
    BY DEF Init, MutexInv, Inside, Goroutines
  <1>2. MutexInv => RenamesItsOwn
    BY DEF MutexInv, RenamesItsOwn
  <1>3. QED BY <1>1, <1>2, MutexStep, TypeCorrect, PTL DEF Spec

-----------------------------------------------------------------------------
(* Why main takes the clean way out.  Either the flag is set before runCtx *)
(* is cancelled by the upgrader, or a signal cancelled it.                 *)

ExitInv ==
    /\ upgrader = "cancel" => upgradeRequested
    /\ runCancelled /\ main \in Early \cup {"serve", "returned"} => upgradeRequested
    /\ main \in {"returned", "join", "decide"} => term \/ upgradeRequested \/ runErr
    /\ main \in {"mark", "final", "rmpid"} => term

LEMMA ExitStep == TypeOK /\ MutexInv /\ ExitInv /\ [Next]_vars => ExitInv'
  <1> SUFFICES ASSUME TypeOK, MutexInv, ExitInv, [Next]_vars PROVE ExitInv'
    OBVIOUS
  <1> USE DEF ExitInv, Early
  <1>1. CASE UNCHANGED vars
    BY <1>1 DEF vars, control, flags
  <1>2. ASSUME NEW g \in Goroutines, Publish(g) PROVE ExitInv'
    <2>1. UNCHANGED <<upgrader, term, flags>> /\ main' \in {main, "return"}
      BY <1>2 DEF Publish, Lock, Snapshot, WriteTmp, Rename, WriteFails, control
    <2>2. QED BY <2>1 DEF flags
  <1>3. CASE RunMain
    <2> USE DEF Main
    <2>1. CASE FirstStatus BY <2>1 DEF FirstStatus, flags
    <2>2. CASE HandleStartup BY <2>2 DEF HandleStartup
    <2>3. CASE StartClient BY <2>3 DEF StartClient, flags
    <2>4. CASE ClientReturns BY <2>4 DEF ClientReturns, RunDone
    <2>5. CASE CancelsRun BY <2>5 DEF CancelsRun
    <2>6. CASE Decides BY <2>6 DEF Decides, flags
    <2>7. CASE Restarts BY <2>7 DEF Restarts, FreshImage, Steady, flags
    <2>8. CASE Boots \/ WritesPID \/ OtherHook \/ OnJobResult
      BY <2>8 DEF Boots, WritesPID, OtherHook, OnJobResult, Steady, flags
    <2>9. CASE JoinsTicker \/ MarkCleanShutdown \/ FinalStatus \/ RemovesPID \/ ReturnsError
      BY <2>9 DEF JoinsTicker, MarkCleanShutdown, FinalStatus, RemovesPID, ReturnsError, Steady,
                  flags
    <2>10. QED
      BY <1>3, <2>1, <2>2, <2>3, <2>4, <2>5, <2>6, <2>7, <2>8, <2>9 DEF RunMain
  <1>4. CASE Others
    <2> USE DEF Upgrader, Free, Unflagged
    <2>1. CASE Tick \/ TickerStops
      BY <2>1 DEF Tick, TickerStops, control, flags
    <2>2. CASE ChecksUpgrade \/ UpgradeChecked \/ UpgraderStops
      BY <2>2 DEF ChecksUpgrade, UpgradeChecked, UpgraderStops, flags
    <2>3. CASE RequestsUpgrade BY <2>3 DEF RequestsUpgrade
    <2>4. CASE UpgraderCancelsRun BY <2>4 DEF UpgraderCancelsRun
    <2>5. CASE Signal BY <2>5 DEF Signal, flags
    <2>6. QED BY <1>4, <2>1, <2>2, <2>3, <2>4, <2>5 DEF Others
  <1>5. QED BY <1>1, <1>2, <1>3, <1>4 DEF Next, Others

\* MarkCleanShutdown and the final status follow a signal only, never an
\* upgrade that was installed and not yet announced.
THEOREM NoUnaskedExitAlways == Spec => []NoUnaskedExit
  <1>1. Init => MutexInv /\ ExitInv
    BY DEF Init, MutexInv, Inside, Goroutines, ExitInv
  <1>2. ExitInv => NoUnaskedExit
    BY DEF ExitInv, NoUnaskedExit
  <1>3. QED BY <1>1, <1>2, MutexStep, ExitStep, TypeCorrect, PTL DEF Spec
-----------------------------------------------------------------------------
(* The status in memory, in its file and in the hands of a goroutine.      *)

Unborn == {"exec", "boot", "first"}
Begun == main \notin Unborn \cup {"gone"}

\* A result has been counted and main has yet to publish it.
Owes == upd["main"] \in {"want", "locked", "snapped"} /\ ~final

Waits == upd["main"] = "want" /\ ~final

\* The file is of this image.
Current == statusFile # NoFile /\ statusFile.started = image

FileInv ==
    /\ statusFile # NoFile => statusFile.started <= image
    /\ main \in Unborn => metrics = 0 /\ ~Current

StatusInv ==
    Begun =>
      /\ status.started = image
      /\ status.jobs <= metrics
      /\ ~Owes => status.jobs = metrics
      /\ \A g \in Goroutines : upd[g] = "snapped" =>
            /\ status.jobs <= snap[g] /\ snap[g] <= metrics
            /\ ~Waits => snap[g] = metrics
      /\ \A g \in Goroutines : upd[g] = "written" => snap[g] = status.jobs
      /\ Current => /\ statusFile.jobs <= status.jobs
                    /\ ~statusFile.running => ~status.running

FinalInv ==
    main = "rmpid" =>
      /\ final /\ upd["main"] # "locked"
      /\ upd["main"] # "want" => ~status.running
      /\ upd["main"] = "none" => /\ statusFile # NoFile /\ ~statusFile.running
                                 /\ statusFile.jobs = metrics

CountInv == FileInv /\ StatusInv /\ FinalInv

\* What the steps inside the mutex do, field by field.
LEMMA RecordFacts ==
    ASSUME TypeOK
    PROVE  /\ status.started \in Nat /\ status.jobs \in Nat /\ status.running \in BOOLEAN
           /\ statusFile # NoFile => /\ statusFile.started \in Nat /\ statusFile.jobs \in Nat
                                     /\ statusFile.running \in BOOLEAN
           /\ metrics \in Nat /\ image \in Nat
           /\ upd \in [Goroutines -> {"none", "want", "locked", "snapped", "written"}]
           /\ snap \in [Goroutines -> Nat]
           /\ status # NoFile
  <1>1. statusFile # NoFile => statusFile \in RuntimeStatus
    BY DEF TypeOK
  <1>2. status # NoFile
    BY NoFileAssumption DEF TypeOK
  <1>3. upd \in [Goroutines -> {"none", "want", "locked", "snapped", "written"}]
    BY DEF TypeOK
  <1>4. status.started \in Nat /\ status.jobs \in Nat /\ status.running \in BOOLEAN
    BY DEF TypeOK, RuntimeStatus
  <1>5. statusFile # NoFile => /\ statusFile.started \in Nat /\ statusFile.jobs \in Nat
                              /\ statusFile.running \in BOOLEAN
    BY <1>1 DEF RuntimeStatus
  <1>6. metrics \in Nat /\ image \in Nat /\ snap \in [Goroutines -> Nat]
    BY DEF TypeOK
  <1>7. QED BY <1>2, <1>3, <1>4, <1>5, <1>6

LEMMA LockCount ==
    ASSUME TypeOK, MutexInv, CountInv, NEW g \in Goroutines, Lock(g)
    PROVE  CountInv'
  <1>1. /\ upd[g] = "want" /\ lock = NoOne
        /\ UNCHANGED <<main, final, metrics, statusFile, image>>
    BY DEF Lock, control, files
  <1>2. \A h \in Goroutines : upd[h] \notin {"locked", "snapped", "written"}
    BY <1>1, DaemonRunAssumption DEF MutexInv, Inside, Goroutines
  <1>3. CASE g = "main" /\ final
    <2>1. /\ upd' = [upd EXCEPT ![g] = "snapped"] /\ snap' = [snap EXCEPT ![g] = status.jobs]
          /\ status'.jobs = status.jobs /\ status'.started = status.started
          /\ status'.running = FALSE
      BY <1>3 DEF Lock, TypeOK, RuntimeStatus
    <2>2. /\ upd'["main"] = "snapped" /\ snap'["main"] = status.jobs
          /\ \A h \in Goroutines : upd'[h] = "snapped" => h = "main"
          /\ \A h \in Goroutines : upd'[h] # "written"
      BY <1>2, <1>3, <2>1, RecordFacts DEF Goroutines
    <2>3. FileInv' BY <1>1 DEF CountInv, FileInv, Current
    <2>4. StatusInv'
      BY <1>1, <1>3, <2>1, <2>2, RecordFacts
         DEF CountInv, StatusInv, Begun, Unborn, Owes, Waits, Current, Goroutines
    <2>5. FinalInv'
      BY <1>1, <1>3, <2>1, <2>2 DEF CountInv, FinalInv
    <2>6. QED BY <2>3, <2>4, <2>5 DEF CountInv
  <1>4. CASE ~(g = "main" /\ final)
    <2>1. upd' = [upd EXCEPT ![g] = "locked"] /\ UNCHANGED <<snap, status>>
      BY <1>4 DEF Lock
    <2>2. /\ \A h \in Goroutines : upd'[h] # "snapped" /\ upd'[h] # "written"
          /\ \A h \in Goroutines : h # g => upd'[h] = upd[h]
          /\ upd'[g] = "locked" /\ upd[g] = "want"
      BY <1>1, <1>2, <2>1, RecordFacts
    <2>3. FileInv' BY <1>1 DEF CountInv, FileInv, Current
    <2>4. Owes' = Owes
      BY <1>1, <1>4, <2>2 DEF Owes, Goroutines
    <2>5. StatusInv'
      BY <1>1, <2>1, <2>2, <2>4 DEF CountInv, StatusInv, Begun, Current
    <2>6. FinalInv'
      BY <1>1, <1>4, <2>1, <2>2 DEF CountInv, FinalInv, Goroutines
    <2>7. QED BY <2>3, <2>5, <2>6 DEF CountInv
  <1>5. QED BY <1>3, <1>4

LEMMA SnapshotCount ==
    ASSUME TypeOK, MutexInv, CountInv, NEW g \in Goroutines, Snapshot(g)
    PROVE  CountInv'
  <1>1. /\ upd[g] = "locked" /\ snap' = [snap EXCEPT ![g] = metrics]
        /\ upd' = [upd EXCEPT ![g] = "snapped"]
        /\ UNCHANGED <<main, final, status, metrics, statusFile, image>>
    BY DEF Snapshot, control, files
  <1>2. /\ upd'[g] = "snapped" /\ snap'[g] = metrics
        /\ \A h \in Goroutines : h # g => upd'[h] = upd[h] /\ snap'[h] = snap[h]
    BY <1>1, RecordFacts
  <1>3. Owes' = Owes /\ Waits' = Waits
    BY <1>1, <1>2 DEF Owes, Waits, Goroutines
  <1>4. FileInv' BY <1>1 DEF CountInv, FileInv, Current
  <1>5. StatusInv'
    BY <1>1, <1>2, <1>3, RecordFacts DEF CountInv, StatusInv, Begun, Current
  <1>6. FinalInv'
    BY <1>1, <1>2 DEF CountInv, FinalInv, Goroutines
  <1>7. QED BY <1>4, <1>5, <1>6 DEF CountInv

LEMMA WriteTmpCount ==
    ASSUME TypeOK, MutexInv, CountInv, NEW g \in Goroutines, WriteTmp(g)
    PROVE  CountInv'
  <1>1. /\ upd[g] = "snapped" /\ upd' = [upd EXCEPT ![g] = "written"]
        /\ status'.jobs = snap[g] /\ status'.started = status.started
        /\ status'.running = status.running
        /\ UNCHANGED <<main, final, snap, metrics, statusFile, image>>
    BY DEF WriteTmp, control, TypeOK, RuntimeStatus
  <1>2. /\ upd'[g] = "written"
        /\ \A h \in Goroutines : h # g => /\ upd'[h] = upd[h]
                                         /\ upd[h] \notin {"snapped", "written"}
    BY <1>1, RecordFacts DEF MutexInv, Inside
  <1>3. Waits' = Waits /\ (Owes' => Owes)
    BY <1>1, <1>2 DEF Owes, Waits, Goroutines
  <1>4. FileInv' BY <1>1 DEF CountInv, FileInv, Current
  <1>5. Begun /\ ~Owes' => status'.jobs = metrics
    BY <1>1, <1>2 DEF CountInv, StatusInv, Owes, Waits, Goroutines
  <1>6. StatusInv'
    BY <1>1, <1>2, <1>5, RecordFacts DEF CountInv, StatusInv, Begun, Current
  <1>7. FinalInv'
    BY <1>1, <1>2 DEF CountInv, FinalInv, Goroutines
  <1>8. QED BY <1>4, <1>6, <1>7 DEF CountInv
\* The rename: what was read before belongs to an older image or counts no
\* more than the status in memory.
LEMMA RenameCount ==
    ASSUME TypeOK, MutexInv, CountInv, NEW g \in Goroutines, Rename(g)
    PROVE  CountInv'
  <1>1. /\ upd[g] = "written" /\ upd' = [upd EXCEPT ![g] = "none"]
        /\ snap' = [snap EXCEPT ![g] = 0]
        /\ statusFile' = status
        /\ UNCHANGED <<main, final, status, metrics, image>>
    BY DEF Rename, Returns, control, MutexInv
  <1>2. Begun
    BY <1>1 DEF Rename, Alive, Begun, Unborn, MutexInv, Early, Goroutines
  <1>3. /\ upd'[g] = "none"
        /\ \A h \in Goroutines : h # g => /\ upd'[h] = upd[h] /\ snap'[h] = snap[h]
                                         /\ upd[h] \notin {"snapped", "written"}
    BY <1>1, RecordFacts DEF MutexInv, Inside
  <1>4. FileInv'
    BY <1>1, <1>2, RecordFacts DEF CountInv, FileInv, StatusInv, Current, Begun, Unborn
  <1>5. Owes' => Owes
    BY <1>1, <1>3 DEF Owes, Goroutines
  <1>6. Owes => Owes'
    BY <1>1, <1>3 DEF Owes, Goroutines
  <1>7. StatusInv'
    BY <1>1, <1>2, <1>3, <1>5, <1>6, RecordFacts DEF CountInv, StatusInv, Begun, Current
  <1>8. FinalInv'
    <2>1. ASSUME main = "rmpid", upd["main"] # "want"
          PROVE  ~status.running /\ status.jobs = metrics
      BY <1>1, <1>2, <1>3, <2>1, RecordFacts
         DEF CountInv, FinalInv, StatusInv, Owes, MutexInv, Inside, Goroutines
    <2>2. main = "rmpid" => upd'["main"] \in {"none", upd["main"]}
      BY <1>1, <1>3 DEF Goroutines
    <2>3. QED BY <1>1, <2>1, <2>2, RecordFacts DEF CountInv, FinalInv
  <1>9. QED BY <1>4, <1>7, <1>8 DEF CountInv

LEMMA WriteFailsCount ==
    ASSUME TypeOK, MutexInv, CountInv, NEW g \in Goroutines, WriteFails(g)
    PROVE  CountInv'
  <1>1. /\ upd[g] \in {"snapped", "written"} /\ upd' = [upd EXCEPT ![g] = "none"]
        /\ snap' = [snap EXCEPT ![g] = 0]
        /\ status'.jobs = snap[g] /\ status'.started = status.started
        /\ status'.running = status.running
        /\ UNCHANGED <<final, metrics, statusFile, image>>
        /\ main' = IF g = "main" /\ final THEN "return" ELSE main
    BY DEF WriteFails, Returns, files, TypeOK, RuntimeStatus
  <1>2. Begun /\ Begun'
    BY <1>1 DEF WriteFails, Alive, Begun, Unborn, MutexInv, Early, Goroutines
  <1>3. /\ upd'[g] = "none"
        /\ \A h \in Goroutines : h # g => /\ upd'[h] = upd[h] /\ snap'[h] = snap[h]
                                         /\ upd[h] \notin {"snapped", "written"}
    BY <1>1, RecordFacts DEF MutexInv, Inside
  <1>4. /\ status.jobs <= snap[g] /\ snap[g] <= metrics
        /\ ~Waits => snap[g] = metrics \/ (upd[g] = "written" /\ snap[g] = status.jobs)
    BY <1>1, <1>2, RecordFacts DEF CountInv, StatusInv
  <1>5. ~Owes' => status'.jobs = metrics
    BY <1>1, <1>2, <1>3, <1>4 DEF CountInv, StatusInv, Owes, Waits, Goroutines
  <1>6. FileInv' BY <1>1, <1>2 DEF CountInv, FileInv, Current, Begun
  <1>7. StatusInv'
    BY <1>1, <1>2, <1>3, <1>4, <1>5, RecordFacts DEF CountInv, StatusInv, Current
  <1>8. FinalInv'
    BY <1>1, <1>3, RecordFacts DEF CountInv, FinalInv, MutexInv, Goroutines
  <1>9. QED BY <1>6, <1>7, <1>8 DEF CountInv
LEMMA MainCount ==
    ASSUME TypeOK, MutexInv, CountInv, RunMain
    PROVE  CountInv'
  <1> USE DEF Main
  <1>0. /\ upd["main"] = "none"
        /\ main \in Early => \A g \in Goroutines : upd[g] = "none"
    BY DEF RunMain, Boots, WritesPID, FirstStatus, HandleStartup, StartClient, OtherHook,
           OnJobResult, ClientReturns, CancelsRun, JoinsTicker, Decides, MarkCleanShutdown,
           FinalStatus, RemovesPID, ReturnsError, Restarts, MutexInv, Goroutines
  <1>1. CASE FirstStatus
    <2>1. /\ main = "first" /\ main' \in {"check", "factory", "return"}
          /\ status' = Started(image)
          /\ statusFile' \in {statusFile, status'}
          /\ UNCHANGED <<upd, snap, final, metrics, image>>
      BY <1>1 DEF FirstStatus, files, update
    <2>2. metrics = 0 /\ ~Current
      BY <2>1 DEF CountInv, FileInv, Unborn
    <2>3. /\ status'.started = image /\ status'.jobs = 0 /\ status'.running = TRUE
      BY <2>1 DEF Started
    <2>4. FileInv'
      BY <2>1, <2>3, RecordFacts DEF CountInv, FileInv, Unborn, Current
    <2>5. StatusInv'
      BY <1>0, <2>1, <2>2, <2>3, RecordFacts DEF StatusInv, Current, Early
    <2>6. QED BY <2>1, <2>4, <2>5 DEF CountInv, FinalInv
  <1>2. CASE OnJobResult
    <2>1. /\ main = "serve" /\ main' = "serve" /\ metrics' = metrics + 1
          /\ upd' = [upd EXCEPT !["main"] = "want"]
          /\ UNCHANGED <<snap, final, status, statusFile, image>>
      BY <1>2 DEF OnJobResult, UpdateStatus, files
    <2>2. ~final
      BY <2>1 DEF MutexInv
    <2>3. /\ upd'["main"] = "want" /\ upd["main"] = "none"
          /\ \A g \in Goroutines : g # "main" => upd'[g] = upd[g]
      BY <1>0, <2>1, RecordFacts DEF Goroutines
    <2>4. Owes' /\ Waits' /\ ~Waits
      BY <2>1, <2>2, <2>3 DEF Owes, Waits
    <2>5. Begun /\ Begun'
      BY <2>1 DEF Begun, Unborn
    <2>6. FileInv' BY <2>1 DEF CountInv, FileInv, Current, Unborn
    <2>7. StatusInv'
      BY <2>1, <2>3, <2>4, <2>5, RecordFacts DEF CountInv, StatusInv, Current
    <2>8. QED BY <2>1, <2>6, <2>7 DEF CountInv, FinalInv
  <1>3. CASE FinalStatus
    <2>1. /\ main = "final" /\ main' = "rmpid"
          /\ upd' = [upd EXCEPT !["main"] = "want"] /\ final'
          /\ UNCHANGED <<snap, status, statusFile, metrics, image>>
      BY <1>3 DEF FinalStatus, files
    <2>2. /\ upd'["main"] = "want" /\ upd["main"] = "none"
          /\ \A g \in Goroutines : g # "main" => upd'[g] = upd[g]
      BY <1>0, <2>1, RecordFacts DEF Goroutines
    <2>3. ~Owes /\ ~Owes' /\ ~Waits /\ ~Waits' /\ Begun /\ Begun'
      BY <2>1, <2>2 DEF Owes, Waits, Begun, Unborn
    <2>4. FileInv' BY <2>1 DEF CountInv, FileInv, Current, Unborn
    <2>5. StatusInv'
      BY <2>1, <2>2, <2>3 DEF CountInv, StatusInv, Current
    <2>6. QED BY <2>1, <2>2, <2>4, <2>5 DEF CountInv, FinalInv
  <1>4. CASE Restarts /\ main' = "exec"
    <2>1. image' = image + 1 /\ metrics' = 0 /\ UNCHANGED statusFile
      BY <1>4 DEF Restarts, FreshImage, files
    <2>2. QED
      BY <1>4, <2>1, RecordFacts
         DEF CountInv, FileInv, StatusInv, FinalInv, Begun, Unborn, Current
  <1>5. CASE Boots \/ WritesPID
    BY <1>5 DEF Boots, WritesPID, Steady, update, files, CountInv, FileInv, StatusInv, FinalInv,
                Begun, Unborn, Current
  <1>6. CASE RemovesPID \/ ReturnsError
    BY <1>6 DEF RemovesPID, ReturnsError, Steady, update, files, CountInv, FileInv, StatusInv,
                FinalInv, Begun, Unborn, Current
  <1>7. ASSUME HandleStartup \/ StartClient \/ OtherHook \/ ClientReturns \/ CancelsRun
                 \/ JoinsTicker \/ Decides \/ MarkCleanShutdown
                 \/ (Restarts /\ main' # "exec")
        PROVE  CountInv'
    <2>1. /\ main \notin Unborn \cup {"rmpid", "return", "gone"}
          /\ main' \notin Unborn \cup {"rmpid", "gone"}
          /\ UNCHANGED <<snap, final, status, statusFile, metrics, image>>
          /\ upd' \in {upd, [upd EXCEPT !["main"] = "want"]}
      BY <1>7 DEF HandleStartup, StartClient, OtherHook, ClientReturns, CancelsRun, JoinsTicker,
           Decides, MarkCleanShutdown, Restarts, Steady, UpdateStatus, CallsNothing, update, files,
           Unborn
    <2>2. /\ \A g \in Goroutines : upd'[g] = upd[g] \/ upd'[g] = "want"
          /\ upd["main"] = "none"
      BY <1>0, <2>1, RecordFacts
    <2>3. FileInv' BY <2>1 DEF CountInv, FileInv, Current
    <2>4. Begun /\ ~Owes /\ ~Waits
      BY <2>1, <2>2 DEF Begun, Owes, Waits
    <2>5. StatusInv'
      BY <2>1, <2>2, <2>4 DEF CountInv, StatusInv, Current
    <2>6. QED BY <2>1, <2>3, <2>5 DEF CountInv, FinalInv
  <1>8. QED
    BY <1>1, <1>2, <1>3, <1>4, <1>5, <1>6, <1>7 DEF RunMain
LEMMA OthersCount ==
    ASSUME TypeOK, MutexInv, CountInv, Others
    PROVE  CountInv'
  <1>0. /\ UNCHANGED <<snap, final, status, statusFile, metrics, image>>
        /\ main' # main => main' = "gone"
        /\ upd' \in {upd, [upd EXCEPT !["ticker"] = "want"], [upd EXCEPT !["upgrader"] = "want"]}
    <2> USE DEF Upgrader, Free, Unflagged, CallsNothing
    <2>1. CASE Tick BY <2>1 DEF Tick, UpdateStatus, control, files
    <2>2. CASE TickerStops BY <2>2 DEF TickerStops, update, files
    <2>3. CASE ChecksUpgrade BY <2>3 DEF ChecksUpgrade, update, files
    <2>4. CASE UpgraderStops BY <2>4 DEF UpgraderStops, update, files
    <2>5. CASE UpgradeChecked BY <2>5 DEF UpgradeChecked, UpdateStatus, update, files
    <2>6. CASE RequestsUpgrade BY <2>6 DEF RequestsUpgrade, update, files
    <2>7. CASE UpgraderCancelsRun BY <2>7 DEF UpgraderCancelsRun, update, files
    <2>8. CASE Signal BY <2>8 DEF Signal, update, files
    <2>9. QED BY <2>1, <2>2, <2>3, <2>4, <2>5, <2>6, <2>7, <2>8 DEF Others
  <1>1. /\ upd'["main"] = upd["main"]
        /\ \A g \in Goroutines : upd'[g] = upd[g] \/ upd'[g] = "want"
    BY <1>0, RecordFacts DEF Goroutines
  <1>2. Owes' = Owes /\ Waits' = Waits
    BY <1>0, <1>1 DEF Owes, Waits
  <1>3. FileInv' BY <1>0 DEF CountInv, FileInv, Current, Unborn
  <1>4. StatusInv'
    BY <1>0, <1>1, <1>2 DEF CountInv, StatusInv, Begun, Unborn, Current
  <1>5. FinalInv' BY <1>0, <1>1 DEF CountInv, FinalInv
  <1>6. QED BY <1>3, <1>4, <1>5 DEF CountInv

LEMMA CountStep == TypeOK /\ MutexInv /\ CountInv /\ [Next]_vars => CountInv'
  <1> SUFFICES ASSUME TypeOK, MutexInv, CountInv, [Next]_vars PROVE CountInv'
    OBVIOUS
  <1>1. CASE UNCHANGED vars
    BY <1>1 DEF CountInv, FileInv, StatusInv, FinalInv, Begun, Owes, Waits, Current,
                vars, control, update, files, flags
  <1>2. ASSUME NEW g \in Goroutines, Publish(g) PROVE CountInv'
    BY <1>2, LockCount, SnapshotCount, WriteTmpCount, RenameCount, WriteFailsCount DEF Publish
  <1>3. CASE RunMain BY <1>3, MainCount
  <1>4. CASE Others BY <1>4, OthersCount
  <1>5. QED BY <1>1, <1>2, <1>3, <1>4 DEF Next, Others

\* The status file is written by a rename only, or by main before the other
\* goroutines exist.
LEMMA FileStep ==
    ASSUME TypeOK, MutexInv, CountInv, [Next]_vars, statusFile' # statusFile
    PROVE  \/ Begun /\ statusFile' = status
           \/ ~Current /\ statusFile'.started = image
  <1>1. CASE FirstStatus
    <2>1. main = "first" /\ statusFile' = Started(image)
      BY <1>1 DEF FirstStatus, Main, files
    <2>2. ~Current
      BY <2>1 DEF CountInv, FileInv, Unborn
    <2>3. QED BY <2>1, <2>2 DEF Started
  <1>2. ASSUME NEW g \in Goroutines, Rename(g) PROVE Begun /\ statusFile' = status
    BY <1>2 DEF Rename, Alive, Begun, Unborn, MutexInv, Early, Goroutines
  <1>3. CASE RunMain /\ ~FirstStatus
    BY <1>3 DEF RunMain, Boots, WritesPID, HandleStartup, StartClient, OtherHook, OnJobResult,
       ClientReturns, CancelsRun, JoinsTicker, Decides, MarkCleanShutdown, FinalStatus,
       RemovesPID, ReturnsError, Restarts, Steady, UpdateStatus, CallsNothing, files
  <1>4. ASSUME NEW g \in Goroutines, Publish(g), ~Rename(g) PROVE FALSE
    BY <1>4 DEF Publish, Lock, Snapshot, WriteTmp, WriteFails, files
  <1>5. CASE Others
    BY <1>5 DEF Others, Tick, TickerStops, ChecksUpgrade, UpgradeChecked, RequestsUpgrade,
       UpgraderCancelsRun, UpgraderStops, Signal, Upgrader, Unflagged, CallsNothing, UpdateStatus,
       files
  <1>6. CASE UNCHANGED vars BY <1>6 DEF vars, files
  <1>7. QED BY <1>1, <1>2, <1>3, <1>4, <1>5, <1>6 DEF Next, Others

AllInv == TypeOK /\ MutexInv /\ CountInv

LEMMA AllInvAlways == Spec => []AllInv
  <1>1. Init => MutexInv /\ CountInv
    BY DEF Init, MutexInv, Inside, Goroutines, CountInv, FileInv, StatusInv, FinalInv, Begun,
           Unborn, Current
  <1>2. QED BY <1>1, MutexStep, CountStep, TypeCorrect, PTL DEF Spec, AllInv

\* A counter in status.json never goes back while the same image runs.
THEOREM CountersNeverDecreaseAlways == Spec => CountersNeverDecrease
  <1>1. AllInv /\ [Next]_vars =>
          [statusFile # NoFile /\ statusFile'.started = statusFile.started
             => statusFile'.jobs >= statusFile.jobs]_statusFile
    <2> SUFFICES ASSUME AllInv, [Next]_vars, statusFile' # statusFile, statusFile # NoFile,
                        statusFile'.started = statusFile.started
                 PROVE  statusFile'.jobs >= statusFile.jobs
      OBVIOUS
    <2>1. Begun /\ statusFile' = status /\ Current
      BY FileStep DEF AllInv, Current, CountInv, StatusInv
    <2>2. QED BY <2>1, RecordFacts DEF AllInv, CountInv, StatusInv
  <1>2. QED BY <1>1, AllInvAlways, PTL DEF Spec, CountersNeverDecrease

\* Once the file says that the daemon stopped, no goroutine of the same
\* image publishes otherwise.
THEOREM StoppedStaysStoppedAlways == Spec => StoppedStaysStopped
  <1>1. AllInv /\ [Next]_vars =>
          [statusFile # NoFile /\ statusFile'.started = statusFile.started /\ ~statusFile.running
             => ~statusFile'.running]_statusFile
    <2> SUFFICES ASSUME AllInv, [Next]_vars, statusFile' # statusFile, statusFile # NoFile,
                        statusFile'.started = statusFile.started, ~statusFile.running
                 PROVE  ~statusFile'.running
      OBVIOUS
    <2>1. Begun /\ statusFile' = status /\ Current
      BY FileStep DEF AllInv, Current, CountInv, StatusInv
    <2>2. QED BY <2>1 DEF AllInv, CountInv, StatusInv
  <1>2. QED BY <1>1, AllInvAlways, PTL DEF Spec, StoppedStaysStopped

\* A daemon that ends the clean way has published every job it counted.
THEOREM FinalCountsAlways == Spec => []FinalCounts
  <1>1. AllInv => FinalCounts
    BY DEF AllInv, CountInv, FinalInv, FinalCounts
  <1>2. QED BY <1>1, AllInvAlways, PTL
=============================================================================
