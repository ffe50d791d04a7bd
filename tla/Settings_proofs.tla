--------------------------- MODULE Settings_proofs ---------------------------
(***************************************************************************)
(* What Settings keeps for any number of shells, keys, saves and daemons.  *)
(* The emails need the types only.  For the settings, an invariant of the  *)
(* files says that, until two commands have been inside Save at once, only *)
(* one shell can touch the temporary file and nobody touches the published *)
(* one.  For auth, another says which daemons there can be at each step of *)
(* its restart, and what they have read.                                   *)
(***************************************************************************)
EXTENDS Settings, TLAPS

LEMMA FreshType ==
    ASSUME NEW k \in Keys, NEW e \in {NoEmail, Owner[k]}
    PROVE  Fresh(k, e) \in Config /\ Matches(Fresh(k, e)) /\ Fresh(k, e).settings = "default"
  BY SettingsAssumption DEF Fresh, Config, Matches

LEMMA ChangedType ==
    ASSUME NEW old \in Config, NEW k \in Keys, NEW e \in {NoEmail, Owner[k]}, Matches(old)
    PROVE  /\ Changed(old, k, e) \in Config /\ Matches(Changed(old, k, e))
           /\ Changed(old, k, e).settings = old.settings
  BY SettingsAssumption DEF Changed, Config, Matches

\* A command that goes on to Save has a configuration in its memory.
Loaded == \A s \in Shells : pc[s] \in {"ask", "open", "write", "rename"} => cfg[s] \in Config

\* The types and the emails are one induction: no action looks at anything
\* else to keep them.
TypeInv == TypeOK /\ EmailMatchesKey /\ Loaded

LEMMA TypeInit == Init => TypeInv
  <1> SUFFICES ASSUME Init PROVE TypeInv
    OBVIOUS
  <1> PICK c \in {Torn} \cup {d \in Config : Matches(d)} :
              disk = [i \in Inodes |-> IF i = config THEN c ELSE Empty]
    BY DEF Init
  <1>1. disk \in [Inodes -> Content] /\ \A i \in Inodes : disk[i] \in Config => Matches(disk[i])
    BY ContentAssumption DEF Content
  <1>2. daemon \in [Pids -> [at : {"free", "boot", "loaded", "up", "dead"}, read : Nat]]
    BY DEF Init, Unstarted
  <1>3. QED BY <1>1, <1>2, ContentAssumption DEF Init, TypeInv, TypeOK, EmailMatchesKey, Loaded

LEMMA PublishedType ==
    ASSUME TypeInv, ~Unreadable
    PROVE  Published \in Config /\ Matches(Published) /\ config \in Inodes
  BY ContentAssumption DEF TypeInv, TypeOK, EmailMatchesKey, Unreadable, Published

\* What auth goes on with, and what it has kept if it could read the file.
LEMMA AuthHas ==
    ASSUME TypeInv, NEW s \in Shells, Auth(s)
    PROVE  \E c \in Config :
             /\ cfg' = [cfg EXCEPT ![s] = c] /\ Matches(c)
             /\ ~misread' => c.settings = IF Unreadable THEN "default" ELSE Published.settings
  <1> PICK k \in Keys : \E e \in {NoEmail, Owner[k]} :
         \/ cfg' = [cfg EXCEPT ![s] = IF Unreadable THEN Fresh(k, e) ELSE Changed(Published, k, e)]
            /\ UNCHANGED misread
         \/ cfg' = [cfg EXCEPT ![s] = Fresh(k, e)] /\ misread' = TRUE
    BY DEF Auth
  <1> PICK e \in {NoEmail, Owner[k]} :
         \/ cfg' = [cfg EXCEPT ![s] = IF Unreadable THEN Fresh(k, e) ELSE Changed(Published, k, e)]
            /\ UNCHANGED misread
         \/ cfg' = [cfg EXCEPT ![s] = Fresh(k, e)] /\ misread' = TRUE
    OBVIOUS
  <1> DEFINE c == IF Unreadable THEN Fresh(k, e) ELSE Changed(Published, k, e)
  <1>1. /\ Fresh(k, e) \in Config /\ Matches(Fresh(k, e))
        /\ Fresh(k, e).settings = "default"
    BY FreshType
  <1>2. /\ c \in Config /\ Matches(c)
        /\ c.settings = IF Unreadable THEN "default" ELSE Published.settings
    BY <1>1, ChangedType, PublishedType
  <1>3. CASE cfg' = [cfg EXCEPT ![s] = c]
    BY <1>2, <1>3
  <1>4. CASE cfg' = [cfg EXCEPT ![s] = Fresh(k, e)] /\ misread' = TRUE
    BY <1>1, <1>4
  <1> HIDE DEF c
  <1>5. QED BY <1>3, <1>4 DEF c

LEMMA TypeNext == TypeInv /\ [Next]_vars => TypeInv'
  <1> SUFFICES ASSUME TypeInv, [Next]_vars PROVE TypeInv'
    OBVIOUS
  <1> USE DEF TypeInv
  <1>1. ASSUME NEW s \in Shells, Auth(s) PROVE TypeInv'
    <2> PICK c \in Config : cfg' = [cfg EXCEPT ![s] = c] /\ Matches(c)
      BY <1>1, AuthHas
    <2>1. misread' \in BOOLEAN
      BY <1>1 DEF Auth, TypeOK
    <2>2. QED BY <1>1, <2>1 DEF Auth, At, TypeOK, EmailMatchesKey, Loaded, fileVars, daemonVars
  <1>2. ASSUME NEW s \in Shells, Show(s) PROVE TypeInv'
    BY <1>2, PublishedType DEF Show, At, TypeOK, EmailMatchesKey, Loaded, fileVars, daemonVars
  <1>3. ASSUME NEW s \in Shells, AccountFound(s) PROVE TypeInv'
    <2>1. cfg[s] \in Config
      BY <1>3 DEF AccountFound, At, Loaded
    <2>2. QED
      BY <1>3, <2>1, SettingsAssumption
      DEF AccountFound, At, TypeOK, EmailMatchesKey, Loaded, fileVars, daemonVars, Matches, Config
  <1>4. ASSUME NEW s \in Shells, OpenTmp(s) PROVE TypeInv'
    BY <1>4, ContentAssumption DEF OpenTmp, At, TypeOK, EmailMatchesKey, Loaded, Content, daemonVars
  <1>5. ASSUME NEW s \in Shells, WriteTmp(s) PROVE TypeInv'
    BY <1>5, ContentAssumption DEF WriteTmp, At, TypeOK, EmailMatchesKey, Loaded, Content, daemonVars
  <1>6. ASSUME NEW s \in Shells, RenameTmp(s) PROVE TypeInv'
    <2>1. CASE Exit(s)
      BY <1>6, <2>1, ContentAssumption
      DEF RenameTmp, Exit, TypeOK, EmailMatchesKey, Loaded, Content
    <2>2. CASE op[s] = "auth"
      BY <1>6, <2>2, ContentAssumption
      DEF RenameTmp, At, TypeOK, EmailMatchesKey, Loaded, Content
    <2>3. QED BY <1>6, <2>1, <2>2 DEF RenameTmp
  <1>7. ASSUME NEW s \in Shells, Ends(s) \/ Connected(s) \/ StartFails(s) PROVE TypeInv'
    <2>1. /\ Exit(s) /\ UNCHANGED <<fileVars, status>> /\ pidFile' \in {NoFile, pidFile}
          /\ daemon' = daemon \/ daemon' = [daemon EXCEPT ![pid[s]] = Ended]
      BY <1>7 DEF Ends, Connected, StartFails
    <2>2. daemon' \in [Pids -> [at : {"free", "boot", "loaded", "up", "dead"}, read : Nat]]
      BY <2>1 DEF TypeOK, Ended
    <2>3. QED
      BY <2>1, <2>2, ContentAssumption
      DEF Exit, TypeOK, EmailMatchesKey, Loaded, fileVars
  <1>8. ASSUME NEW s \in Shells,
               Restart(s) \/ StopReads(s) \/ StopEnds(s) \/ StartSpawns(s) \/ StartAnnounces(s)
                 \/ StatusUnlinks(s)
        PROVE  TypeInv'
    <2>1. /\ UNCHANGED <<fileVars, cfg, fd, saved, misread>>
          /\ op' = op \/ op' = [op EXCEPT ![s] = "restart"]
      BY <1>8
      DEF Restart, StopReads, StopEnds, StartSpawns, StartAnnounces, StatusUnlinks, Commands,
          fileVars
    <2>2. \/ pc' = pc
          \/ \E to \in {"stop", "ending", "start", "announce", "wait"} : pc' = [pc EXCEPT ![s] = to]
      BY <1>8
      DEF Restart, StopReads, StopEnds, StartSpawns, StartAnnounces, StatusUnlinks, At
    <2>3. /\ pidFile' \in Pids \cup {NoFile} /\ pid' \in [Shells -> Pids \cup {NoFile}]
          /\ status' \in Nat \cup {NotConnected} /\ missed' \in [Shells -> BOOLEAN]
          /\ daemon' \in [Pids -> [at : {"free", "boot", "loaded", "up", "dead"}, read : Nat]]
      <3>1. CASE Restart(s)
        BY <3>1 DEF Restart, daemonVars, TypeOK
      <3>2. CASE StopReads(s)
        BY <3>2 DEF StopReads, TypeOK
      <3>3. CASE StopEnds(s)
        BY <3>3 DEF StopEnds, TypeOK
      <3>4. CASE StartSpawns(s)
        BY <3>4 DEF StartSpawns, TypeOK, Booting
      <3>5. CASE StartAnnounces(s) \/ StatusUnlinks(s)
        BY <3>5 DEF StartAnnounces, StatusUnlinks, TypeOK
      <3>6. QED BY <1>8, <3>1, <3>2, <3>3, <3>4, <3>5
    <2>4. QED BY <2>1, <2>2, <2>3 DEF TypeOK, EmailMatchesKey, Loaded, fileVars
  <1>9. ASSUME NEW p \in Pids, Daemon(p) PROVE TypeInv'
    <2>1. /\ UNCHANGED <<pc, op, cfg, fd, saved, misread, disk, config, tmp, saves, clash, pid, missed>>
      BY <1>9
      DEF Daemon, Launch, DaemonLoads, DaemonAnnounces, Publishes, Execs, Dies, Environment, fileVars
    <2>2. /\ pidFile' \in Pids \cup {NoFile} /\ status' \in Nat \cup {NotConnected}
          /\ daemon' \in [Pids -> [at : {"free", "boot", "loaded", "up", "dead"}, read : Nat]]
      BY <1>9
      DEF Daemon, Launch, DaemonLoads, DaemonAnnounces, Publishes, Execs, Dies, TypeOK, Booting,
          Ended, Reads
    <2>3. QED BY <2>1, <2>2 DEF TypeOK, EmailMatchesKey, Loaded
  <1>10. CASE UNCHANGED vars
    BY <1>10 DEF vars, fileVars, daemonVars, TypeOK, EmailMatchesKey, Loaded
  <1>11. QED
    BY <1>1, <1>2, <1>3, <1>4, <1>5, <1>6, <1>7, <1>8, <1>9, <1>10 DEF Next, Command

LEMMA TypeAlways == Spec => []TypeInv
  BY TypeInit, TypeNext, PTL DEF Spec

\* Every variable keeps its type.
THEOREM TypeCorrect == Spec => []TypeOK
  BY TypeAlways, PTL DEF TypeInv

\* However commands interleave, the email that a file or a command has is of
\* the account whose key stands beside it (saveAuthKeyWithVerificationKey,
\* lookupAccountForConfig).
THEOREM EmailMatchesKeyAlways == Spec => []EmailMatchesKey
  BY TypeAlways, PTL DEF TypeInv

-----------------------------------------------------------------------------
\* Before two commands have been inside Save at once, the one that is there
\* has the temporary file for itself.
FileInv ==
    /\ \A s \in Shells : fd[s] # NoFile => pc[s] = "write"
    /\ ~clash =>
         /\ tmp # NoFile => tmp # config
         /\ \A s \in Shells : pc[s] = "write" => fd[s] = tmp /\ tmp \in Inodes /\ disk[tmp] = Empty
         /\ \A s \in Shells : pc[s] = "rename" => tmp \in Inodes /\ disk[tmp] = cfg[s]
         /\ \A s, t \in Shells : Saving(s) /\ Saving(t) => s = t

LEMMA FileInit == Init => FileInv
  BY DEF Init, FileInv, Saving

\* Actions that leave the files alone, and in which a shell leaves Save, or
\* goes on outside of it.
LEMMA FileFrame ==
    ASSUME TypeInv, FileInv, NEW s \in Shells,
           UNCHANGED <<disk, config, tmp, clash>>,
           pc'[s] \notin {"write", "rename"}, pc' = [pc EXCEPT ![s] = pc'[s]],
           fd' = [fd EXCEPT ![s] = fd'[s]], fd'[s] = NoFile,
           cfg' = [cfg EXCEPT ![s] = cfg'[s]]
    PROVE  FileInv'
  BY DEF TypeInv, TypeOK, FileInv, Saving

LEMMA FileNext == TypeInv /\ FileInv /\ [Next]_vars => FileInv'
  <1> SUFFICES ASSUME TypeInv, FileInv, [Next]_vars PROVE FileInv'
    OBVIOUS
  <1> USE DEF TypeInv
  <1>1. ASSUME NEW s \in Shells,
               Auth(s) \/ Show(s) \/ AccountFound(s) \/ Restart(s) \/ Ends(s) \/ StopReads(s)
                 \/ StopEnds(s) \/ StartSpawns(s) \/ StartAnnounces(s) \/ StartFails(s)
                 \/ Connected(s)
        PROVE  FileInv'
    <2>1. UNCHANGED <<disk, config, tmp, clash>>
      BY <1>1
      DEF Auth, Show, AccountFound, Restart, Ends, StopReads, StopEnds, StartSpawns,
          StartAnnounces, StartFails, Connected, Commands, fileVars
    <2>2. /\ pc'[s] \notin {"write", "rename"} /\ pc' = [pc EXCEPT ![s] = pc'[s]]
          /\ fd' = [fd EXCEPT ![s] = fd'[s]] /\ fd'[s] = NoFile
      BY <1>1
      DEF Auth, Show, AccountFound, Restart, Ends, StopReads, StopEnds, StartSpawns,
          StartAnnounces, StartFails, Connected, Commands, At, Exit, TypeOK, FileInv
    <2>3. cfg' = [cfg EXCEPT ![s] = cfg'[s]]
      <3>1. CASE Auth(s)
        BY <3>1, AuthHas DEF TypeOK
      <3>2. QED
        BY <1>1, <3>1
        DEF Show, AccountFound, Restart, Ends, StopReads, StopEnds, StartSpawns,
            StartAnnounces, StartFails, Connected, Commands, Exit, TypeOK
    <2>4. QED BY <2>1, <2>2, <2>3, FileFrame
  <1>2. ASSUME NEW s \in Shells, OpenTmp(s) PROVE FileInv'
    <2> PICK i \in Inodes :
          /\ IF tmp = NoFile THEN i # config /\ \A t \in Shells : fd[t] # i ELSE i = tmp
          /\ disk' = [disk EXCEPT ![i] = Empty]
          /\ tmp' = i /\ fd' = [fd EXCEPT ![s] = i]
      BY <1>2 DEF OpenTmp
    <2>1. ~clash' => ~clash /\ \A t \in Shells \ {s} : ~Saving(t)
      BY <1>2 DEF OpenTmp
    <2>2. QED
      BY <1>2, <2>1 DEF OpenTmp, At, TypeOK, FileInv, Saving
  <1>3. ASSUME NEW s \in Shells, WriteTmp(s) PROVE FileInv'
    <2>1. ~clash => disk' = [disk EXCEPT ![tmp] = cfg[s]]
      BY <1>3 DEF WriteTmp, At, FileInv
    <2>2. QED
      BY <1>3, <2>1 DEF WriteTmp, At, TypeOK, FileInv, Saving
  <1>4. ASSUME NEW s \in Shells, RenameTmp(s) PROVE FileInv'
    <2>1. ~clash => \A t \in Shells \ {s} : ~Saving(t)
      BY <1>4 DEF RenameTmp, FileInv, Saving
    <2>2. pc' = [pc EXCEPT ![s] = pc'[s]] /\ pc'[s] \notin {"write", "rename"} /\ pc[s] = "rename"
      BY <1>4 DEF RenameTmp, At, Exit, TypeOK
    <2>3. fd' = fd
      BY <1>4, <2>2 DEF RenameTmp, Exit, TypeOK, FileInv
    <2>4. QED
      BY <1>4, <2>1, <2>2, <2>3 DEF RenameTmp, TypeOK, FileInv, Saving
  <1>5. CASE (\E p \in Pids : Daemon(p)) \/ (\E s \in Shells : StatusUnlinks(s)) \/ UNCHANGED vars
    <2>1. UNCHANGED <<disk, config, tmp, clash, pc, cfg, fd>>
      BY <1>5
      DEF Daemon, Launch, DaemonLoads, DaemonAnnounces, Publishes, Execs, Dies, Environment,
          StatusUnlinks, Commands, vars, fileVars
    <2>2. QED BY <2>1 DEF FileInv, Saving
  <1>6. QED BY <1>1, <1>2, <1>3, <1>4, <1>5 DEF Next, Command

\* Until then only a rename changes what Load finds.
LEMMA PublishedNext ==
    ASSUME TypeInv, FileInv, [Next]_vars, ~clash'
    PROVE  /\ ~clash
           /\ \/ Published' = Published /\ saves' = saves
              \/ \E s \in Shells : RenameTmp(s) /\ Published' = cfg[s] /\ cfg[s] \in Config
  <1> USE DEF TypeInv
  <1>1. CASE \E s \in Shells : OpenTmp(s)
    <2> PICK s \in Shells : OpenTmp(s)
      BY <1>1
    <2>1. ~clash /\ config' = config /\ saves' = saves
      BY DEF OpenTmp
    <2>2. PICK i \in Inodes : disk' = [disk EXCEPT ![i] = Empty] /\ i # config
      BY <2>1 DEF OpenTmp, FileInv
    <2>3. QED BY <2>1, <2>2 DEF Published, TypeOK
  <1>2. CASE \E s \in Shells : WriteTmp(s)
    <2> PICK s \in Shells : WriteTmp(s)
      BY <1>2
    <2>1. ~clash /\ config' = config /\ saves' = saves /\ tmp # config
      BY SettingsAssumption DEF WriteTmp, At, FileInv
    <2>2. disk' = [disk EXCEPT ![tmp] = cfg[s]]
      BY <2>1 DEF WriteTmp, At, FileInv
    <2>3. QED BY <2>1, <2>2 DEF Published, TypeOK
  <1>3. CASE \E s \in Shells : RenameTmp(s)
    <2> PICK s \in Shells : RenameTmp(s)
      BY <1>3
    <2>1. ~clash /\ pc[s] = "rename" /\ config' = tmp /\ tmp # config /\ tmp \in Inodes
      BY DEF RenameTmp, FileInv
    <2>2. disk'[tmp] = cfg[s] /\ cfg[s] \in Config
      BY <2>1 DEF RenameTmp, FileInv, Loaded
    <2>3. QED BY <2>1, <2>2, SettingsAssumption DEF Published
  <1>4. CASE UNCHANGED <<disk, config, saves, clash>>
    BY <1>4 DEF Published
  <1>5. QED
    BY <1>1, <1>2, <1>3, <1>4
    DEF Next, Command, Auth, Show, AccountFound, Restart, Ends, StopReads, StopEnds, StartSpawns,
        StartAnnounces, StartFails, Connected, StatusUnlinks, Commands, Daemon, Launch, DaemonLoads,
        DaemonAnnounces, Publishes, Execs, Dies, Environment, vars, fileVars

-----------------------------------------------------------------------------
\* What a command has loaded has the settings of the file, or the defaults
\* while the file cannot be read.
SettingsInv ==
    ~clash /\ ~misread => \A s \in Shells : cfg[s] \in Config =>
                cfg[s].settings = IF Unreadable THEN "default" ELSE Published.settings

LEMMA SettingsInit == Init => SettingsInv
  BY ContentAssumption DEF Init, SettingsInv

LEMMA SettingsNext == TypeInv /\ FileInv /\ SettingsInv /\ [Next]_vars => SettingsInv'
  <1> SUFFICES ASSUME TypeInv, FileInv, SettingsInv, [Next]_vars, ~clash', ~misread',
                      NEW t \in Shells, cfg'[t] \in Config
               PROVE  cfg'[t].settings = (IF Unreadable THEN "default" ELSE Published.settings)'
    BY DEF SettingsInv
  <1>1. ~clash /\ ~misread
    <2>1. misread => misread'
      BY DEF Next, Command, Auth, Show, AccountFound, OpenTmp, WriteTmp, RenameTmp, Restart, Ends,
             StopReads, StopEnds, StartSpawns, StartAnnounces, StartFails, Connected,
             StatusUnlinks, Commands, Exit, Daemon, Launch, DaemonLoads, DaemonAnnounces,
             Publishes, Execs, Dies, Environment, vars
    <2>2. QED BY <2>1, PublishedNext
  <1>2. CASE \E s \in Shells : RenameTmp(s) /\ Published' = cfg[s] /\ cfg[s] \in Config
    <2> PICK s \in Shells : RenameTmp(s) /\ Published' = cfg[s] /\ cfg[s] \in Config
      BY <1>2
    <2>1. ~Unreadable' /\ Published'.settings = cfg[s].settings
      BY DEF Unreadable
    <2>2. cfg'[t] = cfg[t]
      BY ContentAssumption DEF RenameTmp, Exit, TypeInv, TypeOK
    <2>3. QED BY <1>1, <2>1, <2>2 DEF SettingsInv
  <1>3. CASE Published' = Published
    <2>1. Unreadable' = Unreadable
      BY <1>3 DEF Unreadable
    <2>2. CASE cfg'[t] = cfg[t]
      BY <1>1, <1>3, <2>1, <2>2 DEF SettingsInv
    <2>3. CASE Auth(t)
      <3> PICK c \in Config :
            /\ cfg' = [cfg EXCEPT ![t] = c]
            /\ ~misread' => c.settings = IF Unreadable THEN "default" ELSE Published.settings
        BY <2>3, AuthHas
      <3>1. cfg'[t] = c
        BY DEF TypeInv, TypeOK
      <3>2. QED BY <1>3, <2>1, <3>1
    <2>4. CASE Show(t)
      BY <1>3, <2>1, <2>4 DEF Show, TypeInv, TypeOK
    <2>5. CASE AccountFound(t)
      <3>1. cfg[t] \in Config /\ cfg'[t].settings = cfg[t].settings
        BY <2>5 DEF AccountFound, At, TypeInv, TypeOK, Loaded, Config
      <3>2. QED BY <1>1, <1>3, <2>1, <3>1 DEF SettingsInv
    <2>6. CASE UNCHANGED cfg \/ \E s \in Shells : Exit(s)
      BY <2>2, <2>6, ContentAssumption DEF Exit, TypeInv, TypeOK
    <2>7. CASE \E s \in Shells \ {t} : Auth(s) \/ Show(s) \/ AccountFound(s)
      <3>1. cfg'[t] = cfg[t]
        BY <2>7, AuthHas DEF Show, AccountFound, TypeInv, TypeOK
      <3>2. QED BY <2>2, <3>1
    <2>8. QED
      BY <2>3, <2>4, <2>5, <2>6, <2>7
      DEF Next, Command, OpenTmp, WriteTmp, RenameTmp, Restart, Ends, StopReads, StopEnds,
          StartSpawns, StartAnnounces, StartFails, Connected, StatusUnlinks, Commands, Daemon,
          Launch, DaemonLoads, DaemonAnnounces, Publishes, Execs, Dies, Environment, vars
  <1>4. QED BY <1>2, <1>3, PublishedNext

LEMMA SettingsAlways == Spec => [](TypeInv /\ FileInv /\ SettingsInv)
  BY TypeInit, TypeNext, FileInit, FileNext, SettingsInit, SettingsNext, PTL DEF Spec

LEMMA SettingsStep ==
    TypeInv /\ FileInv /\ SettingsInv /\ [Next]_vars
      => [~clash' /\ ~misread' /\ Published \in Config
           => Published' \in Config /\ Published'.settings = Published.settings]_<<disk, config>>
  <1> SUFFICES ASSUME TypeInv, FileInv, SettingsInv, [Next]_vars, ~clash', ~misread',
                      Published \in Config
               PROVE  Published' \in Config /\ Published'.settings = Published.settings
    OBVIOUS
  <1>1. CASE Published' = Published
    BY <1>1
  <1>2. CASE \E s \in Shells : RenameTmp(s) /\ Published' = cfg[s] /\ cfg[s] \in Config
    <2>1. misread' = misread
      BY <1>2 DEF RenameTmp, Exit
    <2>2. QED BY <1>2, <2>1, PublishedNext DEF SettingsInv, Unreadable
  <1>3. QED BY <1>1, <1>2, PublishedNext

\* Saves that do not overlap never lose the settings of the user, unless auth
\* fails to read a good file, wherever a command is interrupted and however
\* late it writes back what it has loaded (Save).
THEOREM SettingsSurviveAlways == Spec => SettingsSurvive
  BY SettingsAlways, SettingsStep, PTL DEF Spec, SettingsSurvive

-----------------------------------------------------------------------------
HasRead(p) == daemon[p].at \in {"loaded", "up"}

\* From where Stop has not missed a daemon: while it waits, only the one that
\* it stops may have read an older configuration than the one auth published;
\* afterwards none has, nor has the one that the status file speaks of.
ReadInv ==
    /\ \A s \in Shells : saved[s] <= saves
    /\ \A s \in Shells : op[s] = "auth" /\ ~missed[s] =>
         /\ pc[s] = "ending" => \A p \in Pids : HasRead(p) => p = pid[s] \/ daemon[p].read >= saved[s]
         /\ pc[s] \in {"start", "announce", "wait"} =>
              \A p \in Pids : HasRead(p) => daemon[p].read >= saved[s]
         /\ pc[s] = "wait" /\ status # NotConnected => status >= saved[s]

LEMMA ReadInit == Init => ReadInv
  BY DEF Init, ReadInv

LEMMA ReadNext == TypeInv /\ ReadInv /\ [Next]_vars => ReadInv'
  <1> SUFFICES ASSUME TypeInv, ReadInv, [Next]_vars PROVE ReadInv'
    OBVIOUS
  <1> USE DEF TypeInv, TypeOK
  <1>1. ASSUME NEW s \in Shells, RenameTmp(s) PROVE ReadInv'
    <2>1. UNCHANGED <<daemon, status>> /\ saves' = saves + 1
      BY <1>1 DEF RenameTmp
    <2>2. \A t \in Shells : pc'[t] \in {"ending", "start", "announce", "wait"}
            => /\ t # s /\ pc[t] = pc'[t] /\ saved'[t] = saved[t] /\ op'[t] = op[t]
               /\ missed'[t] = missed[t] /\ pid'[t] = pid[t]
      BY <1>1 DEF RenameTmp, At, Exit
    <2>3. \A t \in Shells : saved'[t] <= saves'
      BY <1>1, <2>1 DEF RenameTmp, Exit, ReadInv
    <2>4. QED BY <2>1, <2>2, <2>3 DEF ReadInv, HasRead
  <1>2. ASSUME NEW s \in Shells, StopReads(s) PROVE ReadInv'
    <2>1. ~missed'[s] => \A p \in Pids : HasRead(p) => p = pid'[s] /\ p = pidFile
      BY <1>2 DEF StopReads, Alive, HasRead
    <2>2. pidFile = NoFile => \A p \in Pids : p # pidFile
      BY SettingsAssumption
    <2>3. /\ UNCHANGED <<daemon, status, saves, saved, op>>
          /\ pc' = [pc EXCEPT ![s] = IF pidFile = NoFile THEN "start" ELSE "ending"]
          /\ \A t \in Shells \ {s} : pid'[t] = pid[t] /\ missed'[t] = missed[t] /\ pc'[t] = pc[t]
      BY <1>2 DEF StopReads, At, Commands, fileVars
    <2>4. QED BY <2>1, <2>2, <2>3 DEF ReadInv, HasRead
  <1>3. ASSUME NEW s \in Shells, StopEnds(s) PROVE ReadInv'
    <2>1. ~missed'[s] => ~missed[s] /\ (pid[s] \in Pids => ~HasRead(pid[s]))
      BY <1>3 DEF StopEnds, Alive, HasRead
    <2>2. /\ UNCHANGED <<daemon, saves, saved, op, pid>> /\ status' \in {NotConnected, status}
          /\ pc[s] = "ending" /\ pc' = [pc EXCEPT ![s] = "start"]
          /\ \A t \in Shells \ {s} : missed'[t] = missed[t]
      BY <1>3 DEF StopEnds, At, Commands, fileVars
    <2>3. QED BY <2>1, <2>2 DEF ReadInv, HasRead
  <1>4. ASSUME NEW s \in Shells, StartSpawns(s) PROVE ReadInv'
    <2>1. /\ UNCHANGED <<status, missed, saves, saved, op>>
          /\ pc[s] = "start" /\ pc' = [pc EXCEPT ![s] = "announce"]
          /\ \A t \in Shells \ {s} : pid'[t] = pid[t]
      BY <1>4 DEF StartSpawns, At, Commands, fileVars
    <2>2. \A p \in Pids : HasRead(p)' => HasRead(p) /\ daemon'[p] = daemon[p]
      BY <1>4 DEF StartSpawns, HasRead, Booting
    <2>3. QED BY <2>1, <2>2 DEF ReadInv
  <1>5. ASSUME NEW s \in Shells, StartAnnounces(s) PROVE ReadInv'
    BY <1>5 DEF StartAnnounces, At, Commands, fileVars, ReadInv, HasRead
  <1>6. ASSUME NEW s \in Shells, Ends(s) \/ Connected(s) \/ StartFails(s) PROVE ReadInv'
    <2>1. /\ Exit(s) /\ UNCHANGED <<saves, status>>
          /\ \A p \in Pids : HasRead(p)' => HasRead(p) /\ daemon'[p] = daemon[p]
      BY <1>6 DEF Ends, Connected, StartFails, fileVars, HasRead, Ended
    <2>2. QED BY <2>1 DEF Exit, ReadInv
  <1>7. ASSUME NEW s \in Shells,
               Auth(s) \/ Show(s) \/ AccountFound(s) \/ Restart(s) \/ OpenTmp(s) \/ WriteTmp(s)
                 \/ StatusUnlinks(s)
        PROVE  ReadInv'
    <2>1. UNCHANGED <<daemon, status, saves, saved, pid, missed>>
      BY <1>7
      DEF Auth, Show, AccountFound, Restart, OpenTmp, WriteTmp, StatusUnlinks, Commands, fileVars,
          daemonVars
    <2>2. \A t \in Shells : op'[t] = "auth" /\ pc'[t] \in {"ending", "start", "announce", "wait"}
            => op[t] = "auth" /\ pc[t] = pc'[t]
      BY <1>7
      DEF Auth, Show, AccountFound, Restart, OpenTmp, WriteTmp, StatusUnlinks, Commands, At
    <2>3. QED BY <2>1, <2>2 DEF ReadInv, HasRead
  <1>8. ASSUME NEW p \in Pids, Daemon(p) PROVE ReadInv'
    <2>1. UNCHANGED <<pc, op, saved, saves, pid, missed>>
      BY <1>8
      DEF Daemon, Launch, DaemonLoads, DaemonAnnounces, Publishes, Execs, Dies, Environment, fileVars
    <2>2. \A q \in Pids : HasRead(q)' => \/ HasRead(q) /\ daemon'[q].read = daemon[q].read
                                         \/ daemon'[q].read = saves
      BY <1>8
      DEF Daemon, Launch, DaemonLoads, DaemonAnnounces, Publishes, Execs, Dies, HasRead, Booting,
          Ended, Reads
    <2>3. \/ status' \in {NotConnected, status}
          \/ HasRead(p) /\ status' = daemon[p].read
      BY <1>8
      DEF Daemon, Launch, DaemonLoads, DaemonAnnounces, Publishes, Execs, Dies, HasRead
    <2>4. QED BY <2>1, <2>2, <2>3 DEF ReadInv
  <1>9. CASE UNCHANGED vars
    BY <1>9 DEF vars, fileVars, daemonVars, ReadInv, HasRead
  <1>10. QED
    BY <1>1, <1>2, <1>3, <1>4, <1>5, <1>6, <1>7, <1>8, <1>9 DEF Next, Command

\* What auth reports as connected is a daemon that has what auth has saved,
\* unless its Stop missed a daemon (waitForDaemonConnected).
THEOREM ConnectedIsNewAlways == Spec => []ConnectedIsNew
  <1>1. TypeInv /\ ReadInv => ConnectedIsNew
    BY DEF TypeInv, TypeOK, ReadInv, HasRead, ConnectedIsNew, Finds, SaysConnected, Alive
  <1>2. QED BY <1>1, TypeInit, TypeNext, ReadInit, ReadNext, PTL DEF Spec
=============================================================================
