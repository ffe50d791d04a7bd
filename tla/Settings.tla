------------------------------ MODULE Settings ------------------------------
(***************************************************************************)
(* The configuration file and the commands that share it: Load, Save and   *)
(* ApplyDefaults (internal/config/config.go), `distil-proxy auth`, status, *)
(* dashboard, restart and upgrade (internal/cli), and the daemon that      *)
(* reads the file when it starts.                                          *)
(*                                                                         *)
(* Commands run in several shells.  Nothing is locked: each reads the      *)
(* whole file, may wait for a server, and writes the whole file back by    *)
(* way of one temporary file.  That file is shared, so a file is an inode  *)
(* here, which a command may still have open when another has renamed it.  *)
(*                                                                         *)
(* A restart finds the daemon by the PID file and waits by polling the     *)
(* status file, which both may be another daemon's.  Lifecycle takes these *)
(* files apart; here an operation on them is one step, several daemons may *)
(* run, and a look-up of a process may fail, which counts as none.         *)
(***************************************************************************)
EXTENDS Integers

CONSTANTS
    Shells,
    Keys, Accounts, Owner, \* API keys, and the account each belongs to
    Inodes,
    Pids,                  \* bound: the processes of daemons that are started
    MaxSaves,              \* bound: configurations that are published
    NoFile, NoEmail, NoConfig,
    NotConnected,          \* any other state in status.json
    Empty, Torn            \* a file just truncated; one that does not decode

ASSUME SettingsAssumption ==
    /\ Owner \in [Keys -> Accounts]
    /\ NoEmail \notin Accounts /\ NotConnected \notin Nat /\ NoFile \notin Inodes \cup Pids
    /\ MaxSaves \in Nat

\* Config: the fields that no command sets (server, timeout, log level and
\* the two of the upgrades) are either what the user gave or the defaults.
Config == [key : Keys, email : Accounts \cup {NoEmail}, settings : {"own", "default"}]

ASSUME ContentAssumption == Empty \notin Config /\ Torn \notin Config /\ NoConfig \notin Config

Content == Config \cup {Empty, Torn}

VARIABLES
    disk,        \* what the inodes contain
    config, tmp, \* the inodes that config.json and config.json.tmp name
    pc, op,      \* where the command of a shell is, and which it is
    cfg,         \* the configuration in its memory
    fd,          \* the temporary file it has opened
    saves,       \* counts the configurations that were published
    saved,       \* the one that a shell published last
    clash,       \* history: two commands have been inside Save at once
    misread,     \* history: auth could not read a configuration that is good
    daemon,      \* of each process, with the configuration it has read
    pidFile,     \* the process that daemon.pid names
    status,      \* status.json: what a daemon that says it is connected has read
    pid,         \* the process that a shell stops, or has started
    missed       \* history: Stop went on although a daemon was there

daemonVars == <<daemon, pidFile, status, pid, missed>>
fileVars == <<disk, config, tmp, saves, clash>>
vars == <<pc, op, cfg, fd, saved, misread, fileVars, daemonVars>>

Unstarted == [at |-> "free", read |-> 0]
Booting == [at |-> "boot", read |-> 0]
Ended == [at |-> "dead", read |-> 0]

\* config.json as Load finds it: a member of Config, or an error.
Published == IF config = NoFile THEN Empty ELSE disk[config]

Matches(c) == c.email \in {NoEmail, Owner[c.key]}

Init ==
    /\ config \in Inodes \cup {NoFile} /\ tmp = NoFile
    /\ \E c \in {Torn} \cup {d \in Config : Matches(d)} :
         disk = [i \in Inodes |-> IF i = config THEN c ELSE Empty]
    /\ pc = [s \in Shells |-> "idle"] /\ op = [s \in Shells |-> "none"]
    /\ cfg = [s \in Shells |-> NoConfig]
    /\ fd = [s \in Shells |-> NoFile]
    /\ saves = 0 /\ saved = [s \in Shells |-> 0]
    /\ clash = FALSE /\ misread = FALSE
    /\ daemon = [p \in Pids |-> Unstarted] /\ pidFile = NoFile /\ status = NotConnected
    /\ pid = [s \in Shells |-> NoFile] /\ missed = [s \in Shells |-> FALSE]

At(s, from, to) == pc[s] = from /\ pc' = [pc EXCEPT ![s] = to]

\* The process of the command ends, and what it had in memory is gone.
Exit(s) ==
    /\ pc' = [pc EXCEPT ![s] = "idle"] /\ op' = [op EXCEPT ![s] = "none"]
    /\ cfg' = [cfg EXCEPT ![s] = NoConfig]
    /\ fd' = [fd EXCEPT ![s] = NoFile]
    /\ saved' = [saved EXCEPT ![s] = 0]
    /\ pid' = [pid EXCEPT ![s] = NoFile] /\ missed' = [missed EXCEPT ![s] = FALSE]
    /\ UNCHANGED misread

-----------------------------------------------------------------------------
(* The commands, up to Save.                                               *)

\* Load says that there is no file, or that it does not decode.
Unreadable == Published \notin Config

\* An empty configuration after ApplyDefaults, with a key and an email.
Fresh(k, e) == [key |-> k, email |-> e, settings |-> "default"]

\* The email of the old key stays with the new one.
BuggyChanged(old, k, e) == [old EXCEPT !.key = k, !.email = IF e # NoEmail THEN e ELSE @]

\* What auth makes of the configuration it has loaded.
Changed(old, k, e) ==
    [old EXCEPT !.key = k, !.email = IF e # NoEmail \/ old.key # k THEN e ELSE old.email]

\* `auth <key>`, or the dialogue, which ends with the key and the email that
\* the server has verified; the server may leave the email out.  Whatever
\* error Load returns, also for a good file that it could not read, auth
\* goes on with an empty configuration.
Auth(s) ==
    /\ At(s, "idle", "open") /\ saves < MaxSaves
    /\ op' = [op EXCEPT ![s] = "auth"]
    /\ \E k \in Keys : \E e \in {NoEmail, Owner[k]} :
         \/ cfg' = [cfg EXCEPT ![s] = IF Unreadable THEN Fresh(k, e) ELSE Changed(Published, k, e)]
            /\ UNCHANGED misread
         \/ cfg' = [cfg EXCEPT ![s] = Fresh(k, e)] /\ misread' = TRUE
    /\ UNCHANGED <<fd, saved, fileVars, daemonVars>>

\* They go on with what Load has refused.
BuggyShow(s) ==
    /\ saves < MaxSaves
    /\ At(s, "idle", "ask")
    /\ op' = [op EXCEPT ![s] = "show"]
    /\ cfg' = [cfg EXCEPT ![s] = Published]
    /\ UNCHANGED <<fd, saved, misread, fileVars, daemonVars>>

\* status and dashboard ask for the account of the key they have loaded.
Show(s) ==
    /\ saves < MaxSaves /\ ~Unreadable
    /\ At(s, "idle", "ask")
    /\ op' = [op EXCEPT ![s] = "show"]
    /\ cfg' = [cfg EXCEPT ![s] = Published]
    /\ UNCHANGED <<fd, saved, misread, fileVars, daemonVars>>

\* lookupAccountForConfig: the server says whose key it is, after seconds.
AccountFound(s) ==
    /\ At(s, "ask", "open")
    /\ cfg[s].email # Owner[cfg[s].key]
    /\ cfg' = [cfg EXCEPT ![s].email = Owner[cfg[s].key]]
    /\ UNCHANGED <<op, fd, saved, misread, fileVars, daemonVars>>

-----------------------------------------------------------------------------
(* Save.                                                                   *)

Saving(s) == pc[s] \in {"write", "rename"}

\* config.json is written in place.
BuggyOpen(s) ==
    /\ At(s, "open", "write")
    /\ config # NoFile
    /\ disk' = [disk EXCEPT ![config] = Empty]
    /\ tmp' = config /\ fd' = [fd EXCEPT ![s] = config]
    /\ clash' = (clash \/ \E t \in Shells \ {s} : Saving(t))
    /\ UNCHANGED <<op, cfg, saved, misread, config, saves, daemonVars>>

\* os.WriteFile opens the temporary file and truncates it.
OpenTmp(s) ==
    /\ At(s, "open", "write")
    /\ \E i \in Inodes :
         /\ IF tmp = NoFile THEN i # config /\ \A t \in Shells : fd[t] # i ELSE i = tmp
         /\ disk' = [disk EXCEPT ![i] = Empty]
         /\ tmp' = i /\ fd' = [fd EXCEPT ![s] = i]
    /\ clash' = (clash \/ \E t \in Shells \ {s} : Saving(t))
    /\ UNCHANGED <<op, cfg, saved, misread, config, saves, daemonVars>>

\* It writes from the start of the file: what another has written there
\* meanwhile, if it is longer, shows behind it.
WriteTmp(s) ==
    /\ At(s, "write", "rename")
    /\ \/ disk' = [disk EXCEPT ![fd[s]] = cfg[s]]
       \/ disk[fd[s]] \notin {Empty, cfg[s]} /\ disk' = [disk EXCEPT ![fd[s]] = Torn]
    /\ fd' = [fd EXCEPT ![s] = NoFile]
    /\ UNCHANGED <<op, cfg, saved, misread, config, tmp, saves, clash, daemonVars>>

\* The file that was config.json is freed, unless it is still open.
RenameTmp(s) ==
    /\ pc[s] = "rename" /\ tmp # NoFile
    /\ config' = tmp /\ tmp' = NoFile
    /\ disk' = [i \in Inodes |-> IF i = config /\ (\A t \in Shells : fd[t] # i)
                                 THEN Empty ELSE disk[i]]
    /\ saves' = saves + 1
    /\ IF op[s] = "auth"
         THEN /\ At(s, "rename", "stop") /\ saved' = [saved EXCEPT ![s] = saves']
              /\ UNCHANGED <<op, cfg, fd, misread, pid, missed>>
         ELSE Exit(s)
    /\ UNCHANGED <<clash, daemon, pidFile, status>>

\* A command may end wherever it is: by an error of a file, of the server or
\* of the daemon, because it has nothing to change, when its time is over, or
\* because it is interrupted.
Ends(s) == pc[s] # "idle" /\ Exit(s) /\ UNCHANGED <<fileVars, daemon, pidFile, status>>

-----------------------------------------------------------------------------
(* Restart, and waiting for the new daemon to connect.                     *)

\* The process exists, as a daemon or about to become one.
Alive(p) == p \in Pids /\ daemon[p].at \in {"boot", "loaded", "up"}

\* A number that no process has had.
Free(p) == daemon[p].at = "free"

Commands == UNCHANGED <<op, cfg, fd, saved, misread, fileVars>>

\* start, restart and upgrade, which restarts at its end and then waits as
\* auth does; stop is a restart that Ends half-way.
Restart(s) ==
    /\ ~Unreadable
    /\ At(s, "idle", "stop") \/ At(s, "idle", "start")
    /\ op' = [op EXCEPT ![s] = "restart"]
    /\ UNCHANGED <<cfg, fd, saved, misread, fileVars, daemonVars>>

\* Stop takes the PID file's word for which daemon there is, and signals it.
StopReads(s) ==
    /\ At(s, "stop", IF pidFile = NoFile THEN "start" ELSE "ending")
    /\ pid' = [pid EXCEPT ![s] = pidFile]
    /\ missed' = [missed EXCEPT ![s] = \E p \in Pids \ {pidFile} : Alive(p)]
    /\ Commands /\ UNCHANGED <<daemon, pidFile, status>>

\* It waits for the end of the process, unless a look-up fails: that counts
\* as the end.  markStopped ignores its errors.
StopEnds(s) ==
    /\ At(s, "ending", "start")
    /\ \/ ~Alive(pid[s]) /\ UNCHANGED missed
       \/ missed' = [missed EXCEPT ![s] = TRUE]
    /\ pidFile' = NoFile
    /\ status' \in {NotConnected, status}
    /\ Commands /\ UNCHANGED <<daemon, pid>>

\* Start, when it finds no daemon, or a look-up fails; it may then remove the
\* PID file.  When it finds one the command Ends.
StartSpawns(s) ==
    /\ At(s, "start", "announce")
    /\ \E p \in {q \in Pids : Free(q)} :
         daemon' = [daemon EXCEPT ![p] = Booting] /\ pid' = [pid EXCEPT ![s] = p]
    /\ pidFile' \in {NoFile, pidFile}
    /\ Commands /\ UNCHANGED <<status, missed>>

\* It leaves the status to the child.
BuggyStartAnnounces(s) ==
    /\ At(s, "announce", "wait")
    /\ pidFile' = pid[s]
    /\ Commands /\ UNCHANGED <<daemon, status, pid, missed>>

\* It writes the child's number and the status "starting".
StartAnnounces(s) ==
    /\ At(s, "announce", "wait")
    /\ pidFile' = pid[s] /\ status' = NotConnected
    /\ Commands /\ UNCHANGED <<daemon, pid, missed>>

\* One of the two cannot be written: the child is killed.
StartFails(s) ==
    /\ pc[s] = "announce" /\ Exit(s)
    /\ daemon' = [daemon EXCEPT ![pid[s]] = Ended]
    /\ pidFile' \in {NoFile, pidFile}
    /\ UNCHANGED <<fileVars, status>>

\* waitForDaemonConnected: the process of the PID file runs, and the status
\* file says connected.
SaysConnected == Alive(pidFile) /\ status # NotConnected

Connected(s) ==
    /\ pc[s] = "wait" /\ SaysConnected
    /\ Exit(s) /\ UNCHANGED <<fileVars, daemon, pidFile, status>>

\* Status, for the poll or the command, finds no process, or a look-up fails:
\* it removes the PID file.
StatusUnlinks(s) ==
    /\ pc[s] \in {"idle", "wait"}
    /\ pidFile' = NoFile
    /\ Commands /\ UNCHANGED <<pc, daemon, status, pid, missed>>

-----------------------------------------------------------------------------
(* The daemons.                                                            *)

Environment == UNCHANGED <<pc, op, cfg, fd, saved, misread, fileVars, pid, missed>>

Reads == [at |-> "loaded", read |-> saves]

\* `start --foreground`, by the service manager: it loads the configuration
\* before it looks for another daemon.
Launch(p) ==
    /\ Free(p) /\ ~Unreadable
    /\ daemon' = [daemon EXCEPT ![p] = Reads]
    /\ Environment /\ UNCHANGED <<pidFile, status>>

\* `__run` loads the configuration, or gives up.
DaemonLoads(p) ==
    /\ daemon[p].at = "boot"
    /\ daemon' = [daemon EXCEPT ![p] = IF Unreadable THEN Ended ELSE Reads]
    /\ Environment /\ UNCHANGED <<pidFile, status>>

\* Run writes its number and the status "disconnected".
DaemonAnnounces(p) ==
    /\ daemon[p].at = "loaded"
    /\ daemon' = [daemon EXCEPT ![p].at = "up"]
    /\ pidFile' = p /\ status' = NotConnected
    /\ Environment

\* updateStatus, when the state of the client changes.
Publishes(p) ==
    /\ daemon[p].at = "up"
    /\ status' \in {daemon[p].read, NotConnected}
    /\ Environment /\ UNCHANGED <<daemon, pidFile>>

\* restartProcess: the process of a daemon that upgrades boots again.
Execs(p) ==
    /\ daemon[p].at = "up"
    /\ daemon' = [daemon EXCEPT ![p] = Booting]
    /\ Environment /\ UNCHANGED <<pidFile, status>>

\* Run ends, and may have written its last status and removed its number, or
\* the process is killed.
Dies(p) ==
    /\ Alive(p)
    /\ daemon' = [daemon EXCEPT ![p] = Ended]
    /\ pidFile' \in {IF pidFile = p THEN NoFile ELSE pidFile, pidFile}
    /\ status' \in {NotConnected, status}
    /\ Environment

-----------------------------------------------------------------------------
Command(s) ==
    \/ Auth(s) \/ Show(s) \/ AccountFound(s) \/ Restart(s) \/ Ends(s)
    \/ OpenTmp(s) \/ WriteTmp(s) \/ RenameTmp(s)
    \/ StopReads(s) \/ StopEnds(s) \/ StartSpawns(s) \/ StartAnnounces(s) \/ StartFails(s)
    \/ Connected(s) \/ StatusUnlinks(s)

Daemon(p) ==
    \/ Launch(p) \/ DaemonLoads(p) \/ DaemonAnnounces(p) \/ Publishes(p) \/ Execs(p) \/ Dies(p)

Next == (\E s \in Shells : Command(s)) \/ (\E p \in Pids : Daemon(p))

Spec == Init /\ [][Next]_vars

-----------------------------------------------------------------------------
TypeOK ==
    /\ disk \in [Inodes -> Content]
    /\ config \in Inodes \cup {NoFile} /\ tmp \in Inodes \cup {NoFile}
    /\ pc \in [Shells -> {"idle", "ask", "open", "write", "rename", "stop", "ending", "start",
                          "announce", "wait"}]
    /\ op \in [Shells -> {"none", "auth", "show", "restart"}]
    /\ cfg \in [Shells -> Config \cup {NoConfig}]
    /\ fd \in [Shells -> Inodes \cup {NoFile}]
    /\ saves \in Nat /\ saved \in [Shells -> Nat] /\ clash \in BOOLEAN /\ misread \in BOOLEAN
    /\ daemon \in [Pids -> [at : {"free", "boot", "loaded", "up", "dead"}, read : Nat]]
    /\ pidFile \in Pids \cup {NoFile} /\ pid \in [Shells -> Pids \cup {NoFile}]
    /\ status \in Nat \cup {NotConnected}
    /\ missed \in [Shells -> BOOLEAN]

\* The email that status shows is of the account whose key is configured, or
\* none, in every file and in the memory of every command, however commands
\* interleave.
EmailMatchesKey ==
    /\ \A i \in Inodes : disk[i] \in Config => Matches(disk[i])
    /\ \A s \in Shells : cfg[s] \in Config => Matches(cfg[s])

\* As long as no two commands are inside Save at once, and auth has not failed
\* to read a good file, a configuration that can be read is replaced only by
\* another one that has the user's settings, wherever a command fails or is
\* interrupted, and however late it writes back what it has loaded.
SettingsSurvive ==
    [][~clash' /\ ~misread' /\ Published \in Config
         => Published' \in Config /\ Published'.settings = Published.settings]_<<disk, config>>

\* auth takes the daemon for connected, and no daemon was there that its Stop
\* did not find or did not wait for.
Finds(s) == op[s] = "auth" /\ pc[s] = "wait" /\ SaysConnected /\ ~missed[s]

\* What auth reports as connected is a daemon that has what auth has saved,
\* although it only looks at the status file of whoever wrote it last
\* (cli/commands.go:364-393): no status of a daemon from before is left over,
\* and none is written, whatever others start, stop or launch meanwhile.
ConnectedIsNew ==
    \A s \in Shells : Finds(s) =>
      /\ status >= saved[s]
      /\ daemon[pidFile].at # "boot" => daemon[pidFile].read >= saved[s]

\* "Save persists config atomically": whoever loads config.json finds what
\* was there before a Save or what is there after it.
SaveIsAtomic == [][(Published \in Config) => (Published' \in Config)]_<<disk, config>>
=============================================================================
