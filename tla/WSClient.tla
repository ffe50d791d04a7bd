------------------------------ MODULE WSClient ------------------------------
(***************************************************************************)
(* The websocket client of the daemon: ws.Client.Run and everything it     *)
(* calls (internal/ws/client.go), the job registry it keeps                *)
(* (internal/jobs/registry.go), the two counters its hooks drive           *)
(* (internal/observability/metrics.go) and the state name the hooks        *)
(* publish (internal/daemon/service.go:243-269).                           *)
(*                                                                         *)
(* Two goroutines share one connection: the one that calls Run, dials,     *)
(* reads and serves jobs in its read loop ("main", program counter pc) and *)
(* the heartbeat goroutine of the current session (program counter hb).    *)
(* They meet at writeMu, at the connection, at the channel heartbeatErr    *)
(* and at the session's context.  The server and the network are the       *)
(* environment: a FIFO of what was sent to the client, and a link that     *)
(* fails cleanly, with a reset, or silently.                               *)
(*                                                                         *)
(* A step of main between two points where the other goroutine, the        *)
(* caller's context or the network can matter is one action: a handler's   *)
(* hook calls and its deferred Finish run in the step that ends its write. *)
(***************************************************************************)
EXTENDS Integers, Sequences

CONSTANTS
    JobIds,           \* the ids a fetch message may carry
    Kinds,            \* the kinds of message the server sends in this instance
    MaxSends,         \* bound: messages the server sends
    MaxFaults,        \* bound: dial failures, link failures, panics, timeouts
    SendBuffer,       \* writes a silently dead link swallows before one fails
    InitialReconnect, \* ClientConfig.InitialReconnect
    MaxReconnectWait, \* ClientConfig.MaxReconnectWait
    NoJob             \* the id of a message that carries none

\* Every kind of text frame handleMessage tells apart.  "malformed" stands
\* for each payload it returns a decode error for (a bad envelope, a bad
\* fetch request, a fetch without an id).
AllKinds == {"fetch", "badbody", "ping", "pong", "unknown", "malformed"}
JobKinds == {"fetch", "badbody"}

ASSUME ConstantsAssumption ==
    /\ Kinds \subseteq AllKinds
    /\ MaxSends \in Nat
    /\ MaxFaults \in Nat
    /\ SendBuffer \in Nat
    /\ NoJob \notin JobIds

\* The daemon leaves both fields to NewClient, which makes them 1s and 60s.
ASSUME ReconnectAssumption ==
    /\ InitialReconnect \in Nat \ {0}
    /\ MaxReconnectWait \in Nat
    /\ InitialReconnect <= MaxReconnectWait

\* The messages of one link, and the two ways its stream can end.
Frames == { f \in [kind : Kinds, id : JobIds \cup {NoJob}] :
                (f.kind \in JobKinds) <=> (f.id \in JobIds) }
StreamEnds == [kind : {"closed", "reset"}, id : {NoJob}]

\* What main is writing; "fetching" marks the job whose Fetch is running.
JobReplies == {"bad", "error", "result"}
Replies == [kind : {"idle", "fetching", "pong", "dup"} \cup JobReplies,
            id : JobIds \cup {NoJob}]
NoReply == [kind |-> "idle", id |-> NoJob]

\* The fields of observability.Metrics that count; the latencies are left out.
Metrics == [attempts : Nat, reconnects : Nat, success : Nat, error : Nat]

\* make(chan error, 1); unbuffered, a goroutine nobody receives from.
Unbuffered == 0
HeartbeatErrCap == 1

VARIABLES
    pc,            \* main: where Run, runSession or a handler stands
    err,           \* what runSession is returning: "nil", "error" or "panic"
    backoff,       \* Run's backoff
    jobs,          \* Registry.jobs: the ids in flight
    reply,         \* the reply main is preparing or writing
    hb,            \* the heartbeat goroutine
    heartbeatErr,  \* the buffered channel
    sessionDone,   \* cancelSession has been called
    writeMu,       \* the holder of Client.writeMu
    ctxDone,       \* the caller's context is cancelled
    conn,          \* our end of the connection
    peer,          \* the server's end
    inbox,         \* what the server sent and main has not read
    unsent,        \* frames written to a link that is already gone
    wsState,       \* RuntimeStatus.WSState, as OnStateChange sets it
    metrics,       \* observability.Metrics
    taken,         \* history: jobs read in this session, by id
    answered,      \* history: job replies written in this session, by id
    jobsTaken,     \* history: jobs read since the process started
    streak,        \* history: sessions in a row that ended with an error
    sends,         \* how many messages the server may still send
    faults         \* how many failures may still happen

mainVars == <<pc, err, backoff, jobs, reply, streak>>
hbVars   == <<hb, heartbeatErr, sessionDone>>
linkVars == <<conn, peer, inbox, unsent>>
hookVars == <<wsState, metrics>>
history  == <<taken, answered, jobsTaken>>
budgets  == <<sends, faults>>
vars == <<mainVars, hbVars, writeMu, ctxDone, linkVars, hookVars, history, budgets>>

NoJobs == [j \in JobIds |-> 0]

Init ==
    /\ pc = "dial" /\ err = "nil" /\ backoff = InitialReconnect
    /\ jobs = {} /\ reply = NoReply /\ streak = 0
    /\ hb = "off" /\ heartbeatErr = <<>> /\ sessionDone = FALSE
    /\ writeMu = "free" /\ ctxDone = FALSE
    /\ conn = "none" /\ peer = "gone" /\ inbox = <<>> /\ unsent = 0
    /\ wsState = "disconnected"
    /\ metrics = [attempts |-> 0, reconnects |-> 0, success |-> 0, error |-> 0]
    /\ taken = NoJobs /\ answered = NoJobs /\ jobsTaken = 0
    /\ sends = MaxSends /\ faults = MaxFaults

\* sessionCtx.Done(): it is a child of the caller's context.
Done == ctxDone \/ sessionDone

InSession == pc \in {"select", "read", "fetch", "lock", "write", "cancel", "await"}
Over == pc \in {"stopped", "panicked"}

-----------------------------------------------------------------------------
(* The environment: the caller's context, the server, the network.         *)

CancelContext ==
    /\ ~ctxDone
    /\ ctxDone' = TRUE
    /\ UNCHANGED <<mainVars, hbVars, writeMu, linkVars, hookVars, history, budgets>>

LinkUp == conn = "open" /\ peer = "up"

ServerSend(f) ==
    /\ LinkUp /\ sends > 0
    /\ inbox' = Append(inbox, f)
    /\ sends' = sends - 1
    /\ UNCHANGED <<mainVars, hbVars, writeMu, ctxDone, conn, peer, unsent,
                   hookVars, history, faults>>

\* The server closes with 1000 or 1001, or the stream breaks off.
ServerEnds(end) ==
    /\ LinkUp /\ faults > 0
    /\ peer' = "gone"
    /\ inbox' = Append(inbox, end)
    /\ faults' = faults - 1
    /\ UNCHANGED <<mainVars, hbVars, writeMu, ctxDone, conn, unsent,
                   hookVars, history, sends>>

\* The link dies and nothing tells the client (half-open connection).
LinkDies ==
    /\ LinkUp /\ faults > 0
    /\ peer' = "gone"
    /\ faults' = faults - 1
    /\ UNCHANGED <<mainVars, hbVars, writeMu, ctxDone, conn, inbox, unsent,
                   hookVars, history, sends>>

-----------------------------------------------------------------------------
(* The network as wsjson.Write sees it, for either goroutine.              *)

\* A frame may still be accepted after the peer is gone, by the kernel's
\* send buffer, and after the context is cancelled.
WriteSucceeds ==
    /\ conn = "open"
    /\ \/ peer = "up" /\ UNCHANGED unsent
       \/ peer = "gone" /\ unsent < SendBuffer /\ unsent' = unsent + 1
    /\ UNCHANGED <<conn, faults>>

\* A write fails on a cancelled context, on a closed connection, while the
\* close handshake of heartbeatLoop runs, on a link that is gone, or at the
\* five-second write timeout, which closes the connection.  Only the timeout
\* is certain to close it.
WriteFails ==
    /\ \/ /\ Done \/ conn = "closed" \/ peer = "gone" \/ hb = "closing"
          /\ conn' \in {conn, "closed"}
          /\ UNCHANGED faults
       \/ /\ conn = "open" /\ faults > 0
          /\ conn' = "closed"
          /\ faults' = faults - 1
    /\ UNCHANGED unsent

-----------------------------------------------------------------------------
(* main: Run and runSession.  An operator named Buggy... is a version of   *)
(* the definition after it with one plausible mistake, for the mutation    *)
(* runs; nothing else uses it.                                             *)

BuggyLock(owner) == writeMu' = owner

\* writeJSON: writeMu.Lock.
Lock(owner) == writeMu = "free" /\ writeMu' = owner

\* Run's defer: CancelAll.
CancelAll == jobs' = {}

\* emitState, and what OnStateChange counts.
EmitState(state) == wsState' = state

DialSucceeds ==
    /\ pc = "dial" /\ ~ctxDone
    /\ pc' = "select"
    /\ conn' = "open" /\ peer' = "up"
    /\ hb' = "idle"
    /\ EmitState("connected")
    /\ metrics' = [metrics EXCEPT !.attempts = @ + 1]
    /\ UNCHANGED <<err, backoff, jobs, reply, streak, heartbeatErr, sessionDone,
                   writeMu, ctxDone, inbox, unsent, history, budgets>>

DialFails ==
    /\ pc = "dial"
    /\ \/ ctxDone /\ UNCHANGED faults
       \/ ~ctxDone /\ faults > 0 /\ faults' = faults - 1
    /\ pc' = "decide" /\ err' = "error"
    /\ UNCHANGED <<backoff, jobs, reply, streak, hbVars, writeMu, ctxDone,
                   linkVars, hookVars, history, sends>>

\* The select at the top of the read loop: a finished session, a heartbeat
\* that failed, or neither.
SelectDone ==
    /\ pc = "select" /\ Done
    /\ pc' = "cancel" /\ err' = "nil"
    /\ UNCHANGED <<backoff, jobs, reply, streak, hbVars, writeMu, ctxDone,
                   linkVars, hookVars, history, budgets>>

SelectHeartbeatErr ==
    /\ pc = "select" /\ heartbeatErr # <<>>
    /\ heartbeatErr' = Tail(heartbeatErr)
    /\ err' = IF Head(heartbeatErr) = "cancelled" THEN "nil" ELSE "error"
    /\ pc' = "cancel"
    /\ UNCHANGED <<backoff, jobs, reply, streak, hb, sessionDone, writeMu, ctxDone,
                   linkVars, hookVars, history, budgets>>

SelectDefault ==
    /\ pc = "select" /\ ~Done /\ heartbeatErr = <<>>
    /\ pc' = "read"
    /\ UNCHANGED <<err, backoff, jobs, reply, streak, hbVars, writeMu, ctxDone,
                   linkVars, hookVars, history, budgets>>

\* conn.Read fails: the stream ended (isCloseError decides between a clean
\* end and an error), this side closed the connection, or the context ended,
\* which closes the connection.
ReadFails ==
    /\ pc = "read"
    /\ \/ /\ conn = "open" /\ inbox # <<>> /\ Head(inbox) \in StreamEnds
          /\ err' = IF Head(inbox).kind = "closed" THEN "nil" ELSE "error"
          /\ inbox' = Tail(inbox)
       \/ /\ conn = "closed"
          /\ err' = "error"
          /\ UNCHANGED inbox
       \/ /\ Done
          /\ err' = "nil"
          /\ UNCHANGED inbox
    /\ conn' = "closed"
    /\ pc' = "cancel"
    /\ UNCHANGED <<backoff, jobs, reply, streak, hbVars, writeMu, ctxDone, peer,
                   unsent, hookVars, history, budgets>>

Receive(f) ==
    /\ pc = "read" /\ conn = "open" /\ inbox # <<>> /\ f = Head(inbox)
    /\ inbox' = Tail(inbox)

\* handleMessage returns a decode error.
HandleMalformed(f) ==
    /\ Receive(f) /\ f.kind = "malformed"
    /\ pc' = "cancel" /\ err' = "error"
    /\ UNCHANGED <<backoff, jobs, reply, streak, hbVars, writeMu, ctxDone, conn,
                   peer, unsent, hookVars, history, budgets>>

\* A pong only stamps LastHeartbeat and an unknown type is only logged.
HandleIgnored(f) ==
    /\ Receive(f) /\ f.kind \in {"pong", "unknown"}
    /\ pc' = "select"
    /\ UNCHANGED <<err, backoff, jobs, reply, streak, hbVars, writeMu, ctxDone,
                   conn, peer, unsent, hookVars, history, budgets>>

HandlePing(f) ==
    /\ Receive(f) /\ f.kind = "ping"
    /\ reply' = [kind |-> "pong", id |-> NoJob]
    /\ pc' = "lock"
    /\ UNCHANGED <<err, backoff, jobs, streak, hbVars, writeMu, ctxDone, conn,
                   peer, unsent, hookVars, history, budgets>>

\* Registry.Start: ErrJobExists, or the id is added.
RegistryStart(id) == jobs' = jobs \cup {id}

\* handleFetch up to its first reply or to Fetch.
HandleFetch(f) ==
    /\ Receive(f) /\ f.kind \in JobKinds
    /\ RegistryStart(f.id)
    /\ reply' = [kind |-> IF f.id \in jobs THEN "dup"
                          ELSE IF f.kind = "badbody" THEN "bad" ELSE "fetching",
                 id |-> f.id]
    /\ pc' = IF reply'.kind = "fetching" THEN "fetch" ELSE "lock"
    /\ taken' = [taken EXCEPT ![f.id] = @ + 1]
    /\ jobsTaken' = jobsTaken + 1
    /\ UNCHANGED <<err, backoff, streak, hbVars, writeMu, ctxDone, conn, peer,
                   unsent, hookVars, answered, budgets>>

\* A failed fetch is forgotten instead of reported.
BuggyFetchReturns ==
    /\ pc = "fetch"
    /\ \/ reply' = [reply EXCEPT !.kind = "result"] /\ pc' = "lock" /\ UNCHANGED jobs
       \/ reply' = NoReply /\ pc' = "select" /\ jobs' = jobs \ {reply.id}
    /\ UNCHANGED <<err, backoff, streak, hbVars, writeMu, ctxDone, linkVars,
                   hookVars, history, budgets>>

\* Fetch returns a result or an error mapFetchError turns into a code; the
\* deadline of fetchCtx bounds it.
FetchReturns ==
    /\ pc = "fetch"
    /\ \E outcome \in {"result", "error"} : reply' = [reply EXCEPT !.kind = outcome]
    /\ pc' = "lock"
    /\ UNCHANGED <<err, backoff, jobs, streak, hbVars, writeMu, ctxDone, linkVars,
                   hookVars, history, budgets>>

BuggyRegistryFinish(r) == jobs' = IF r.kind = "result" THEN jobs \ {r.id} ELSE jobs

\* Registry.Finish, the deferred call of handleFetch.
RegistryFinish(r) ==
    jobs' = IF r.kind \in JobReplies \cup {"fetching"} THEN jobs \ {r.id} ELSE jobs

\* A panic inside Fetch unwinds through handleFetch's and runSession's defers.
FetchPanics ==
    /\ pc = "fetch" /\ faults > 0
    /\ RegistryFinish(reply)
    /\ reply' = NoReply
    /\ pc' = "cancel" /\ err' = "panic"
    /\ faults' = faults - 1
    /\ UNCHANGED <<backoff, streak, hbVars, writeMu, ctxDone, linkVars, hookVars,
                   history, sends>>

MainLock ==
    /\ pc = "lock" /\ Lock("main")
    /\ pc' = "write"
    /\ UNCHANGED <<err, backoff, jobs, reply, streak, hbVars, ctxDone, linkVars,
                   hookVars, history, budgets>>

BuggyEmitJobResult(r) ==
    metrics' = CASE r.kind = "result" -> [metrics EXCEPT !.success = @ + 1]
                 [] r.kind = "error" -> [metrics EXCEPT !.error = @ + 1]
                 [] OTHER -> metrics

\* emitJobResult, by the kind of reply.
EmitJobResult(r) ==
    metrics' = CASE r.kind = "result" -> [metrics EXCEPT !.success = @ + 1]
                 [] r.kind \in {"dup", "bad", "error"} -> [metrics EXCEPT !.error = @ + 1]
                 [] OTHER -> metrics

MainWriteSucceeds ==
    /\ pc = "write" /\ WriteSucceeds
    /\ writeMu' = "free"
    /\ EmitJobResult(reply)
    /\ RegistryFinish(reply)
    /\ answered' = IF reply.kind = "pong" THEN answered
                   ELSE [answered EXCEPT ![reply.id] = @ + 1]
    /\ reply' = NoReply
    /\ pc' = "select"
    /\ UNCHANGED <<err, backoff, streak, hbVars, ctxDone, peer, inbox, wsState,
                   taken, jobsTaken, sends>>

\* The reply to a bad body is written without looking at the error; every
\* other failed write ends the session with that error.
MainWriteFails ==
    /\ pc = "write" /\ WriteFails
    /\ writeMu' = "free"
    /\ RegistryFinish(reply)
    /\ reply' = NoReply
    /\ IF reply.kind = "bad"
         THEN /\ pc' = "select" /\ UNCHANGED err
              /\ EmitJobResult(reply)
         ELSE /\ pc' = "cancel" /\ err' = "error"
              /\ UNCHANGED metrics
    /\ UNCHANGED <<backoff, streak, hbVars, ctxDone, peer, inbox, wsState, history,
                   sends>>

\* runSession's defers: cancelSession, wait for the heartbeat, conn.Close.
CancelSession ==
    /\ pc = "cancel"
    /\ sessionDone' = TRUE
    /\ pc' = "await"
    /\ UNCHANGED <<err, backoff, jobs, reply, streak, hb, heartbeatErr, writeMu,
                   ctxDone, linkVars, hookVars, history, budgets>>

BuggyHeartbeatReaped == UNCHANGED hb

\* <-heartbeatDone: the goroutine has returned.
HeartbeatReaped == hb = "done" /\ hb' = "off"

AwaitHeartbeat ==
    /\ pc = "await" /\ HeartbeatReaped
    /\ conn' = "none" /\ peer' = "gone" /\ inbox' = <<>> /\ unsent' = 0
    /\ heartbeatErr' = <<>> /\ sessionDone' = FALSE
    /\ taken' = NoJobs /\ answered' = NoJobs
    /\ IF err = "panic" THEN pc' = "panicked" /\ CancelAll
                        ELSE pc' = "decide" /\ UNCHANGED jobs
    /\ UNCHANGED <<err, backoff, reply, streak, writeMu, ctxDone, hookVars,
                   jobsTaken, budgets>>

\* Run after runSession: emit "stopped" and return, or choose the wait.
Stop ==
    /\ pc \in {"decide", "wait"} /\ ctxDone
    /\ pc' = "stopped"
    /\ EmitState("stopped")
    /\ CancelAll
    /\ UNCHANGED <<err, backoff, reply, streak, hbVars, writeMu, ctxDone, linkVars,
                   metrics, history, budgets>>

BuggyResetBackoff == UNCHANGED backoff

\* A clean session resets the reconnect delay.
ResetBackoff == backoff' = InitialReconnect

Decide ==
    /\ pc = "decide" /\ ~ctxDone
    /\ pc' = "wait"
    /\ IF err = "error"
         THEN /\ EmitState("reconnecting")
              /\ metrics' = [metrics EXCEPT !.reconnects = @ + 1]
              /\ streak' = streak + 1
              /\ UNCHANGED backoff
         ELSE /\ ResetBackoff
              /\ streak' = 0
              /\ UNCHANGED hookVars
    /\ UNCHANGED <<err, jobs, reply, hbVars, writeMu, ctxDone, linkVars, history,
                   budgets>>

BuggyDoubled(b) == 2 * b

\* backoff *= 2, at most MaxReconnectWait.
Doubled(b) == IF 2 * b > MaxReconnectWait THEN MaxReconnectWait ELSE 2 * b

\* The timer may win the select even when the context is already cancelled.
TimerFires ==
    /\ pc = "wait"
    /\ pc' = "dial"
    /\ backoff' = IF err = "error" THEN Doubled(backoff) ELSE backoff
    /\ err' = "nil"
    /\ UNCHANGED <<jobs, reply, streak, hbVars, writeMu, ctxDone, linkVars,
                   hookVars, history, budgets>>

-----------------------------------------------------------------------------
(* The heartbeat goroutine.                                                *)

HeartbeatTick ==
    /\ hb = "idle"
    /\ hb' = "lock"
    /\ UNCHANGED <<mainVars, heartbeatErr, sessionDone, writeMu, ctxDone, linkVars,
                   hookVars, history, budgets>>

HeartbeatExit ==
    /\ hb = "idle" /\ Done
    /\ hb' = "done"
    /\ UNCHANGED <<mainVars, heartbeatErr, sessionDone, writeMu, ctxDone, linkVars,
                   hookVars, history, budgets>>

HeartbeatLock ==
    /\ hb = "lock" /\ Lock("hb")
    /\ hb' = "write"
    /\ UNCHANGED <<mainVars, heartbeatErr, sessionDone, ctxDone, linkVars, hookVars,
                   history, budgets>>

HeartbeatWriteSucceeds ==
    /\ hb = "write" /\ WriteSucceeds
    /\ writeMu' = "free"
    /\ hb' = "idle"
    /\ UNCHANGED <<mainVars, heartbeatErr, sessionDone, ctxDone, peer, inbox,
                   hookVars, history, sends>>

HeartbeatWriteFails ==
    /\ hb = "write" /\ WriteFails
    /\ writeMu' = "free"
    /\ hb' = "closing"
    /\ UNCHANGED <<mainVars, heartbeatErr, sessionDone, ctxDone, peer, inbox,
                   hookVars, history, sends>>

BuggyCloseConn == UNCHANGED conn

\* conn.Close after a ping that could not be written.
CloseConn == conn' = "closed"

HeartbeatClose ==
    /\ hb = "closing"
    /\ CloseConn
    /\ hb' = "sending"
    /\ UNCHANGED <<mainVars, heartbeatErr, sessionDone, writeMu, ctxDone, peer,
                   inbox, unsent, hookVars, history, budgets>>

\* errs <- err, then the goroutine returns.  The error is a context.Canceled
\* only if the session was over when the write failed.
HeartbeatSendErr ==
    /\ hb = "sending" /\ Len(heartbeatErr) < HeartbeatErrCap
    /\ \E class \in {"failed"} \cup IF Done THEN {"cancelled"} ELSE {} :
           heartbeatErr' = Append(heartbeatErr, class)
    /\ hb' = "done"
    /\ UNCHANGED <<mainVars, sessionDone, writeMu, ctxDone, linkVars, hookVars,
                   history, budgets>>

-----------------------------------------------------------------------------

Handle == \E f \in Frames : \/ HandleMalformed(f)
                            \/ HandleIgnored(f)
                            \/ HandlePing(f)
                            \/ HandleFetch(f)

Dial == DialSucceeds \/ DialFails
Select == SelectDone \/ SelectHeartbeatErr \/ SelectDefault
Fetch == FetchReturns \/ FetchPanics
MainWrite == MainWriteSucceeds \/ MainWriteFails
HeartbeatWrite == HeartbeatWriteSucceeds \/ HeartbeatWriteFails

\* What main does without having to wait for writeMu.
MainStep == \/ Dial \/ Select \/ ReadFails \/ Handle \/ Fetch \/ MainWrite
            \/ CancelSession \/ AwaitHeartbeat \/ Stop \/ Decide \/ TimerFires

HeartbeatStep == HeartbeatWrite \/ HeartbeatClose \/ HeartbeatSendErr

Environment == \/ CancelContext
               \/ \E f \in Frames : ServerSend(f)
               \/ \E end \in StreamEnds : ServerEnds(end)
               \/ LinkDies

Next == \/ MainStep \/ MainLock
        \/ HeartbeatStep \/ HeartbeatTick \/ HeartbeatExit \/ HeartbeatLock
        \/ Environment

Spec == Init /\ [][Next]_vars

\* The Go scheduler runs every goroutine that can run, timers fire, every
\* network call of the client has a deadline or ends with its context, and
\* sync.Mutex hands itself to a waiter that starves (strong fairness).  The
\* heartbeat's select takes a Done that stays ready: a tick is one interval
\* away by then, an interval is longer than the write timeout, and Go picks
\* among ready cases at random.  Nothing is assumed of the server, the
\* network or the caller.
Fairness == /\ WF_vars(MainStep) /\ SF_vars(MainLock)
            /\ WF_vars(HeartbeatStep) /\ WF_vars(HeartbeatTick)
            /\ SF_vars(HeartbeatExit) /\ SF_vars(HeartbeatLock)

FairSpec == Spec /\ Fairness

-----------------------------------------------------------------------------
(* Properties.                                                             *)

\* The type invariant.  It bounds the reconnect delay as well: between
\* InitialReconnect and MaxReconnectWait, whatever the history.
TypeOK ==
    /\ pc \in {"dial", "select", "read", "fetch", "lock", "write", "cancel",
               "await", "decide", "wait", "stopped", "panicked"}
    /\ err \in {"nil", "error", "panic"}
    /\ backoff \in InitialReconnect .. MaxReconnectWait
    /\ jobs \subseteq JobIds
    /\ reply \in Replies
    /\ hb \in {"off", "idle", "lock", "write", "closing", "sending", "done"}
    /\ heartbeatErr \in Seq({"failed", "cancelled"})
    /\ sessionDone \in BOOLEAN /\ ctxDone \in BOOLEAN
    /\ writeMu \in {"free", "main", "hb"}
    /\ conn \in {"none", "open", "closed"}
    /\ peer \in {"up", "gone"}
    /\ inbox \in Seq(Frames \cup StreamEnds)
    /\ unsent \in Nat
    /\ wsState \in {"disconnected", "connected", "reconnecting", "stopped"}
    /\ metrics \in Metrics
    /\ taken \in [JobIds -> Nat] /\ answered \in [JobIds -> Nat]
    /\ jobsTaken \in Nat /\ streak \in Nat
    /\ sends \in Nat /\ faults \in Nat

\* handleFetch is between Registry.Start and its deferred Finish.
InHandler == reply.kind \in JobReplies \cup {"fetching"}

\* No two goroutines are ever inside wsjson.Write on the connection: every
\* write goes through writeJSON and its mutex, and neither goroutine leaves
\* the mutex held when a write fails (client.go:320-331).
OneWriter ==
    /\ ~(pc = "write" /\ hb = "write")
    /\ writeMu = "free" <=> pc # "write" /\ hb # "write"

\* The registry holds exactly the job being served, and nothing outside
\* handleFetch: no path out of it (a failed write, a bad body, an error, a
\* panic, a cancelled session) leaks an id, which would have every later
\* delivery of that job rejected as a duplicate (client.go:243-255).
RegistryExact == jobs = IF InHandler THEN {reply.id} ELSE {}

\* Because jobs are served inside the read loop, a redelivered job is never
\* refused as a duplicate of itself: "duplicate_job_id" is never prepared.
NoFalseDuplicate == reply.kind # "dup"

\* On a link that works, a client that is back in its read loop has answered
\* every job it read in this session exactly as often as it read it, and at
\* no time has it answered one more often than that.
EveryJobAnswered ==
    /\ \A j \in JobIds : answered[j] <= taken[j]
    /\ pc \in {"select", "read"} /\ LinkUp /\ ~ctxDone => answered = taken

\* 2^k
PowerOfTwo[k \in Nat] == IF k = 0 THEN 1 ELSE 2 * PowerOfTwo[k - 1]

\* InitialReconnect doubled k times, cut at MaxReconnectWait.
Delay(k) == LET d == InitialReconnect * PowerOfTwo[k]
            IN  IF d > MaxReconnectWait THEN MaxReconnectWait ELSE d

\* The exponential delay counts exactly the consecutive sessions that ended
\* with an error: the n-th of a row waits Delay(n-1), a clean end waits
\* InitialReconnect and starts over (client.go:98-129).
BackoffLaw ==
    /\ pc = "wait" /\ err = "error" => streak > 0 /\ backoff = Delay(streak - 1)
    /\ pc = "wait" /\ err = "nil" => streak = 0 /\ backoff = InitialReconnect
    /\ pc \notin {"wait", "stopped"} => backoff = Delay(streak)

\* The published state is never behind in these directions: a session is
\* shown as "connected", the wait after an error as "reconnecting", and
\* "stopped" is shown exactly by a client that returned because of its
\* context.  After a session that ended without an error "connected" stays.
StateShown ==
    /\ InSession => wsState = "connected"
    /\ pc = "wait" /\ err = "error" => wsState = "reconnecting"
    /\ wsState = "stopped" <=> pc = "stopped"

\* Success plus Errors counts every job once; one that is in neither is the
\* one in flight, or was lost with a session that ended with an error and has
\* shown, or is about to show, as a reconnect (service.go:260-263,
\* metrics.go:41-67).
JobsAccounted ==
    LET counted == metrics.success + metrics.error
    IN  /\ counted <= jobsTaken
        /\ jobsTaken - counted <= metrics.reconnects
               + IF InHandler \/ err # "nil" THEN 1 ELSE 0

\* The heartbeat goroutine lives inside a session: it has returned, and left
\* nothing in its channel, before runSession returns, so that no ping and no
\* conn.Close of an old session can hit a later one (client.go:158-161).
HeartbeatScoped ==
    /\ hb # "off" <=> InSession
    /\ ~InSession => heartbeatErr = <<>> /\ conn = "none"

\* A cancelled context ends the client, whatever it is doing: nothing waits
\* forever for the heartbeat, the mutex, the network or the timer.
StopsWhenCancelled == ctxDone ~> Over

\* A link that died silently is noticed: the heartbeat's writes fail sooner
\* or later and take the connection down (client.go:199-202).
DeadLinkNoticed == (conn = "open" /\ peer = "gone") ~> (conn # "open")

\* A client that lost its connection gets a new one or ends.
Reconnects == (conn # "open") ~> (conn = "open" \/ Over)

\* Every job that was registered leaves the registry.
EveryJobSettled == \A j \in JobIds : (j \in jobs) ~> (j \notin jobs)

\* What the server sees: a link is up while both ends are there.
Owed == IF LinkUp THEN { j \in JobIds : answered[j] < taken[j] } ELSE {}
LinkState == IF Over THEN "stopped" ELSE IF LinkUp THEN "up" ELSE "down"

Link == INSTANCE ProxyLink WITH link <- LinkState, owed <- Owed

\* The client implements the promise of ProxyLink: every job of a link is
\* answered at most once and on that link, and the next job is not taken
\* before the previous one is answered.
LinkSpec == Link!LSpec

-----------------------------------------------------------------------------
(* What the safety properties need to be inductive.                        *)

\* Who holds writeMu is inside writeJSON's critical section.
LockHeld ==
    /\ writeMu = "main" <=> pc = "write"
    /\ writeMu = "hb" <=> hb = "write"

\* A reply is in preparation exactly where main says so.
ReplyPhase ==
    /\ pc = "fetch" <=> reply.kind = "fetching"
    /\ pc \in {"lock", "write"} <=> reply.kind \in {"pong", "dup"} \cup JobReplies

\* The one job that was taken and is still being answered.
Pending(j) == IF InHandler /\ reply.id = j THEN 1 ELSE 0

\* main serves the session and has not seen its context end.
Serving == \/ pc \in {"read", "fetch", "lock", "write"}
           \/ pc = "select" /\ ~ctxDone

\* The books of a session: nothing is answered that was not taken, and on a
\* link that works nothing is missing but the job in hand.
Ledger ==
    /\ \A j \in JobIds : answered[j] + Pending(j) <= taken[j]
    /\ Serving /\ LinkUp => \A j \in JobIds : answered[j] + Pending(j) = taken[j]
    /\ ~InSession => taken = NoJobs /\ answered = NoJobs

\* A session is cancelled last, and the heartbeat closes no working link.
Endings ==
    /\ sessionDone => pc = "await"
    /\ hb = "closing" => Done \/ ~LinkUp

\* The jobs that were read, are not in hand and were never counted.
Uncounted == jobsTaken - metrics.success - metrics.error - (IF InHandler THEN 1 ELSE 0)

\* A session that runs has no error yet, and a reconnect is counted after each
\* session that ended with one.
Accounts ==
    /\ pc \in {"dial", "select", "read", "fetch", "lock", "write"} => err = "nil"
    /\ pc = "decide" => err # "panic"
    /\ 0 <= Uncounted
    /\ Uncounted <= metrics.reconnects
                       + IF err # "nil" /\ pc # "wait" THEN 1 ELSE 0

SafetyInv == /\ TypeOK /\ LockHeld /\ ReplyPhase
             /\ RegistryExact /\ NoFalseDuplicate /\ HeartbeatScoped
             /\ Ledger /\ Endings /\ Accounts

=============================================================================
