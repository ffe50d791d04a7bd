--------------------------- MODULE WSClient_proofs ---------------------------
(***************************************************************************)
(* Theorems about WSClient, for every set of job ids and kinds of message, *)
(* every bound, and every pair of reconnect delays its assumptions allow.  *)
(***************************************************************************)
EXTENDS WSClient, NatLemmas, TLAPS

\* Doubled keeps a delay in its range.
LEMMA DoubledInRange ==
    \A b \in InitialReconnect .. MaxReconnectWait :
        Doubled(b) \in InitialReconnect .. MaxReconnectWait
  BY ReconnectAssumption DEF Doubled

\* Counting one more event gives metrics again.
LEMMA MetricsCounted ==
    \A m \in Metrics :
        /\ [m EXCEPT !.attempts = @ + 1] \in Metrics
        /\ [m EXCEPT !.reconnects = @ + 1] \in Metrics
        /\ [m EXCEPT !.success = @ + 1] \in Metrics
        /\ [m EXCEPT !.error = @ + 1] \in Metrics
  BY DEF Metrics

\* Counting an answer of a job keeps the count of every job a number.
LEMMA JobCounted ==
    ASSUME NEW g \in [JobIds -> Nat], NEW x
    PROVE  [g EXCEPT ![x] = @ + 1] \in [JobIds -> Nat]
  <1>1. \A y \in JobIds : [g EXCEPT ![x] = @ + 1][y] \in Nat
    <2> SUFFICES ASSUME NEW y \in JobIds PROVE [g EXCEPT ![x] = @ + 1][y] \in Nat
      OBVIOUS
    <2>1. g[y] \in Nat
      OBVIOUS
    <2>2. CASE x = y
      BY <2>1, <2>2
    <2>3. CASE x # y
      BY <2>1, <2>3
    <2>4. QED
      BY <2>2, <2>3
  <1>2. QED
    BY <1>1

\* Every message has a kind and an id.
LEMMA FrameType ==
    /\ \A f \in Frames : f.kind \in Kinds /\ f.id \in JobIds \cup {NoJob}
    /\ \A f \in Frames : f.kind \in JobKinds => f.id \in JobIds
    /\ \A f \in Frames : f \in Frames \cup StreamEnds
  BY DEF Frames

\* The environment and the writes change what they change within the types.
LEMMA EnvironmentTyped == TypeOK /\ Environment => TypeOK'
  <1> SUFFICES ASSUME TypeOK, Environment PROVE TypeOK'
    OBVIOUS
  <1>1. CASE CancelContext
    BY <1>1 DEF TypeOK, CancelContext, mainVars, hbVars, linkVars, hookVars,
                history, budgets
  <1>2. ASSUME NEW f \in Frames, ServerSend(f) PROVE TypeOK'
    <2>1. inbox' \in Seq(Frames \cup StreamEnds)
      BY <1>2, FrameType DEF TypeOK, ServerSend
    <2>2. QED
      BY <1>2, <2>1 DEF TypeOK, ServerSend, mainVars, hbVars, hookVars, history
  <1>3. ASSUME NEW end \in StreamEnds, ServerEnds(end) PROVE TypeOK'
    <2>1. inbox' \in Seq(Frames \cup StreamEnds)
      BY <1>3 DEF TypeOK, ServerEnds
    <2>2. QED
      BY <1>3, <2>1 DEF TypeOK, ServerEnds, mainVars, hbVars, hookVars, history
  <1>4. CASE LinkDies
    BY <1>4 DEF TypeOK, LinkDies, mainVars, hbVars, hookVars, history
  <1>5. QED
    BY <1>1, <1>2, <1>3, <1>4 DEF Environment

\* A write keeps the types of the link it may end.
LEMMA WritesTyped ==
    TypeOK /\ (WriteSucceeds \/ WriteFails) =>
        /\ conn' \in {"none", "open", "closed"}
        /\ unsent' \in Nat
        /\ faults' \in Nat
  BY DEF TypeOK, WriteSucceeds, WriteFails

\* The heartbeat goroutine keeps the types.
LEMMA HeartbeatTyped ==
    TypeOK /\ (HeartbeatStep \/ HeartbeatTick \/ HeartbeatExit \/ HeartbeatLock)
        => TypeOK'
  <1> SUFFICES ASSUME TypeOK,
                      HeartbeatStep \/ HeartbeatTick \/ HeartbeatExit \/ HeartbeatLock
               PROVE TypeOK'
    OBVIOUS
  <1> USE DEF TypeOK, mainVars, hbVars, linkVars, hookVars, history, budgets
  <1>1. CASE HeartbeatWriteSucceeds
    BY <1>1, WritesTyped DEF HeartbeatWriteSucceeds
  <1>2. CASE HeartbeatWriteFails
    BY <1>2, WritesTyped DEF HeartbeatWriteFails
  <1>3. CASE HeartbeatClose
    BY <1>3 DEF HeartbeatClose, CloseConn
  <1>4. CASE HeartbeatSendErr
    <2>1. PICK class \in {"failed", "cancelled"} :
              heartbeatErr' = Append(heartbeatErr, class)
      BY <1>4 DEF HeartbeatSendErr
    <2>2. heartbeatErr' \in Seq({"failed", "cancelled"})
      BY <2>1
    <2>3. QED
      BY <1>4, <2>2 DEF HeartbeatSendErr
  <1>5. CASE HeartbeatTick
    BY <1>5 DEF HeartbeatTick
  <1>6. CASE HeartbeatExit
    BY <1>6 DEF HeartbeatExit
  <1>7. CASE HeartbeatLock
    BY <1>7 DEF HeartbeatLock, Lock
  <1>8. QED
    BY <1>1, <1>2, <1>3, <1>4, <1>5, <1>6, <1>7 DEF HeartbeatStep, HeartbeatWrite

\* main keeps the types.
LEMMA MainTyped == TypeOK /\ (MainStep \/ MainLock) => TypeOK'
  <1> SUFFICES ASSUME TypeOK, MainStep \/ MainLock PROVE TypeOK'
    OBVIOUS
  <1> USE DEF TypeOK, mainVars, hbVars, linkVars, hookVars, history, budgets
  <1>0. NoReply \in Replies /\ NoJobs \in [JobIds -> Nat]
    BY DEF NoReply, Replies, NoJobs
  <1>1. CASE DialSucceeds
    BY <1>1, MetricsCounted DEF DialSucceeds, EmitState
  <1>2. CASE DialFails
    BY <1>2 DEF DialFails
  <1>3. CASE SelectDone
    BY <1>3 DEF SelectDone
  <1>4. CASE SelectHeartbeatErr
    <2>1. heartbeatErr' \in Seq({"failed", "cancelled"})
      BY <1>4 DEF SelectHeartbeatErr
    <2>2. QED
      BY <1>4, <2>1 DEF SelectHeartbeatErr
  <1>5. CASE SelectDefault
    BY <1>5 DEF SelectDefault
  <1>6. CASE ReadFails
    <2>1. inbox' \in Seq(Frames \cup StreamEnds)
      <3>1. inbox # <<>> => Tail(inbox) \in Seq(Frames \cup StreamEnds)
        OBVIOUS
      <3>2. QED
        BY <1>6, <3>1 DEF ReadFails
    <2>2. QED
      BY <1>6, <2>1 DEF ReadFails
  <1>7. ASSUME NEW f \in Frames, Receive(f) PROVE inbox' \in Seq(Frames \cup StreamEnds)
    BY <1>7 DEF Receive
  <1>8. ASSUME NEW f \in Frames, HandleMalformed(f) PROVE TypeOK'
    BY <1>7, <1>8 DEF HandleMalformed
  <1>9. ASSUME NEW f \in Frames, HandleIgnored(f) PROVE TypeOK'
    BY <1>7, <1>9 DEF HandleIgnored
  <1>10. ASSUME NEW f \in Frames, HandlePing(f) PROVE TypeOK'
    <2>1. reply' \in Replies
      BY <1>10 DEF HandlePing, Replies
    <2>2. QED
      BY <1>7, <1>10, <2>1 DEF HandlePing
  <1>11. ASSUME NEW f \in Frames, HandleFetch(f) PROVE TypeOK'
    <2>1. f.id \in JobIds
      BY <1>11, FrameType DEF HandleFetch
    <2>2. reply' \in Replies
      BY <1>11, <2>1 DEF HandleFetch, Replies, JobReplies
    <2>3. jobs' \subseteq JobIds /\ taken' \in [JobIds -> Nat] /\ pc' \in {"fetch", "lock"}
      BY <1>11, <2>1 DEF HandleFetch, RegistryStart
    <2>4. QED
      BY <1>7, <1>11, <2>2, <2>3 DEF HandleFetch
  <1>12. CASE FetchReturns
    <2>1. reply' \in Replies
      BY <1>12 DEF FetchReturns, Replies, JobReplies
    <2>2. QED
      BY <1>12, <2>1 DEF FetchReturns
  <1>13. CASE FetchPanics
    BY <1>0, <1>13 DEF FetchPanics, RegistryFinish
  <1>14. ASSUME EmitJobResult(reply)
         PROVE metrics' \in Metrics
    BY <1>14, MetricsCounted DEF EmitJobResult
  <1>15. CASE MainWriteSucceeds
    <2>1. answered' \in [JobIds -> Nat]
      <3>1. [answered EXCEPT ![reply.id] = @ + 1] \in [JobIds -> Nat]
        BY JobCounted
      <3>2. QED
        BY <1>15, <3>1 DEF MainWriteSucceeds
    <2>2. jobs' \subseteq JobIds
      BY <1>15 DEF MainWriteSucceeds, RegistryFinish
    <2>3. QED
      BY <1>0, <1>14, <1>15, <2>1, <2>2, WritesTyped DEF MainWriteSucceeds
  <1>16. CASE MainWriteFails
    <2>1. jobs' \subseteq JobIds
      BY <1>16 DEF MainWriteFails, RegistryFinish
    <2>2. metrics' \in Metrics
      BY <1>14, <1>16 DEF MainWriteFails
    <2>3. QED
      BY <1>0, <1>16, <2>1, <2>2, WritesTyped DEF MainWriteFails
  <1>17. CASE CancelSession
    BY <1>17 DEF CancelSession
  <1>18. CASE AwaitHeartbeat
    <2>1. inbox' \in Seq(Frames \cup StreamEnds) /\ heartbeatErr' \in Seq({"failed", "cancelled"})
      BY <1>18 DEF AwaitHeartbeat
    <2>2. QED
      BY <1>0, <1>18, <2>1 DEF AwaitHeartbeat, HeartbeatReaped, CancelAll
  <1>19. CASE Stop
    BY <1>19 DEF Stop, EmitState, CancelAll
  <1>20. CASE Decide
    <2>1. backoff' \in InitialReconnect .. MaxReconnectWait
      BY <1>20, ReconnectAssumption DEF Decide, ResetBackoff
    <2>2. metrics' \in Metrics
      BY <1>20, MetricsCounted DEF Decide, hookVars
    <2>3. wsState' \in {"disconnected", "connected", "reconnecting", "stopped"}
      BY <1>20 DEF Decide, EmitState
    <2>4. QED
      BY <1>20, <2>1, <2>2, <2>3 DEF Decide
  <1>21. CASE TimerFires
    BY <1>21, DoubledInRange DEF TimerFires
  <1>22. CASE MainLock
    BY <1>22 DEF MainLock, Lock
  <1>23. QED
    BY <1>1, <1>2, <1>3, <1>4, <1>5, <1>6, <1>8, <1>9, <1>10, <1>11, <1>12, <1>13,
       <1>15, <1>16, <1>17, <1>18, <1>19, <1>20, <1>21, <1>22
    DEF MainStep, Dial, Select, Handle, Fetch, MainWrite

\* The first state and every step keep the types.
LEMMA InitTyped == Init => TypeOK
  <1> SUFFICES ASSUME Init PROVE TypeOK
    OBVIOUS
  <1>1. NoReply \in Replies /\ NoJobs \in [JobIds -> Nat]
    BY DEF NoReply, Replies, NoJobs
  <1>2. heartbeatErr \in Seq({"failed", "cancelled"}) /\ inbox \in Seq(Frames \cup StreamEnds)
    BY DEF Init
  <1>3. metrics \in Metrics
    BY DEF Init, Metrics
  <1>4. backoff \in InitialReconnect .. MaxReconnectWait
    BY ReconnectAssumption DEF Init
  <1>5. QED
    BY <1>1, <1>2, <1>3, <1>4, ConstantsAssumption DEF Init, TypeOK

\* Every step keeps the types.
LEMMA TypeStep == TypeOK /\ [Next]_vars => TypeOK'
  <1> SUFFICES ASSUME TypeOK, [Next]_vars PROVE TypeOK'
    OBVIOUS
  <1>1. CASE Next
    BY <1>1, MainTyped, HeartbeatTyped, EnvironmentTyped DEF Next
  <1>2. CASE UNCHANGED vars
    BY <1>2 DEF TypeOK, vars, mainVars, hbVars, linkVars, hookVars, history, budgets
  <1>3. QED
    BY <1>1, <1>2

\* The client's variables keep their types; in particular its reconnect delay
\* stays between InitialReconnect and MaxReconnectWait.
THEOREM TypeCorrect == Spec => []TypeOK
  <1>1. QED
    BY InitTyped, TypeStep, PTL DEF Spec

-----------------------------------------------------------------------------
(* The reconnect delay.                                                    *)

\* The powers of two are what their recursive definition says.
LEMMA Powers ==
    /\ PowerOfTwo[0] = 1
    /\ \A k \in Nat : PowerOfTwo[k] \in Nat \ {0} /\ PowerOfTwo[k + 1] = 2 * PowerOfTwo[k]
  <1> DEFINE Positive == Nat \ {0}
             double == [n \in Nat |-> [i \in Positive |-> 2 * i]]
  <1>1. PICK p : Recursive(p, Positive, 1, double)
    <2>1. 1 \in Positive /\ double \in [Nat -> [Positive -> Positive]]
      OBVIOUS
    <2> HIDE DEF Positive, double
    <2>2. QED BY <2>1, Recursion
  <1>2. p = [k \in Nat |-> IF k = 0 THEN 1 ELSE 2 * p[k - 1]]
    <2>1. ASSUME NEW k \in Nat, k # 0 PROVE p[k] = 2 * p[k - 1]
      <3>1. k - 1 \in Nat /\ (k - 1) + 1 = k
        BY <2>1
      <3>2. p[(k - 1) + 1] = double[k - 1][p[k - 1]]
        BY <1>1, <3>1 DEF Recursive
      <3>3. QED BY <1>1, <3>1, <3>2 DEF Recursive
    <2>2. QED BY <1>1, <2>1 DEF Recursive
  <1>3. PowerOfTwo = [k \in Nat |-> IF k = 0 THEN 1 ELSE 2 * PowerOfTwo[k - 1]]
    BY <1>2 DEF PowerOfTwo
  <1>4. ASSUME NEW k \in Nat PROVE PowerOfTwo[k + 1] = 2 * PowerOfTwo[k]
    <2>1. k + 1 \in Nat /\ k + 1 # 0 /\ (k + 1) - 1 = k
      OBVIOUS
    <2>2. QED BY <1>3, <2>1
  <1>5. PowerOfTwo[0] = 1
    BY <1>3
  <1>6. \A k \in Nat : PowerOfTwo[k] \in Nat \ {0}
    <2> DEFINE S == {k \in Nat : PowerOfTwo[k] \in Nat \ {0}}
    <2>1. 0 \in S
      BY <1>5
    <2>2. \A k \in Nat : k \in S => k + 1 \in S
      BY <1>4
    <2> HIDE DEF S
    <2>3. Nat \subseteq S
      BY <2>1, <2>2, Induction
    <2>4. QED BY <2>3 DEF S
  <1>7. QED BY <1>4, <1>5, <1>6

\* Cutting at the maximum after every doubling is cutting once at the end.
LEMMA DelayDoubles ==
    /\ Delay(0) = InitialReconnect
    /\ \A k \in Nat : Doubled(Delay(k)) = Delay(k + 1)
  <1>1. Delay(0) = InitialReconnect
    BY Powers, ReconnectAssumption DEF Delay
  <1>2. ASSUME NEW k \in Nat PROVE Doubled(Delay(k)) = Delay(k + 1)
    <2> DEFINE d == InitialReconnect * PowerOfTwo[k]
    <2>1. d \in Nat
      BY Powers, ReconnectAssumption
    <2>2. InitialReconnect * PowerOfTwo[k + 1] = 2 * d
      BY Powers, ReconnectAssumption
    <2>3. /\ Delay(k) = IF d > MaxReconnectWait THEN MaxReconnectWait ELSE d
          /\ Delay(k + 1) = IF 2 * d > MaxReconnectWait THEN MaxReconnectWait ELSE 2 * d
      BY <2>2 DEF Delay
    <2> HIDE DEF d
    <2>4. QED BY <2>1, <2>3, ReconnectAssumption DEF Doubled
  <1>3. QED BY <1>1, <1>2

\* A client that has panicked neither decides nor waits.
BackoffInv == BackoffLaw /\ (pc \in {"decide", "wait"} => err # "panic")

\* Only Decide and TimerFires touch the delay and the row of errors.
LEMMA BackoffStep == TypeOK /\ BackoffInv /\ [Next]_vars => BackoffInv'
  <1> SUFFICES ASSUME TypeOK, BackoffInv, [Next]_vars PROVE BackoffInv'
    OBVIOUS
  <1>1. ASSUME UNCHANGED <<backoff, streak>>, pc' \notin {"decide", "wait"},
               pc' # "stopped" => pc \notin {"wait", "stopped"}
        PROVE  BackoffInv'
    BY <1>1 DEF BackoffInv, BackoffLaw
  <1> USE DEF mainVars
  <1>2. CASE DialSucceeds \/ Select \/ ReadFails \/ Handle \/ Fetch \/ MainWrite
               \/ CancelSession \/ Stop \/ MainLock
    BY <1>1, <1>2 DEF DialSucceeds, Select, SelectDone, SelectHeartbeatErr, SelectDefault,
       ReadFails, Handle, Receive, HandleMalformed, HandleIgnored, HandlePing, HandleFetch,
       Fetch, FetchReturns, FetchPanics, MainWrite, MainWriteSucceeds, MainWriteFails,
       CancelSession, Stop, MainLock
  <1>3. ASSUME UNCHANGED <<backoff, streak>>, pc \notin {"wait", "stopped"},
               pc' = "decide", err' # "panic"
        PROVE  BackoffInv'
    BY <1>3 DEF BackoffInv, BackoffLaw
  <1>4. CASE DialFails
    BY <1>3, <1>4 DEF DialFails
  <1>5. CASE AwaitHeartbeat
    BY <1>1, <1>3, <1>5 DEF AwaitHeartbeat
  <1>6. CASE Decide
    <2>1. backoff = Delay(streak) /\ streak \in Nat /\ pc' = "wait"
      BY <1>6 DEF Decide, BackoffInv, BackoffLaw, TypeOK
    <2>2. CASE err = "error"
      BY <1>6, <2>1, <2>2 DEF Decide, BackoffInv, BackoffLaw
    <2>3. CASE err = "nil"
      BY <1>6, <2>1, <2>3 DEF Decide, ResetBackoff, BackoffInv, BackoffLaw
    <2>4. QED BY <1>6, <2>2, <2>3 DEF Decide, BackoffInv, TypeOK
  <1>7. CASE TimerFires
    <2>1. pc = "wait" /\ pc' = "dial" /\ streak' = streak /\ streak \in Nat /\ err' = "nil"
      BY <1>7 DEF TimerFires, TypeOK
    <2>2. CASE err = "error"
      <3>1. streak - 1 \in Nat /\ (streak - 1) + 1 = streak /\ backoff = Delay(streak - 1)
        BY <2>1, <2>2 DEF BackoffInv, BackoffLaw
      <3>2. backoff' = Delay(streak)
        BY <1>7, <2>2, <3>1, DelayDoubles DEF TimerFires
      <3>3. QED BY <2>1, <3>2 DEF BackoffInv, BackoffLaw
    <2>3. CASE err = "nil"
      BY <1>7, <2>1, <2>3, DelayDoubles DEF TimerFires, BackoffInv, BackoffLaw
    <2>4. QED BY <2>1, <2>2, <2>3 DEF BackoffInv, TypeOK
  <1>8. CASE UNCHANGED <<pc, err, backoff, streak>>
    BY <1>8 DEF BackoffInv, BackoffLaw
  <1>9. CASE Environment \/ HeartbeatStep \/ HeartbeatTick \/ HeartbeatExit \/ HeartbeatLock
    BY <1>8, <1>9 DEF Environment, CancelContext, ServerSend, ServerEnds, LinkDies,
       HeartbeatStep, HeartbeatWrite, HeartbeatWriteSucceeds, HeartbeatWriteFails,
       HeartbeatClose, HeartbeatSendErr, HeartbeatTick, HeartbeatExit, HeartbeatLock
  <1>10. CASE UNCHANGED vars
    BY <1>8, <1>10 DEF vars
  <1>11. QED
    BY <1>2, <1>4, <1>5, <1>6, <1>7, <1>9, <1>10 DEF Next, MainStep, Dial

\* The delay before a session is InitialReconnect doubled once for every
\* session in a row that ended with an error, cut at MaxReconnectWait, however
\* long the row: a clean end starts the row again (client.go:98-129).
THEOREM BackoffLawAlways == Spec => []BackoffLaw
  <1>1. Init => BackoffInv
    BY DelayDoubles DEF Init, BackoffInv, BackoffLaw
  <1>2. BackoffInv => BackoffLaw
    BY DEF BackoffInv
  <1>3. QED BY <1>1, <1>2, BackoffStep, InitTyped, TypeStep, PTL DEF Spec

-----------------------------------------------------------------------------
(* SafetyInv is inductive.  Each of its parts has a lemma of its own.      *)

\* Whoever is inside writeJSON holds its mutex.
LEMMA LockHeldStep == TypeOK /\ HeartbeatScoped /\ LockHeld /\ Next => LockHeld'
  <1> SUFFICES ASSUME TypeOK, HeartbeatScoped, LockHeld, Next PROVE LockHeld'
    OBVIOUS
  <1> USE DEF LockHeld, mainVars, hbVars
  <1>1. CASE Dial \/ Select \/ ReadFails \/ CancelSession \/ Stop \/ Decide \/ TimerFires
    BY <1>1 DEF Dial, DialSucceeds, DialFails, Select, SelectDone, SelectHeartbeatErr,
                SelectDefault, ReadFails, CancelSession, Stop, Decide, TimerFires,
                HeartbeatScoped, InSession
  <1>2. CASE AwaitHeartbeat
    BY <1>2 DEF AwaitHeartbeat, HeartbeatReaped
  <1>3. CASE Handle
    BY <1>3 DEF Handle, HandleMalformed, HandleIgnored, HandlePing, HandleFetch, Receive
  <1>4. CASE Fetch
    BY <1>4 DEF Fetch, FetchReturns, FetchPanics
  <1>5. CASE MainLock \/ MainWrite
    BY <1>5 DEF MainLock, Lock, MainWrite, MainWriteSucceeds, MainWriteFails
  <1>6. CASE HeartbeatStep \/ HeartbeatTick \/ HeartbeatExit \/ HeartbeatLock
    BY <1>6 DEF HeartbeatStep, HeartbeatWrite, HeartbeatWriteSucceeds,
                HeartbeatWriteFails, HeartbeatClose, HeartbeatSendErr, HeartbeatTick,
                HeartbeatExit, HeartbeatLock, Lock
  <1>7. CASE Environment
    BY <1>7 DEF Environment, CancelContext, ServerSend, ServerEnds, LinkDies
  <1>8. QED
    BY <1>1, <1>2, <1>3, <1>4, <1>5, <1>6, <1>7 DEF Next, MainStep

\* The job registry follows the job in hand through every way out of
\* handleFetch, so that a delivered job is never taken for a duplicate.
JobInv == ReplyPhase /\ RegistryExact /\ NoFalseDuplicate

\* The registry, the reply in hand and the program counter stay in step.
LEMMA JobInvStep == TypeOK /\ JobInv /\ Next => JobInv'
  <1> SUFFICES ASSUME TypeOK, JobInv, Next PROVE JobInv'
    OBVIOUS
  <1> USE DEF JobInv, ReplyPhase, RegistryExact, NoFalseDuplicate, InHandler, JobReplies,
              NoReply, mainVars
  <1>1. CASE Dial \/ Select \/ ReadFails \/ CancelSession \/ Decide \/ TimerFires \/ MainLock
    BY <1>1 DEF Dial, DialSucceeds, DialFails, Select, SelectDone, SelectHeartbeatErr,
                SelectDefault, ReadFails, CancelSession, Decide, TimerFires, MainLock
  <1>2. CASE AwaitHeartbeat \/ Stop
    BY <1>2 DEF AwaitHeartbeat, Stop, CancelAll
  <1>3. ASSUME NEW f \in Frames, HandleMalformed(f) \/ HandleIgnored(f) \/ HandlePing(f)
        PROVE  JobInv'
    BY <1>3 DEF HandleMalformed, HandleIgnored, HandlePing, Receive
  <1>4. ASSUME NEW f \in Frames, HandleFetch(f) PROVE JobInv'
    <2>1. pc = "read" /\ jobs = {}
      BY <1>4 DEF HandleFetch, Receive, TypeOK, Replies
    <2>2. /\ reply' = [kind |-> IF f.kind = "badbody" THEN "bad" ELSE "fetching", id |-> f.id]
          /\ jobs' = {f.id}
      BY <1>4, <2>1 DEF HandleFetch, RegistryStart
    <2>3. pc' = IF reply'.kind = "fetching" THEN "fetch" ELSE "lock"
      BY <1>4 DEF HandleFetch
    <2>4. QED
      BY <2>2, <2>3
  <1>5. CASE FetchReturns
    <2>1. PICK outcome \in {"result", "error"} : reply' = [reply EXCEPT !.kind = outcome]
      BY <1>5 DEF FetchReturns
    <2>2. reply' = [kind |-> outcome, id |-> reply.id]
      BY <2>1 DEF TypeOK, Replies
    <2>3. QED
      BY <1>5, <2>2 DEF FetchReturns
  <1>6. CASE FetchPanics
    BY <1>6 DEF FetchPanics, RegistryFinish
  <1>7. CASE MainWriteSucceeds
    BY <1>7 DEF MainWriteSucceeds, RegistryFinish
  <1>8. CASE MainWriteFails
    BY <1>8 DEF MainWriteFails, RegistryFinish
  <1>9. CASE HeartbeatStep \/ HeartbeatTick \/ HeartbeatExit \/ HeartbeatLock
    BY <1>9 DEF HeartbeatStep, HeartbeatWrite, HeartbeatWriteSucceeds,
                HeartbeatWriteFails, HeartbeatClose, HeartbeatSendErr, HeartbeatTick,
                HeartbeatExit, HeartbeatLock
  <1>10. CASE Environment
    BY <1>10 DEF Environment, CancelContext, ServerSend, ServerEnds, LinkDies
  <1>11. QED
    BY <1>1, <1>2, <1>3, <1>4, <1>5, <1>6, <1>7, <1>8, <1>9, <1>10
    DEF Next, MainStep, Handle, Fetch, MainWrite

\* The heartbeat goroutine starts and ends with its session.
LEMMA HeartbeatScopedStep == TypeOK /\ HeartbeatScoped /\ Next => HeartbeatScoped'
  <1> SUFFICES ASSUME TypeOK, HeartbeatScoped, Next PROVE HeartbeatScoped'
    OBVIOUS
  <1> USE DEF HeartbeatScoped, InSession, mainVars, hbVars, linkVars
  <1>1. CASE Dial \/ Select \/ ReadFails \/ CancelSession \/ Stop \/ Decide \/ TimerFires
             \/ MainLock
    BY <1>1 DEF Dial, DialSucceeds, DialFails, Select, SelectDone, SelectHeartbeatErr,
                SelectDefault, ReadFails, CancelSession, Stop, Decide, TimerFires, MainLock
  <1>2. CASE AwaitHeartbeat
    BY <1>2 DEF AwaitHeartbeat, HeartbeatReaped
  <1>3. CASE Handle
    BY <1>3 DEF Handle, HandleMalformed, HandleIgnored, HandlePing, HandleFetch, Receive
  <1>4. CASE Fetch
    BY <1>4 DEF Fetch, FetchReturns, FetchPanics
  <1>5. CASE MainWrite
    BY <1>5 DEF MainWrite, MainWriteSucceeds, MainWriteFails
  <1>6. CASE HeartbeatStep \/ HeartbeatTick \/ HeartbeatExit \/ HeartbeatLock
    BY <1>6 DEF HeartbeatStep, HeartbeatWrite, HeartbeatWriteSucceeds,
                HeartbeatWriteFails, HeartbeatClose, HeartbeatSendErr, HeartbeatTick,
                HeartbeatExit, HeartbeatLock
  <1>7. CASE Environment
    BY <1>7 DEF Environment, CancelContext, ServerSend, ServerEnds, LinkDies
  <1>8. QED
    BY <1>1, <1>2, <1>3, <1>4, <1>5, <1>6, <1>7 DEF Next, MainStep

\* The books of a session, and what its end does to them.
LedgerInv == Ledger /\ Endings

\* A step that moves neither main nor a job leaves the books in order, if it
\* can only take the link down.
LEMMA LedgerKept ==
    ASSUME LedgerInv,
           UNCHANGED <<pc, reply, taken, answered, sessionDone>>,
           LinkUp' => LinkUp, ctxDone => ctxDone',
           hb' = "closing" => hb = "closing" \/ Done' \/ ~LinkUp'
    PROVE  LedgerInv'
  BY DEF LedgerInv, Ledger, Endings, Pending, InHandler, Serving, InSession, Done

\* The books of the session stay balanced.
LEMMA LedgerInvStep == TypeOK /\ JobInv /\ LedgerInv /\ Next => LedgerInv'
  <1> SUFFICES ASSUME TypeOK, JobInv, LedgerInv, Next PROVE LedgerInv'
    OBVIOUS
  <1> USE DEF mainVars, hbVars, linkVars, history
  <1>1. CASE Environment
    BY <1>1, LedgerKept DEF Environment, CancelContext, ServerSend, ServerEnds, LinkDies,
                            LinkUp, TypeOK
  <1>2. CASE HeartbeatWriteSucceeds \/ HeartbeatClose \/ HeartbeatSendErr \/ HeartbeatTick
             \/ HeartbeatExit \/ HeartbeatLock
    BY <1>2, LedgerKept
    DEF HeartbeatWriteSucceeds, WriteSucceeds, HeartbeatClose, CloseConn, HeartbeatSendErr,
        HeartbeatTick, HeartbeatExit, HeartbeatLock, LinkUp
  <1>3. CASE HeartbeatWriteFails
    <2>1. Done' \/ ~LinkUp'
      BY <1>3 DEF HeartbeatWriteFails, WriteFails, LinkUp, Done
    <2>2. LinkUp' => LinkUp
      BY <1>3 DEF HeartbeatWriteFails, WriteFails, LinkUp, TypeOK
    <2>3. QED
      BY <1>3, <2>1, <2>2, LedgerKept DEF HeartbeatWriteFails
  <1>4. CASE DialSucceeds
    <2>1. taken' = NoJobs /\ answered' = NoJobs /\ reply'.kind = "idle" /\ hb' = "idle"
      BY <1>4 DEF DialSucceeds, LedgerInv, Ledger, InSession, JobInv, ReplyPhase,
                  TypeOK, Replies, JobReplies
    <2>2. \A j \in JobIds : taken'[j] = 0 /\ answered'[j] = 0 /\ Pending(j)' = 0
      BY <2>1 DEF NoJobs, Pending, InHandler, JobReplies
    <2>3. QED
      BY <1>4, <2>1, <2>2 DEF DialSucceeds, LedgerInv, Ledger, Endings, InSession
  <1>5. CASE DialFails \/ Stop \/ Decide \/ TimerFires
    <2>1. UNCHANGED <<reply, taken, answered, sessionDone, hb, conn, peer, ctxDone>>
      BY <1>5 DEF DialFails, Stop, Decide, TimerFires
    <2>2. ~InSession /\ ~InSession' /\ ~Serving'
      BY <1>5 DEF DialFails, Stop, Decide, TimerFires, InSession, Serving
    <2>3. QED
      BY <2>1, <2>2 DEF LedgerInv, Ledger, Endings, Pending, InHandler, LinkUp, Done,
                        InSession
  <1>6. CASE Select \/ ReadFails \/ CancelSession \/ MainLock
    <2>1. UNCHANGED <<reply, taken, answered, hb, ctxDone>> /\ (LinkUp' => LinkUp)
      BY <1>6 DEF Select, SelectDone, SelectHeartbeatErr, SelectDefault, ReadFails,
                  CancelSession, MainLock, LinkUp
    <2>2. InSession /\ InSession' /\ (Serving' => Serving)
      <3>1. CASE SelectDefault
        BY <3>1 DEF SelectDefault, InSession, Serving, Done
      <3>2. CASE SelectDone \/ SelectHeartbeatErr \/ ReadFails \/ CancelSession
        BY <3>2 DEF SelectDone, SelectHeartbeatErr, ReadFails, CancelSession, InSession,
                    Serving
      <3>3. CASE MainLock
        BY <3>3 DEF MainLock, InSession, Serving
      <3>4. QED
        BY <1>6, <3>1, <3>2, <3>3 DEF Select
    <2>3. (sessionDone' => pc' = "await") /\ (Done => Done')
      BY <1>6 DEF Select, SelectDone, SelectHeartbeatErr, SelectDefault, ReadFails,
                  CancelSession, MainLock, LedgerInv, Endings, Done
    <2>4. QED
      BY <2>1, <2>2, <2>3 DEF LedgerInv, Ledger, Endings, Pending, InHandler
  <1>7. CASE AwaitHeartbeat
    <2>1. taken' = NoJobs /\ answered' = NoJobs /\ reply'.kind = "idle"
      BY <1>7 DEF AwaitHeartbeat, JobInv, ReplyPhase, TypeOK, Replies, JobReplies
    <2>2. \A j \in JobIds : taken'[j] = 0 /\ answered'[j] = 0 /\ Pending(j)' = 0
      BY <2>1 DEF NoJobs, Pending, InHandler, JobReplies
    <2>3. ~Serving' /\ hb' = "off" /\ ~sessionDone'
      BY <1>7 DEF AwaitHeartbeat, HeartbeatReaped, Serving
    <2>4. QED
      BY <2>1, <2>2, <2>3 DEF LedgerInv, Ledger, Endings
  <1>8. ASSUME NEW f \in Frames, HandleMalformed(f) \/ HandleIgnored(f) \/ HandlePing(f)
        PROVE  LedgerInv'
    <2>1. UNCHANGED <<taken, answered, hb, ctxDone, conn, peer, sessionDone>> /\ pc = "read"
      BY <1>8 DEF HandleMalformed, HandleIgnored, HandlePing, Receive
    <2>2. InSession' /\ reply.kind \in {"idle"} /\ reply'.kind \in {"idle", "pong"}
      BY <1>8, <2>1 DEF HandleMalformed, HandleIgnored, HandlePing, InSession, JobInv,
                        ReplyPhase, TypeOK, Replies, JobReplies
    <2>3. \A j \in JobIds : Pending(j) = 0 /\ Pending(j)' = 0
      BY <2>2 DEF Pending, InHandler, JobReplies
    <2>4. QED
      BY <2>1, <2>2, <2>3 DEF LedgerInv, Ledger, Endings, LinkUp, Done, Serving, InSession
  <1>9. ASSUME NEW f \in Frames, HandleFetch(f) PROVE LedgerInv'
    <2>1. /\ UNCHANGED <<answered, hb, ctxDone, conn, peer, sessionDone>>
          /\ taken' = [taken EXCEPT ![f.id] = @ + 1]
          /\ pc = "read" /\ f.id \in JobIds
      BY <1>9, FrameType DEF HandleFetch, Receive
    <2>2. reply.kind = "idle" /\ reply'.id = f.id /\ reply'.kind \in {"bad", "fetching"}
      BY <1>9, <2>1 DEF HandleFetch, Receive, JobInv, ReplyPhase, RegistryExact, InHandler,
                        TypeOK, Replies, JobReplies
    <2>3. \A j \in JobIds : /\ Pending(j) = 0
                            /\ Pending(j)' = IF j = f.id THEN 1 ELSE 0
                            /\ taken'[j] = IF j = f.id THEN taken[j] + 1 ELSE taken[j]
      BY <2>1, <2>2 DEF Pending, InHandler, JobReplies, TypeOK
    <2>4. InSession' /\ pc' # "await"
      BY <1>9 DEF HandleFetch, InSession
    <2>5. \A j \in JobIds : taken[j] \in Nat /\ answered[j] \in Nat
      BY DEF TypeOK
    <2>6. QED
      BY <2>1, <2>3, <2>4, <2>5 DEF LedgerInv, Ledger, Endings, LinkUp, Done, Serving
  <1>10. CASE FetchReturns
    <2>1. PICK outcome \in {"result", "error"} : reply' = [reply EXCEPT !.kind = outcome]
      BY <1>10 DEF FetchReturns
    <2>2. reply' = [kind |-> outcome, id |-> reply.id] /\ reply.kind = "fetching"
      BY <1>10, <2>1 DEF FetchReturns, TypeOK, Replies, JobInv, ReplyPhase
    <2>3. \A j \in JobIds : Pending(j)' = Pending(j)
      BY <2>2 DEF Pending, InHandler, JobReplies
    <2>4. UNCHANGED <<taken, answered, hb, ctxDone, conn, peer, sessionDone>>
      BY <1>10 DEF FetchReturns
    <2>5. InSession' /\ Serving /\ pc' # "await"
      BY <1>10 DEF FetchReturns, InSession, Serving
    <2>6. QED
      BY <1>10, <2>3, <2>4, <2>5
      DEF FetchReturns, LedgerInv, Ledger, Endings, LinkUp, Done
  <1>11. CASE FetchPanics
    <2>1. UNCHANGED <<taken, answered, hb, ctxDone, conn, peer, sessionDone>>
      BY <1>11 DEF FetchPanics
    <2>2. InSession' /\ ~Serving' /\ pc = "fetch" /\ reply'.kind = "idle"
      BY <1>11 DEF FetchPanics, InSession, Serving, NoReply
    <2>3. \A j \in JobIds : Pending(j)' = 0 /\ Pending(j) \in Nat
                            /\ taken[j] \in Nat /\ answered[j] \in Nat
      BY <2>2 DEF Pending, InHandler, JobReplies, TypeOK
    <2>4. QED
      BY <2>1, <2>2, <2>3 DEF LedgerInv, Ledger, Endings, LinkUp, Done
  <1>12. CASE MainWriteSucceeds
    <2>1. /\ UNCHANGED <<taken, hb, ctxDone, conn, peer, sessionDone>>
          /\ pc = "write" /\ pc' = "select" /\ reply' = NoReply
      BY <1>12 DEF MainWriteSucceeds, WriteSucceeds
    <2>2. reply.kind \in {"pong", "dup"} \cup JobReplies /\ reply.kind # "dup"
      BY <2>1 DEF JobInv, ReplyPhase, NoFalseDuplicate
    <2>3. \A j \in JobIds : taken[j] \in Nat /\ answered[j] \in Nat
      BY DEF TypeOK
    <2>4. \A j \in JobIds : /\ Pending(j)' = 0
                            /\ answered'[j] = answered[j] + Pending(j)
      <3>1. CASE reply.kind = "pong"
        BY <1>12, <2>1, <2>3, <3>1 DEF MainWriteSucceeds, Pending, InHandler, NoReply, JobReplies
      <3>2. CASE reply.kind \in JobReplies
        <4>1. answered' = [answered EXCEPT ![reply.id] = @ + 1]
          BY <1>12, <3>2 DEF MainWriteSucceeds, JobReplies
        <4>2. QED
          BY <2>1, <2>3, <3>2, <4>1 DEF Pending, InHandler, NoReply, JobReplies, TypeOK
      <3>3. QED
        BY <2>2, <3>1, <3>2
    <2>5. \A j \in JobIds : Pending(j) \in Nat
      BY DEF Pending
    <2>6. InSession' /\ Serving /\ ~sessionDone
      BY <2>1 DEF InSession, Serving, LedgerInv, Endings
    <2>7. \A j \in JobIds : answered'[j] + Pending(j)' = answered[j] + Pending(j)
      BY <2>3, <2>4, <2>5
    <2>8. Ledger'
      <3>1. \A j \in JobIds : answered'[j] + Pending(j)' <= taken'[j]
        BY <2>1, <2>7 DEF LedgerInv, Ledger
      <3>2. LinkUp' /\ Serving' => \A j \in JobIds : answered'[j] + Pending(j)' = taken'[j]
        BY <2>1, <2>6, <2>7 DEF LedgerInv, Ledger, LinkUp
      <3>3. QED
        BY <2>6, <3>1, <3>2 DEF Ledger
    <2>9. QED
      BY <2>1, <2>6, <2>8 DEF LedgerInv, Endings, LinkUp, Done
  <1>13. CASE MainWriteFails
    <2>1. /\ UNCHANGED <<taken, answered, hb, ctxDone, peer, sessionDone>>
          /\ pc = "write" /\ pc' \in {"select", "cancel"} /\ reply' = NoReply
      BY <1>13 DEF MainWriteFails, history
    <2>2. ~LinkUp' \/ ctxDone
      BY <1>13, <2>1 DEF MainWriteFails, WriteFails, LinkUp, Done, LedgerInv, Endings
    <2>3. (LinkUp' => LinkUp)
      BY <1>13 DEF MainWriteFails, WriteFails, LinkUp, TypeOK
    <2>4. \A j \in JobIds : /\ Pending(j)' = 0 /\ Pending(j) \in Nat
                            /\ taken[j] \in Nat /\ answered[j] \in Nat
      BY <2>1 DEF Pending, InHandler, NoReply, JobReplies, TypeOK
    <2>5. InSession' /\ ~sessionDone'
      BY <2>1 DEF InSession, LedgerInv, Endings
    <2>6. ~LinkUp' \/ ~Serving'
      BY <2>1, <2>2 DEF Serving
    <2>7. Ledger'
      BY <2>1, <2>4, <2>5, <2>6 DEF LedgerInv, Ledger
    <2>8. QED
      BY <2>1, <2>3, <2>5, <2>7 DEF LedgerInv, Endings, Done
  <1>14. QED
    BY <1>1, <1>2, <1>3, <1>4, <1>5, <1>6, <1>7, <1>8, <1>9, <1>10, <1>11, <1>12, <1>13
    DEF Next, MainStep, Dial, Handle, Fetch, MainWrite, HeartbeatStep, HeartbeatWrite

\* A step that counts nothing, takes no job and ends no session in error.
LEMMA AccountsKept ==
    ASSUME Accounts, UNCHANGED <<pc, err, reply, metrics, jobsTaken>>
    PROVE  Accounts'
  BY DEF Accounts, Uncounted, InHandler

\* The counters are numbers, as the arithmetic needs to know.
LEMMA CountsTyped ==
    TypeOK => /\ metrics.success \in Nat /\ metrics.error \in Nat
              /\ metrics.reconnects \in Nat /\ jobsTaken \in Nat
  BY DEF TypeOK, Metrics

\* Reporting a job's reply moves one job from the handler to a counter.
LEMMA ReportedOnce ==
    TypeOK /\ reply.kind \in JobReplies /\ EmitJobResult(reply)
        /\ jobsTaken' = jobsTaken /\ ~InHandler'
    => Uncounted' = Uncounted /\ metrics'.reconnects = metrics.reconnects
  <1> SUFFICES ASSUME TypeOK, reply.kind \in JobReplies, EmitJobResult(reply),
                      jobsTaken' = jobsTaken, ~InHandler'
               PROVE  Uncounted' = Uncounted /\ metrics'.reconnects = metrics.reconnects
    OBVIOUS
  <1>1. InHandler
    BY DEF InHandler
  <1>2. CASE reply.kind = "result"
    <2>1. metrics' = [metrics EXCEPT !.success = metrics.success + 1]
      BY <1>2 DEF EmitJobResult
    <2>2. /\ metrics'.success = metrics.success + 1
          /\ metrics'.error = metrics.error
          /\ metrics'.reconnects = metrics.reconnects
      BY <2>1 DEF TypeOK, Metrics
    <2>3. QED
      BY <1>1, <2>2, CountsTyped DEF Uncounted
  <1>3. CASE reply.kind # "result"
    <2>1. metrics' = [metrics EXCEPT !.error = metrics.error + 1]
      BY <1>3 DEF EmitJobResult, JobReplies
    <2>2. /\ metrics'.success = metrics.success
          /\ metrics'.error = metrics.error + 1
          /\ metrics'.reconnects = metrics.reconnects
      BY <2>1 DEF TypeOK, Metrics
    <2>3. QED
      BY <1>1, <2>2, CountsTyped DEF Uncounted
  <1>4. QED
    BY <1>2, <1>3

\* Each job is counted once, or lost with the one error its session ends with.
LEMMA AccountsStep == TypeOK /\ JobInv /\ Accounts /\ Next => Accounts'
  <1> SUFFICES ASSUME TypeOK, JobInv, Accounts, Next PROVE Accounts'
    OBVIOUS
  <1> USE DEF mainVars, hookVars, history
  <1>0. Uncounted \in Int /\ metrics.reconnects \in Nat
    BY CountsTyped DEF Uncounted
  <1>1. CASE Environment
    BY <1>1, AccountsKept DEF Environment, CancelContext, ServerSend, ServerEnds, LinkDies
  <1>2. CASE HeartbeatStep \/ HeartbeatTick \/ HeartbeatExit \/ HeartbeatLock
    BY <1>2, AccountsKept
    DEF HeartbeatStep, HeartbeatWrite, HeartbeatWriteSucceeds, HeartbeatWriteFails,
        HeartbeatClose, HeartbeatSendErr, HeartbeatTick, HeartbeatExit, HeartbeatLock
  <1>3. CASE DialSucceeds
    <2>1. Uncounted' = Uncounted /\ metrics'.reconnects = metrics.reconnects
      BY <1>3 DEF DialSucceeds, Uncounted, InHandler, TypeOK, Metrics
    <2>2. QED
      BY <1>3, <2>1 DEF DialSucceeds, Accounts
  <1>4. CASE DialFails \/ Select \/ ReadFails \/ MainLock \/ CancelSession \/ AwaitHeartbeat
             \/ Stop
    <2>1. Uncounted' = Uncounted /\ metrics' = metrics
      BY <1>4 DEF DialFails, Select, SelectDone, SelectHeartbeatErr, SelectDefault, ReadFails,
                  MainLock, CancelSession, AwaitHeartbeat, Stop, Uncounted, InHandler
    <2>2. CASE DialFails \/ Select \/ ReadFails
      BY <1>0, <2>1, <2>2 DEF DialFails, Select, SelectDone, SelectHeartbeatErr,
                              SelectDefault, ReadFails, Accounts
    <2>3. CASE MainLock \/ CancelSession \/ AwaitHeartbeat
      BY <1>0, <2>1, <2>3 DEF MainLock, CancelSession, AwaitHeartbeat, Accounts
    <2>4. CASE Stop
      BY <1>0, <2>1, <2>4 DEF Stop, Accounts
    <2>5. QED
      BY <1>4, <2>2, <2>3, <2>4
  <1>5. ASSUME NEW f \in Frames, HandleMalformed(f) \/ HandleIgnored(f) \/ HandlePing(f)
        PROVE  Accounts'
    <2>1. ~InHandler /\ ~InHandler'
      BY <1>5 DEF HandleMalformed, HandleIgnored, HandlePing, Receive, JobInv, ReplyPhase,
                  InHandler, JobReplies
    <2>2. Uncounted' = Uncounted /\ metrics' = metrics
      BY <1>5, <2>1 DEF HandleMalformed, HandleIgnored, HandlePing, Uncounted
    <2>3. QED
      BY <1>0, <1>5, <2>2 DEF HandleMalformed, HandleIgnored, HandlePing, Receive, Accounts
  <1>6. ASSUME NEW f \in Frames, HandleFetch(f) PROVE Accounts'
    <2>1. pc = "read" /\ jobs = {} /\ ~InHandler
      BY <1>6 DEF HandleFetch, Receive, JobInv, ReplyPhase, RegistryExact, InHandler, JobReplies
    <2>2. InHandler'
      BY <1>6, <2>1 DEF HandleFetch, InHandler, JobReplies
    <2>3. Uncounted' = Uncounted /\ metrics' = metrics
      BY <1>6, <2>1, <2>2, CountsTyped DEF HandleFetch, Uncounted
    <2>4. QED
      BY <1>0, <1>6, <2>1, <2>3 DEF HandleFetch, Accounts
  <1>7. CASE FetchReturns
    <2>1. InHandler /\ InHandler'
      <3>1. PICK outcome \in {"result", "error"} : reply' = [reply EXCEPT !.kind = outcome]
        BY <1>7 DEF FetchReturns
      <3>2. reply'.kind = outcome /\ reply.kind = "fetching"
        BY <1>7, <3>1 DEF FetchReturns, TypeOK, Replies, JobInv, ReplyPhase
      <3>3. QED
        BY <3>2 DEF InHandler, JobReplies
    <2>2. Uncounted' = Uncounted /\ metrics' = metrics
      BY <1>7, <2>1 DEF FetchReturns, Uncounted
    <2>3. QED
      BY <1>0, <1>7, <2>2 DEF FetchReturns, Accounts
  <1>8. CASE FetchPanics
    <2>1. InHandler /\ ~InHandler' /\ pc = "fetch" /\ err = "nil"
      BY <1>8 DEF FetchPanics, JobInv, ReplyPhase, InHandler, NoReply, JobReplies, Accounts
    <2>2. Uncounted' = Uncounted + 1 /\ metrics' = metrics
      BY <1>8, <2>1, CountsTyped DEF FetchPanics, Uncounted
    <2>3. QED
      BY <1>0, <1>8, <2>1, <2>2 DEF FetchPanics, Accounts
  <1>9. CASE MainWriteSucceeds
    <2>1. ~InHandler' /\ pc = "write" /\ pc' = "select" /\ err = "nil" /\ err' = "nil"
      BY <1>9 DEF MainWriteSucceeds, InHandler, NoReply, JobReplies, Accounts
    <2>2. reply.kind = "pong" \/ reply.kind \in JobReplies
      BY <2>1 DEF JobInv, ReplyPhase, NoFalseDuplicate
    <2>3. Uncounted' = Uncounted /\ metrics'.reconnects = metrics.reconnects
      <3>1. CASE reply.kind = "pong"
        BY <1>9, <2>1, <3>1 DEF MainWriteSucceeds, EmitJobResult, Uncounted, InHandler, JobReplies
      <3>2. CASE reply.kind \in JobReplies
        BY <1>9, <2>1, <3>2, ReportedOnce DEF MainWriteSucceeds
      <3>3. QED
        BY <2>2, <3>1, <3>2
    <2>4. QED
      BY <1>0, <2>1, <2>3 DEF Accounts
  <1>10. CASE MainWriteFails
    <2>1. ~InHandler' /\ pc = "write" /\ err = "nil"
      BY <1>10 DEF MainWriteFails, InHandler, NoReply, JobReplies, Accounts
    <2>2. CASE reply.kind = "bad"
      <3>1. InHandler /\ pc' = "select" /\ err' = "nil"
        BY <1>10, <2>1, <2>2 DEF MainWriteFails, InHandler, JobReplies
      <3>2. Uncounted' = Uncounted /\ metrics'.reconnects = metrics.reconnects
        BY <1>10, <2>1, <2>2, ReportedOnce DEF MainWriteFails, JobReplies
      <3>3. QED
        BY <1>0, <2>1, <3>1, <3>2 DEF Accounts
    <2>3. CASE reply.kind # "bad"
      <3>1. pc' = "cancel" /\ err' = "error" /\ metrics' = metrics
        BY <1>10, <2>3 DEF MainWriteFails
      <3>2. Uncounted' \in {Uncounted, Uncounted + 1}
        BY <1>10, <2>1, <3>1, CountsTyped DEF MainWriteFails, Uncounted
      <3>3. QED
        BY <1>0, <2>1, <3>1, <3>2 DEF Accounts
    <2>4. QED
      BY <2>2, <2>3
  <1>11. CASE Decide
    <2>1. CASE err = "error"
      <3>1. metrics'.reconnects = metrics.reconnects + 1 /\ Uncounted' = Uncounted
        BY <1>11, <2>1 DEF Decide, Uncounted, InHandler, TypeOK, Metrics
      <3>2. QED
        BY <1>0, <1>11, <3>1 DEF Decide, Accounts
    <2>2. CASE err # "error"
      <3>1. metrics' = metrics /\ Uncounted' = Uncounted /\ err = "nil"
        BY <1>11, <2>2 DEF Decide, Uncounted, InHandler, TypeOK, Accounts
      <3>2. QED
        BY <1>0, <1>11, <3>1 DEF Decide, Accounts
    <2>3. QED
      BY <2>1, <2>2
  <1>12. CASE TimerFires
    <2>1. metrics' = metrics /\ Uncounted' = Uncounted
      BY <1>12 DEF TimerFires, Uncounted, InHandler
    <2>2. QED
      BY <1>0, <1>12, <2>1 DEF TimerFires, Accounts
  <1>13. QED
    BY <1>1, <1>2, <1>3, <1>4, <1>5, <1>6, <1>7, <1>8, <1>9, <1>10, <1>11, <1>12
    DEF Next, MainStep, Dial, Handle, Fetch, MainWrite

-----------------------------------------------------------------------------

\* Everything the safety properties of the client need, in every reachable state.
THEOREM Safety == Spec => []SafetyInv
  <1>1. Init => SafetyInv
    <2> SUFFICES ASSUME Init PROVE SafetyInv
      OBVIOUS
    <2>1. TypeOK
      BY InitTyped
    <2>2. LockHeld /\ ReplyPhase /\ RegistryExact /\ NoFalseDuplicate /\ HeartbeatScoped
      BY DEF Init, LockHeld, ReplyPhase, RegistryExact, NoFalseDuplicate, HeartbeatScoped,
             InHandler, NoReply, JobReplies, InSession
    <2>3. Ledger /\ Endings
      BY DEF Init, Ledger, Endings, Pending, InHandler, NoReply, JobReplies, NoJobs,
             Serving, InSession
    <2>4. Accounts
      BY DEF Init, Accounts, Uncounted, InHandler, NoReply, JobReplies
    <2>5. QED
      BY <2>1, <2>2, <2>3, <2>4 DEF SafetyInv
  <1>2. SafetyInv /\ [Next]_vars => SafetyInv'
    <2> SUFFICES ASSUME SafetyInv, [Next]_vars PROVE SafetyInv'
      OBVIOUS
    <2>1. CASE Next
      BY <2>1, TypeStep, LockHeldStep, JobInvStep, HeartbeatScopedStep, LedgerInvStep,
         AccountsStep
      DEF SafetyInv, JobInv, LedgerInv
    <2>2. CASE UNCHANGED vars
      BY <2>2, TypeStep, AccountsKept
      DEF SafetyInv, LockHeld, ReplyPhase, RegistryExact, NoFalseDuplicate, HeartbeatScoped,
          Ledger, Endings, Pending, InHandler, Serving, InSession, LinkUp, Done,
          vars, mainVars, hbVars, linkVars, hookVars, history, budgets
    <2>3. QED
      BY <2>1, <2>2
  <1>3. QED
    BY <1>1, <1>2, PTL DEF Spec

\* No two goroutines are ever inside wsjson.Write together.
THEOREM OneWriterAlways == Spec => []OneWriter
  <1>1. SafetyInv => OneWriter
    BY DEF SafetyInv, LockHeld, OneWriter, TypeOK
  <1>2. QED
    BY <1>1, Safety, PTL

\* The registry never leaks a job id, on any path out of handleFetch.
THEOREM RegistryExactAlways == Spec => [](RegistryExact /\ NoFalseDuplicate)
  <1>1. SafetyInv => RegistryExact /\ NoFalseDuplicate
    BY DEF SafetyInv
  <1>2. QED
    BY <1>1, Safety, PTL

\* On a working link every job that was read has been answered, once, by the
\* time the client reads again.
THEOREM EveryJobAnsweredAlways == Spec => []EveryJobAnswered
  <1>1. SafetyInv => EveryJobAnswered
    <2> SUFFICES ASSUME SafetyInv PROVE EveryJobAnswered
      OBVIOUS
    <2>1. \A j \in JobIds : /\ taken[j] \in Nat /\ answered[j] \in Nat
                            /\ Pending(j) \in Nat
      BY DEF SafetyInv, TypeOK, Pending
    <2>2. ASSUME NEW j \in JobIds PROVE answered[j] <= taken[j]
      <3>1. answered[j] + Pending(j) <= taken[j]
        BY DEF SafetyInv, Ledger
      <3>2. QED
        BY <2>1, <3>1
    <2>3. ASSUME pc \in {"select", "read"}, LinkUp, ~ctxDone PROVE answered = taken
      <3>1. \A j \in JobIds : Pending(j) = 0
        BY <2>3 DEF SafetyInv, ReplyPhase, Pending, InHandler
      <3>2. \A j \in JobIds : answered[j] + Pending(j) = taken[j]
        <4>1. Ledger
          BY DEF SafetyInv
        <4>2. QED
          BY <2>3, <4>1 DEF Ledger, Serving, LinkUp
      <3>3. ASSUME NEW j \in JobIds PROVE answered[j] = taken[j]
        <4>1. Pending(j) = 0 /\ answered[j] + Pending(j) = taken[j] /\ answered[j] \in Nat
          BY <2>1, <3>1, <3>2
        <4>2. QED
          BY <4>1
      <3>4. QED
        <4>1. answered \in [JobIds -> Nat] /\ taken \in [JobIds -> Nat]
          BY DEF SafetyInv, TypeOK
        <4>2. QED
          BY <3>3, <4>1
    <2>4. QED
      BY <2>2, <2>3 DEF EveryJobAnswered
  <1>2. QED
    BY <1>1, Safety, PTL

\* Every job the client read is counted once, except the one in hand and those
\* whose sessions ended with an error.
THEOREM JobsAccountedAlways == Spec => []JobsAccounted
  <1>1. SafetyInv => JobsAccounted
    <2> SUFFICES ASSUME SafetyInv PROVE JobsAccounted
      OBVIOUS
    <2>1. /\ metrics.success \in Nat /\ metrics.error \in Nat
          /\ metrics.reconnects \in Nat /\ jobsTaken \in Nat
      BY CountsTyped DEF SafetyInv
    <2>2. InHandler => err = "nil"
      BY DEF SafetyInv, Accounts, ReplyPhase, InHandler, TypeOK, JobReplies
    <2>3. /\ 0 <= Uncounted
          /\ Uncounted <= metrics.reconnects + IF err # "nil" THEN 1 ELSE 0
      BY <2>1 DEF SafetyInv, Accounts, Uncounted
    <2>4. CASE InHandler
      BY <2>1, <2>2, <2>3, <2>4 DEF Uncounted, JobsAccounted
    <2>5. CASE ~InHandler
      BY <2>1, <2>3, <2>5 DEF Uncounted, JobsAccounted
    <2>6. QED
      BY <2>4, <2>5
  <1>2. QED
    BY <1>1, Safety, PTL

\* The heartbeat of a session never outlives it.
THEOREM HeartbeatScopedAlways == Spec => []HeartbeatScoped
  <1>1. SafetyInv => HeartbeatScoped
    BY DEF SafetyInv
  <1>2. QED
    BY <1>1, Safety, PTL

\* What OnStateChange publishes: "connected" throughout a session, and
\* "stopped" exactly when Run has returned because of its context
\* (client.go:101-120).
THEOREM StateShownAlways == Spec => []StateShown
  <1>1. Init => StateShown
    BY DEF Init, StateShown, InSession
  <1>2. TypeOK /\ StateShown /\ [Next]_vars => StateShown'
    <2> SUFFICES ASSUME TypeOK, StateShown, [Next]_vars PROVE StateShown'
      OBVIOUS
    <2> USE DEF StateShown, InSession, mainVars, hookVars
    <2>1. CASE Dial \/ Select \/ ReadFails \/ CancelSession \/ AwaitHeartbeat
      BY <2>1 DEF Dial, DialSucceeds, DialFails, EmitState, Select, SelectDone,
                  SelectHeartbeatErr, SelectDefault, ReadFails, CancelSession,
                  AwaitHeartbeat
    <2>2. CASE Handle
      BY <2>2 DEF Handle, HandleMalformed, HandleIgnored, HandlePing, HandleFetch, Receive
    <2>3. CASE Fetch \/ MainLock \/ MainWrite
      BY <2>3 DEF Fetch, FetchReturns, FetchPanics, MainLock, MainWrite,
                  MainWriteSucceeds, MainWriteFails
    <2>4. CASE Stop \/ TimerFires
      BY <2>4 DEF Stop, EmitState, TimerFires
    <2>5. CASE Decide
      BY <2>5 DEF Decide, EmitState, TypeOK
    <2>6. CASE HeartbeatStep \/ HeartbeatTick \/ HeartbeatExit \/ HeartbeatLock
      BY <2>6 DEF HeartbeatStep, HeartbeatWrite, HeartbeatWriteSucceeds,
                  HeartbeatWriteFails, HeartbeatClose, HeartbeatSendErr, HeartbeatTick,
                  HeartbeatExit, HeartbeatLock
    <2>7. CASE Environment
      BY <2>7 DEF Environment, CancelContext, ServerSend, ServerEnds, LinkDies
    <2>8. CASE UNCHANGED vars
      BY <2>8 DEF vars
    <2>9. QED
      BY <2>1, <2>2, <2>3, <2>4, <2>5, <2>6, <2>7, <2>8 DEF Next, MainStep
  <1>3. QED
    BY <1>1, <1>2, TypeCorrect, PTL DEF Spec

-----------------------------------------------------------------------------
(* The client implements ProxyLink.                                        *)

\* A step that changes neither the link nor the books is none of the link.
LEMMA LinkKept ==
    ASSUME UNCHANGED <<taken, answered>>, LinkUp' = LinkUp, Over' = Over
    PROVE  UNCHANGED <<LinkState, Owed>>
  BY DEF LinkState, Owed

\* A step that may take the link down loses it, or changes nothing.
LEMMA LinkLost ==
    ASSUME UNCHANGED <<taken, answered>>, LinkUp' => LinkUp, ~Over, ~Over'
    PROVE  [Link!LNext]_<<LinkState, Owed>>
  BY DEF Link!LNext, Link!Lose, LinkState, Owed

\* With the books in order, what is owed on the link is the job in hand.
LEMMA OwedIsPending ==
    ASSUME SafetyInv, Serving, LinkUp
    PROVE  Owed = { j \in JobIds : Pending(j) = 1 }
  <1>1. ASSUME NEW j \in JobIds PROVE (answered[j] < taken[j]) <=> Pending(j) = 1
    <2>1. taken[j] \in Nat /\ answered[j] \in Nat
      BY DEF SafetyInv, TypeOK
    <2>2. answered[j] + Pending(j) = taken[j]
      BY DEF SafetyInv, Ledger
    <2>3. Pending(j) \in {0, 1}
      BY DEF Pending
    <2>4. QED
      BY <2>1, <2>2, <2>3
  <1>2. QED
    BY <1>1 DEF Owed

\* Before the first dial the link is down and owes nothing.
LEMMA InitLink == Init => Link!LInit
  BY DEF Init, Link!LInit, LinkState, Owed, LinkUp, Over

\* Every step of the client is a step of the link, or none.
LEMMA StepLink ==
    ASSUME SafetyInv, SafetyInv', [Next]_vars
    PROVE  [Link!LNext]_<<LinkState, Owed>>
  <1> USE DEF mainVars, hbVars, linkVars, history
  <1>0. TypeOK
    BY DEF SafetyInv
  <1>1. CASE CancelContext \/ \E f \in Frames : ServerSend(f)
    BY <1>1, LinkKept DEF CancelContext, ServerSend, LinkUp, Over
  <1>2. CASE LinkDies \/ \E end \in StreamEnds : ServerEnds(end)
    <2>1. ~Over
      BY <1>2 DEF LinkDies, ServerEnds, LinkUp, Over, SafetyInv, HeartbeatScoped, InSession
    <2>2. QED
      BY <1>2, <2>1, LinkLost DEF LinkDies, ServerEnds, LinkUp, Over
  <1>3. CASE HeartbeatStep \/ HeartbeatTick \/ HeartbeatExit \/ HeartbeatLock
    <2>1. hb # "off"
      BY <1>3 DEF HeartbeatStep, HeartbeatWrite, HeartbeatWriteSucceeds,
                  HeartbeatWriteFails, HeartbeatClose, HeartbeatSendErr, HeartbeatTick,
                  HeartbeatExit, HeartbeatLock
    <2>2. ~Over
      BY <2>1 DEF SafetyInv, HeartbeatScoped, InSession, Over
    <2>3. UNCHANGED <<taken, answered, pc>> /\ (LinkUp' => LinkUp)
      BY <1>3, <1>0 DEF HeartbeatStep, HeartbeatWrite, HeartbeatWriteSucceeds, WriteSucceeds,
                  HeartbeatWriteFails, WriteFails, HeartbeatClose, CloseConn,
                  HeartbeatSendErr, HeartbeatTick, HeartbeatExit, HeartbeatLock, LinkUp,
                  TypeOK
    <2>4. QED
      BY <2>2, <2>3, LinkLost DEF Over
  <1>4. CASE DialSucceeds
    <2>1. LinkState = "down" /\ LinkState' = "up"
      BY <1>4 DEF DialSucceeds, LinkState, LinkUp, Over, SafetyInv, HeartbeatScoped, InSession
    <2>2. \A j \in JobIds : answered'[j] = 0 /\ taken'[j] = 0
      BY <1>4 DEF DialSucceeds, SafetyInv, Ledger, InSession, NoJobs
    <2>3. Owed' = {}
      BY <2>2 DEF Owed
    <2>4. QED
      BY <2>1, <2>3 DEF Link!LNext, Link!Connect
  <1>5. CASE DialFails \/ Decide \/ TimerFires
    BY <1>5, LinkKept DEF DialFails, Decide, TimerFires, LinkUp, Over
  <1>6. CASE Stop
    <2>1. LinkState = "down" /\ LinkState' = "stopped" /\ Owed' = {}
      BY <1>6 DEF Stop, LinkState, Owed, LinkUp, Over, SafetyInv, HeartbeatScoped, InSession
    <2>2. QED
      BY <2>1 DEF Link!LNext, Link!End
  <1>7. CASE Select \/ ReadFails \/ CancelSession \/ MainLock \/ Fetch
    <2>1. UNCHANGED <<taken, answered>> /\ (LinkUp' => LinkUp) /\ ~Over /\ ~Over'
      BY <1>7 DEF Select, SelectDone, SelectHeartbeatErr, SelectDefault, ReadFails,
                  CancelSession, MainLock, Fetch, FetchReturns, FetchPanics, LinkUp, Over
    <2>2. QED
      BY <2>1, LinkLost
  <1>8. ASSUME NEW f \in Frames, HandleMalformed(f) \/ HandleIgnored(f) \/ HandlePing(f)
        PROVE  [Link!LNext]_<<LinkState, Owed>>
    BY <1>8, LinkKept DEF HandleMalformed, HandleIgnored, HandlePing, Receive, LinkUp, Over
  <1>9. ASSUME NEW f \in Frames, HandleFetch(f)
        PROVE  [Link!LNext]_<<LinkState, Owed>>
    <2>1. /\ pc = "read" /\ pc' \in {"fetch", "lock"} /\ f.id \in JobIds
          /\ UNCHANGED <<conn, peer>> /\ reply'.id = f.id
      BY <1>9, FrameType DEF HandleFetch, Receive
    <2>2. InHandler' /\ ~InHandler
      <3>1. reply.kind \notin JobReplies \cup {"fetching"}
        BY <2>1, <1>0 DEF SafetyInv, ReplyPhase
      <3>2. reply'.kind \in {"dup"} \cup JobReplies \cup {"fetching"}
        BY <1>9 DEF HandleFetch, JobReplies
      <3>3. reply'.kind # "dup"
        BY DEF SafetyInv, NoFalseDuplicate
      <3>4. QED
        BY <3>1, <3>2, <3>3 DEF InHandler
    <2>3. CASE ~LinkUp
      <3>1. ~LinkUp' /\ ~Over /\ ~Over'
        BY <2>1, <2>3 DEF LinkUp, Over
      <3>2. QED
        BY <2>3, <3>1 DEF LinkState, Owed
    <2>4. CASE LinkUp
      <3>1. LinkUp' /\ ~Over /\ ~Over' /\ Serving /\ Serving'
        BY <2>1, <2>4 DEF LinkUp, Over, Serving
      <3>2. Owed = {}
        BY <2>2, <2>4, <3>1, OwedIsPending DEF Pending
      <3>3. Owed' = { j \in JobIds : Pending(j)' = 1 }
        <4>1. ASSUME NEW j \in JobIds PROVE (answered'[j] < taken'[j]) <=> Pending(j)' = 1
          <5>1. taken'[j] \in Nat /\ answered'[j] \in Nat
            BY DEF SafetyInv, TypeOK
          <5>2. answered'[j] + Pending(j)' = taken'[j]
            BY <3>1 DEF SafetyInv, Ledger
          <5>3. Pending(j)' \in {0, 1}
            BY DEF Pending
          <5>4. QED
            BY <5>1, <5>2, <5>3
        <4>2. QED
          BY <3>1, <4>1 DEF Owed
      <3>4. Owed' = {f.id}
        BY <2>1, <2>2, <3>3 DEF Pending
      <3>5. QED
        BY <2>1, <2>4, <3>1, <3>2, <3>4 DEF Link!LNext, Link!Take, LinkState
    <2>5. QED
      BY <2>3, <2>4
  <1>10. CASE MainWriteFails
    <2>1. UNCHANGED <<taken, answered>> /\ (LinkUp' => LinkUp) /\ ~Over /\ ~Over'
      BY <1>10, <1>0 DEF MainWriteFails, WriteFails, LinkUp, Over, TypeOK
    <2>2. QED
      BY <2>1, LinkLost
  <1>11. CASE MainWriteSucceeds
    <2>1. /\ pc = "write" /\ pc' = "select" /\ UNCHANGED <<conn, peer, taken>>
          /\ ~Over /\ ~Over'
      BY <1>11 DEF MainWriteSucceeds, WriteSucceeds, Over
    <2>2. CASE reply.kind = "pong" \/ ~LinkUp
      <3>1. LinkUp' = LinkUp
        BY <2>1 DEF LinkUp
      <3>2. CASE reply.kind = "pong"
        BY <1>11, <2>1, <3>1, <3>2, LinkKept DEF MainWriteSucceeds, Over
      <3>3. CASE ~LinkUp
        BY <2>1, <3>1, <3>3 DEF LinkState, Owed
      <3>4. QED
        BY <2>2, <3>2, <3>3
    <2>3. CASE reply.kind # "pong" /\ LinkUp
      <3>1. InHandler /\ reply.id \in JobIds
        BY <2>1, <2>3, <1>0 DEF SafetyInv, ReplyPhase, NoFalseDuplicate, InHandler,
                                RegistryExact, TypeOK
      <3>2. Owed = {reply.id}
        BY <2>1, <2>3, <3>1, OwedIsPending DEF Serving, Pending
      <3>3. answered' = [answered EXCEPT ![reply.id] = @ + 1]
        BY <1>11, <2>3 DEF MainWriteSucceeds
      <3>4. ASSUME NEW j \in JobIds PROVE ~(answered'[j] < taken'[j])
        <4>1. taken[j] \in Nat /\ answered[j] \in Nat /\ Pending(j) \in {0, 1}
          BY <1>0 DEF TypeOK, Pending
        <4>2. answered[j] + Pending(j) = taken[j]
          BY <2>1, <2>3 DEF SafetyInv, Ledger, Serving
        <4>3. answered'[j] = answered[j] + Pending(j)
          BY <1>0, <3>1, <3>3, <4>1 DEF TypeOK, Pending
        <4>4. QED
          BY <2>1, <4>1, <4>2, <4>3
      <3>5. Owed' = {}
        BY <3>4 DEF Owed
      <3>6. LinkState = "up" /\ LinkState' = "up"
        BY <2>1, <2>3 DEF LinkState, LinkUp
      <3>7. QED
        BY <3>1, <3>2, <3>5, <3>6 DEF Link!LNext, Link!Answer
    <2>4. QED
      BY <2>2, <2>3
  <1>12. CASE AwaitHeartbeat
    <2>1. ~LinkUp' /\ ~Over /\ pc' \in {"panicked", "decide"}
      BY <1>12 DEF AwaitHeartbeat, LinkUp, Over
    <2>2. Owed' = {} /\ LinkState' \in {"stopped", "down"} /\ LinkState \in {"up", "down"}
      BY <2>1 DEF Owed, LinkState
    <2>3. LinkState = "down" => Owed = {}
      BY DEF LinkState, Owed
    <2>4. QED
      BY <2>2, <2>3 DEF Link!LNext, Link!Lose, Link!End
  <1>13. CASE UNCHANGED vars
    BY <1>13, LinkKept DEF vars, LinkUp, Over
  <1>14. QED
    BY <1>1, <1>2, <1>3, <1>4, <1>5, <1>6, <1>7, <1>8, <1>9, <1>10, <1>11, <1>12, <1>13
    DEF Next, MainStep, Dial, Handle, MainWrite, Environment

\* The detailed client implements the promise: one job at a time, answered at
\* most once and on the link that brought it, and no step after the end.
THEOREM ImplementsLink == Spec => LinkSpec
  <1>1. SafetyInv /\ SafetyInv' /\ [Next]_vars => [Link!LNext]_<<LinkState, Owed>>
    BY StepLink
  <1>2. QED
    BY InitLink, <1>1, Safety, PTL DEF Spec, LinkSpec, Link!LSpec, Link!lvars

=============================================================================
