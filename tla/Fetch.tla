------------------------------- MODULE Fetch -------------------------------
(***************************************************************************)
(* HTTPExecutor.Fetch (internal/fetch/executor.go): the body of a response *)
(* arrives piece by piece and is read up to a limit.  Sizes are int64, of  *)
(* a smaller width here.                                                   *)
(***************************************************************************)
EXTENDS Integers

CONSTANTS
    Limits,      \* what MaxBodyBytes may be
    DefaultMax,  \* DefaultMaxBodyBytes
    MaxInt,      \* of the width of the sizes
    MaxBody      \* bound: bytes in a response

ASSUME FetchAssumption ==
    /\ MaxInt \in Nat /\ MaxBody \in Nat
    /\ Limits \subseteq {i \in Int : i <= MaxInt}
    /\ DefaultMax \in 1 .. MaxInt

VARIABLES
    fetch,       \* "asked", "reading", or how Fetch has returned
    maxBody,     \* MaxBodyBytes of the executor
    sent,        \* the size of the body that the server sends
    body         \* how much of it has been read

fetchVars == <<fetch, maxBody, sent, body>>

Wrap(i) == IF i > MaxInt THEN i - 2 * (MaxInt + 1) ELSE i

Limit == IF maxBody <= 0 THEN DefaultMax ELSE maxBody

BuggyReadable == Limit

\* io.LimitReader: one byte more than the limit, to notice that there is one.
Readable == Wrap(Limit + 1)

FetchInit ==
    /\ fetch = "asked"
    /\ maxBody \in Limits /\ sent \in 0 .. MaxBody
    /\ body = 0

\* The request cannot be built or is not answered.
NotAnswered ==
    /\ fetch = "asked" /\ fetch' = "error"
    /\ UNCHANGED <<maxBody, sent, body>>

Answered ==
    /\ fetch = "asked" /\ fetch' = "reading"
    /\ UNCHANGED <<maxBody, sent, body>>

\* ReadAll gets a piece, cut at what the LimitReader lets through.
Piece ==
    /\ fetch = "reading"
    /\ body' \in (body + 1) .. sent /\ body' <= Readable
    /\ UNCHANGED <<fetch, maxBody, sent>>

\* The deadline of the job or a broken connection.
Breaks ==
    /\ fetch = "reading" /\ fetch' = "error"
    /\ UNCHANGED <<maxBody, sent, body>>

\* The end of the body, or of what the LimitReader lets through.
EndOfBody ==
    /\ fetch = "reading" /\ (body = sent \/ body >= Readable)
    /\ fetch' = IF body > Limit THEN "tooLarge" ELSE "result"
    /\ UNCHANGED <<maxBody, sent, body>>

FetchNext == NotAnswered \/ Answered \/ Piece \/ Breaks \/ EndOfBody

FetchSpec == FetchInit /\ [][FetchNext]_fetchVars

-----------------------------------------------------------------------------
\* A body is returned whole or not at all, and is refused as too large only
\* if it is; at no time is more than one byte above the limit in memory.
\* (With the largest limit that an int64 holds, limit + 1 wraps, and every
\* body comes back empty; the daemon asks for the default.)
BodyIsWhole ==
    Limit < MaxInt =>
      /\ fetch = "result" => body = sent /\ sent <= Limit
      /\ fetch = "tooLarge" => sent > Limit
      /\ body <= Limit + 1
=============================================================================
