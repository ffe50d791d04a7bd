---------------------------- MODULE Fetch_proofs ----------------------------
(***************************************************************************)
(* A body is whole, for every limit that an executor may be given and a    *)
(* body of any size.                                                       *)
(***************************************************************************)
EXTENDS Fetch, TLAPS

\* The type, and what has been read so far: never more than the server sends,
\* nor than the LimitReader lets through.  How Fetch has returned says which
\* of the two ended the body.
FetchInv ==
    /\ fetch \in {"asked", "reading", "error", "tooLarge", "result"}
    /\ maxBody \in Limits /\ sent \in 0 .. MaxBody /\ body \in 0 .. sent
    /\ body = 0 \/ body <= Readable
    /\ fetch = "result" => body <= Limit /\ (body = sent \/ body >= Readable)
    /\ fetch = "tooLarge" => body > Limit

\* The limit in force is a positive int64, and one more than it is one more,
\* except at the largest int64.
LEMMA LimitType ==
    ASSUME maxBody \in Limits
    PROVE  /\ Limit \in 1 .. MaxInt
           /\ Readable \in Int
           /\ Limit < MaxInt => Readable = Limit + 1
  BY FetchAssumption DEF Limit, Readable, Wrap

LEMMA FetchInitial == FetchInit => FetchInv
  BY FetchAssumption DEF FetchInit, FetchInv

LEMMA FetchStep == FetchInv /\ [FetchNext]_fetchVars => FetchInv'
  <1> SUFFICES ASSUME FetchInv, [FetchNext]_fetchVars PROVE FetchInv'
    OBVIOUS
  <1>1. /\ Limit \in 1 .. MaxInt /\ Readable \in Int
        /\ maxBody' = maxBody => Limit' = Limit /\ Readable' = Readable
    BY LimitType DEF FetchInv, Limit, Readable, Wrap
  <1>2. CASE NotAnswered
    BY <1>1, <1>2 DEF FetchInv, NotAnswered
  <1>3. CASE Answered
    BY <1>1, <1>3 DEF FetchInv, Answered
  <1>4. CASE Piece
    BY <1>1, <1>4, FetchAssumption DEF FetchInv, Piece
  <1>5. CASE Breaks
    BY <1>1, <1>5 DEF FetchInv, Breaks
  <1>6. CASE EndOfBody
    BY <1>1, <1>6, FetchAssumption DEF FetchInv, EndOfBody
  <1>7. CASE UNCHANGED fetchVars
    BY <1>1, <1>7 DEF FetchInv, fetchVars
  <1>8. QED BY <1>2, <1>3, <1>4, <1>5, <1>6, <1>7 DEF FetchNext

\* A body is returned whole or not at all, is refused as too large only if it
\* is, and never takes more than one byte above the limit, whatever the limit
\* below the largest int64 and however the body is cut into pieces.
THEOREM BodyIsWholeSafety == FetchSpec => []BodyIsWhole
  <1>1. FetchInv => BodyIsWhole
    <2> SUFFICES ASSUME FetchInv, Limit < MaxInt
                 PROVE  /\ fetch = "result" => body = sent /\ sent <= Limit
                        /\ fetch = "tooLarge" => sent > Limit
                        /\ body <= Limit + 1
      BY DEF BodyIsWhole
    <2>1. Limit \in 1 .. MaxInt /\ Readable = Limit + 1
      BY LimitType DEF FetchInv
    <2>2. QED BY <2>1, FetchAssumption DEF FetchInv
  <1>2. QED BY <1>1, FetchInitial, FetchStep, PTL DEF FetchSpec
=============================================================================
