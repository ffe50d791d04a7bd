------------------------------ MODULE LogTail ------------------------------
(***************************************************************************)
(* ReadLogTail (internal/daemon/service.go): the last lines of the log,    *)
(* read through a buffer that may be shorter than a line into a ring of n  *)
(* lines, while the daemon goes on appending.                              *)
(*                                                                         *)
(* Text is a sequence of characters, of which only the end of a line is    *)
(* told from the others.  The logger writes a line with one call, so an    *)
(* append adds a whole line.                                               *)
(***************************************************************************)
EXTENDS Integers, Sequences

CONSTANTS
    NL, Letter,  \* the end of a line, and any other character
    Tails,       \* how many lines may be asked for
    Logs,        \* what the log may contain at first
    Appended,    \* the lines that the daemon may add
    BufferSize,  \* of bufio.Reader
    MaxLog       \* bound: characters in the log

Texts == Seq({NL, Letter})

ASSUME TailAssumption ==
    /\ NL # Letter
    /\ Tails \subseteq Int
    /\ Logs \subseteq Texts /\ Appended \subseteq Texts
    /\ BufferSize \in Nat \ {0}
    /\ MaxLog \in Nat

VARIABLES
    log,         \* the file
    n,           \* the lines asked for
    pos,         \* characters consumed
    lines, count, lineBuilder,
    result       \* the lines returned

tailVars == <<log, n, pos, lines, count, lineBuilder, result>>

Nothing == <<NL>>  \* what no line contains: not returned yet

TailInit ==
    /\ log \in Logs /\ n \in Tails
    /\ pos = 0 /\ count = 0 /\ lineBuilder = <<>>
    /\ lines = [i \in 0 .. n - 1 |-> <<>>]
    /\ result = Nothing

Logged ==
    /\ \E l \in Appended : Len(log) + Len(l) <= MaxLog /\ log' = log \o l
    /\ log # <<>> => log[Len(log)] = NL
    /\ UNCHANGED <<n, pos, lines, count, lineBuilder, result>>

Reading == result = Nothing /\ n > 0

Unread == SubSeq(log, pos + 1, Len(log))

LineEnds == {i \in DOMAIN Unread : Unread[i] = NL}

AddLine(line) ==
    /\ lines' = [lines EXCEPT ![count % n] = line]
    /\ count' = count + 1 /\ lineBuilder' = <<>>

\* ReadLine finds the end of a line in its buffer.
ReadToEnd ==
    /\ Reading
    /\ \E i \in LineEnds :
         /\ \A j \in LineEnds : i <= j
         /\ i <= BufferSize
         /\ pos' = pos + i
         /\ AddLine(lineBuilder \o SubSeq(Unread, 1, i - 1))
    /\ UNCHANGED <<log, n, result>>

\* Its buffer is full before that: isPrefix.
ReadPrefix ==
    /\ Reading
    /\ Len(Unread) >= BufferSize /\ \A i \in LineEnds : i > BufferSize
    /\ pos' = pos + BufferSize
    /\ lineBuilder' = lineBuilder \o SubSeq(Unread, 1, BufferSize)
    /\ UNCHANGED <<log, n, lines, count, result>>

\* The log ends with a line that is not complete: it counts as a line.
ReadRest ==
    /\ Reading
    /\ Unread # <<>> /\ Len(Unread) < BufferSize /\ LineEnds = {}
    /\ pos' = Len(log)
    /\ AddLine(lineBuilder \o Unread)
    /\ UNCHANGED <<log, n, result>>

\* trimTrailingEmptyLogLines
Trimmed(ls) ==
    LET full == {i \in DOMAIN ls : ls[i] # <<>>}
    IN  SubSeq(ls, 1, IF full = {} THEN 0 ELSE CHOOSE i \in full : \A j \in full : j <= i)

\* The ring is unrolled from its first slot.
BuggyRing(ring, c) == [i \in 1 .. n |-> ring[i - 1]]

\* The ring, from the oldest line on.
Ring(ring, c) ==
    IF c <= n THEN [i \in 1 .. c |-> ring[i - 1]]
              ELSE [i \in 1 .. n |-> ring[((c % n) + i - 1) % n]]

\* EOF, perhaps behind a prefix that was left in the builder.
ReadEOF ==
    /\ Reading /\ Unread = <<>>
    /\ LET rest == lineBuilder # <<>>
           ring == IF rest THEN [lines EXCEPT ![count % n] = lineBuilder] ELSE lines
       IN  result' = Trimmed(Ring(ring, IF rest THEN count + 1 ELSE count))
    /\ UNCHANGED <<log, n, pos, lines, count, lineBuilder>>

AskedForNone ==
    /\ result = Nothing /\ n <= 0 /\ result' = <<>>
    /\ UNCHANGED <<log, n, pos, lines, count, lineBuilder>>

ReadLogTail == ReadToEnd \/ ReadPrefix \/ ReadRest \/ ReadEOF \/ AskedForNone

TailNext == Logged \/ ReadLogTail

TailSpec == TailInit /\ [][TailNext]_tailVars

-----------------------------------------------------------------------------
(* What a tail should be, without a buffer and without a ring.             *)

\* A text that has been split, one character on.
AddChar(split, c) ==
    IF c = NL THEN [whole |-> Append(split.whole, split.open), open |-> <<>>]
              ELSE [whole |-> split.whole, open |-> Append(split.open, c)]

\* The lines in the first characters of a text, and the beginning of the next.
Split(text) ==
    LET upTo[p \in 0 .. Len(text)] ==
            IF p = 0 THEN [whole |-> <<>>, open |-> <<>>]
                     ELSE AddChar(upTo[p - 1], text[p])
    IN  upTo

\* The lines of a text, the last of which may lack its end.
LinesOf(text) ==
    LET split == Split(text)[Len(text)]
    IN  IF split.open = <<>> THEN split.whole ELSE Append(split.whole, split.open)

\* The last of a sequence, at most k.
LastOf(ls, k) == SubSeq(ls, IF Len(ls) <= k THEN 1 ELSE Len(ls) - k + 1, Len(ls))

\* What has been consumed of the log.
Read == SubSeq(log, 1, pos)

\* What is returned are the last n lines of the log as it was at one moment,
\* without empty ones at their end: no line is lost, repeated, split or out
\* of order, wherever the buffer ends, however often the ring goes round, and
\* whatever is appended meanwhile.
TailIsExact ==
    result # Nothing =>
      result = IF n <= 0 THEN <<>> ELSE Trimmed(LastOf(LinesOf(Read), n))

-----------------------------------------------------------------------------
(* What this property needs to be inductive.                               *)

\* How what has been consumed splits.
ReadSplit == Split(log)[pos]

\* The ring holds the last of these lines, each in its slot.
HeldIn(ring, ls) == \A j \in 1 .. Len(ls) : j > Len(ls) - n => ring[(j - 1) % n] = ls[j]

\* The ring and the builder hold what has been consumed, or the ring alone
\* does: the last line lacked its end and nothing is appended to such a log.
Consumed ==
    \/ /\ HeldIn(lines, ReadSplit.whole) /\ count = Len(ReadSplit.whole)
       /\ lineBuilder = ReadSplit.open
    \/ /\ HeldIn(lines, LinesOf(Read)) /\ count = Len(LinesOf(Read))
       /\ lineBuilder = <<>> /\ pos = Len(log) /\ pos > 0 /\ log[pos] # NL

TailTypeOK ==
    /\ log \in Texts /\ n \in Int /\ pos \in 0 .. Len(log)
    /\ lines \in [0 .. n - 1 -> Texts] /\ count \in Nat /\ lineBuilder \in Texts

TailInv == /\ TailTypeOK /\ TailIsExact
           /\ result = Nothing /\ n > 0 => Consumed
=============================================================================
