--------------------------- MODULE LogTail_proofs ---------------------------
(***************************************************************************)
(* Theorems about LogTail, for every log, every line that is appended,     *)
(* every size of the buffer and every number of lines asked for.           *)
(***************************************************************************)
EXTENDS LogTail, NatLemmas, SequenceTheorems

Chars == {NL, Letter}
Splits == [whole : Seq(Texts), open : Texts]

-----------------------------------------------------------------------------
(* Splitting a text into lines.                                            *)

\* One more character makes a split a split.
LEMMA AddCharTyped ==
    ASSUME NEW s \in Splits, NEW c \in Chars
    PROVE  AddChar(s, c) \in Splits
  <1>1. s.whole \in Seq(Texts) /\ s.open \in Texts /\ <<>> \in Texts
    BY DEF Splits, Texts
  <1>2. Append(s.whole, s.open) \in Seq(Texts)
    BY <1>1
  <1>3. Append(s.open, c) \in Texts
    BY <1>1 DEF Texts, Chars
  <1>4. QED BY <1>1, <1>2, <1>3 DEF AddChar, Splits

\* A split is what its recursive definition says.
LEMMA SplitSteps ==
    ASSUME NEW text \in Texts
    PROVE  /\ Split(text)[0] = [whole |-> <<>>, open |-> <<>>]
           /\ \A p \in 0 .. Len(text) : Split(text)[p] \in Splits
           /\ \A p \in 1 .. Len(text) : Split(text)[p] = AddChar(Split(text)[p - 1], text[p])
  <1> DEFINE none == [whole |-> <<>>, open |-> <<>>]
             step == [p \in Nat |-> [s \in Splits |->
                        IF p + 1 <= Len(text) THEN AddChar(s, text[p + 1]) ELSE s]]
             size == Len(text)
  <1>1. none \in Splits
    BY DEF Splits, Texts
  <1>2. size \in Nat /\ \A p \in 1 .. size : text[p] \in Chars
    BY DEF Texts, Chars
  <1>3. step \in [Nat -> [Splits -> Splits]]
    <2>1. ASSUME NEW p \in Nat, NEW s \in Splits
          PROVE  (IF p + 1 <= size THEN AddChar(s, text[p + 1]) ELSE s) \in Splits
      <3>1. CASE p + 1 <= size
        <4>1. text[p + 1] \in Chars
          BY <1>2, <3>1
        <4>2. AddChar(s, text[p + 1]) \in Splits
          BY <4>1, AddCharTyped
        <4>3. QED BY <3>1, <4>2
      <3>2. CASE ~(p + 1 <= size)
        BY <3>2
      <3>3. QED BY <3>1, <3>2
    <2>2. QED BY <2>1
  <1>4. PICK f : Recursive(f, Splits, none, step)
    <2> HIDE DEF none, step
    <2>1. QED BY <1>1, <1>3, Recursion
  <1> DEFINE g == [p \in 0 .. size |-> f[p]]
  <1>5. ASSUME NEW p \in 1 .. size PROVE f[p] = AddChar(f[p - 1], text[p])
    <2>1. p - 1 \in Nat /\ (p - 1) + 1 = p /\ p <= size
      BY <1>2
    <2>2. f[p - 1] \in Splits
      BY <1>4, <2>1 DEF Recursive
    <2>3. f[(p - 1) + 1] = step[p - 1][f[p - 1]]
      BY <1>4, <2>1 DEF Recursive
    <2>4. step[p - 1][f[p - 1]] = AddChar(f[p - 1], text[p])
      BY <2>1, <2>2
    <2>5. QED BY <2>1, <2>3, <2>4
  <1>6. g = [p \in 0 .. size |-> IF p = 0 THEN none ELSE AddChar(g[p - 1], text[p])]
    <2>1. ASSUME NEW p \in 0 .. size
          PROVE  f[p] = IF p = 0 THEN none ELSE AddChar(g[p - 1], text[p])
      <3>1. CASE p = 0
        BY <1>4, <3>1 DEF Recursive
      <3>2. CASE p # 0
        <4>1. p \in 1 .. size /\ p - 1 \in 0 .. size
          BY <1>2, <3>2
        <4>2. QED BY <1>5, <3>2, <4>1
      <3>3. QED BY <3>1, <3>2
    <2>2. QED BY <2>1
  <1>7. Split(text) = [p \in 0 .. size |-> IF p = 0 THEN none
                                            ELSE AddChar(Split(text)[p - 1], text[p])]
    <2> HIDE DEF g
    <2>1. QED BY <1>6 DEF Split
  <1> HIDE DEF none, size
  <1>8. \A p \in 1 .. size : Split(text)[p] = AddChar(Split(text)[p - 1], text[p])
    <2>1. ASSUME NEW p \in 1 .. size PROVE p \in 0 .. size /\ p # 0
      BY <1>2
    <2>2. QED BY <1>7, <2>1
  <1>9. Split(text)[0] = none
    BY <1>2, <1>7
  <1>10. \A p \in 0 .. size : Split(text)[p] \in Splits
    <2> DEFINE S == {p \in Nat : p <= size => Split(text)[p] \in Splits}
    <2>1. 0 \in S
      BY <1>1, <1>9
    <2>2. ASSUME NEW p \in Nat, p \in S PROVE p + 1 \in S
      <3>1. CASE p + 1 <= size
        <4>1. p + 1 \in 1 .. size /\ (p + 1) - 1 = p /\ p <= size
          BY <1>2, <3>1
        <4>2. Split(text)[p + 1] = AddChar(Split(text)[p], text[p + 1])
          BY <1>8, <4>1
        <4>3. Split(text)[p] \in Splits /\ text[p + 1] \in Chars
          BY <1>2, <2>2, <4>1
        <4>4. QED BY <4>2, <4>3, AddCharTyped
      <3>2. CASE ~(p + 1 <= size)
        BY <3>2
      <3>3. QED BY <3>1, <3>2
    <2> HIDE DEF S
    <2>3. Nat \subseteq S
      BY <2>1, <2>2, Induction
    <2>4. QED BY <1>2, <2>3 DEF S
  <1>11. QED BY <1>8, <1>9, <1>10 DEF none, size

\* The split of a prefix is that of any text that begins with it.
LEMMA SameSplit ==
    ASSUME NEW s \in Texts, NEW t \in Texts, NEW p \in Nat,
           p <= Len(s), p <= Len(t), \A i \in 1 .. p : s[i] = t[i]
    PROVE  Split(s)[p] = Split(t)[p]
  <1> DEFINE S == {k \in Nat : k <= p => Split(s)[k] = Split(t)[k]}
  <1>1. 0 \in S
    BY SplitSteps
  <1>2. ASSUME NEW k \in Nat, k \in S PROVE k + 1 \in S
    <2>1. CASE k + 1 <= p
      <3>1. /\ k + 1 \in 1 .. Len(s) /\ k + 1 \in 1 .. Len(t) /\ k + 1 \in 1 .. p
            /\ (k + 1) - 1 = k /\ k <= p
        BY <2>1 DEF Texts
      <3>2. /\ Split(s)[k + 1] = AddChar(Split(s)[k], s[k + 1])
            /\ Split(t)[k + 1] = AddChar(Split(t)[k], t[k + 1])
        BY <3>1, SplitSteps
      <3>3. s[k + 1] = t[k + 1] /\ Split(s)[k] = Split(t)[k]
        BY <1>2, <3>1
      <3>4. QED BY <3>2, <3>3
    <2>2. CASE ~(k + 1 <= p)
      BY <2>2
    <2>3. QED BY <2>1, <2>2
  <1> HIDE DEF S
  <1>3. Nat \subseteq S
    BY <1>1, <1>2, Induction
  <1>4. QED BY <1>3 DEF S

\* Appending to a concatenation is appending to its second part.
LEMMA AppendToConcat ==
    ASSUME NEW u \in Texts, NEW v \in Texts, NEW c \in Chars
    PROVE  Append(u \o v, c) = u \o Append(v, c)
  BY DEF Texts, Chars

\* Characters that end no line are added to the open one.
LEMMA SplitPlain ==
    ASSUME NEW text \in Texts, NEW p \in Nat, NEW m \in Nat, p + m <= Len(text),
           \A i \in p + 1 .. p + m : text[i] # NL
    PROVE  Split(text)[p + m] = [whole |-> Split(text)[p].whole,
                                 open |-> Split(text)[p].open \o SubSeq(text, p + 1, p + m)]
  <1> DEFINE from == Split(text)[p]
             Grown(k) == [whole |-> from.whole,
                          open |-> from.open \o SubSeq(text, p + 1, p + k)]
             S == {k \in Nat : k <= m => Split(text)[p + k] = Grown(k)}
  <1>0. Len(text) \in Nat /\ \A i \in 1 .. Len(text) : text[i] \in Chars
    BY DEF Texts, Chars
  <1>1. from \in Splits
    <2>1. p \in 0 .. Len(text)
      BY <1>0
    <2>2. QED BY <2>1, SplitSteps
  <1>2. 0 \in S
    <2>1. SubSeq(text, p + 1, p + 0) = <<>>
      BY SubSeqEmpty
    <2>2. from.open \o <<>> = from.open
      BY <1>1, ConcatEmptySeq DEF Splits, Texts
    <2>3. from = [whole |-> from.whole, open |-> from.open]
      BY <1>1 DEF Splits
    <2>4. p + 0 = p
      OBVIOUS
    <2> HIDE DEF from
    <2>5. QED BY <2>1, <2>2, <2>3, <2>4 DEF from
  <1>3. ASSUME NEW k \in Nat, k \in S PROVE k + 1 \in S
    <2>1. CASE k + 1 <= m
      <3> DEFINE q == p + k
                 part == SubSeq(text, p + 1, q)
      <3>1. /\ q \in Nat /\ q + 1 \in 1 .. Len(text) /\ (q + 1) - 1 = q
            /\ q + 1 = p + (k + 1) /\ q + 1 \in p + 1 .. p + m /\ k <= m
        BY <1>0, <2>1
      <3>2. Split(text)[q + 1] = AddChar(Split(text)[q], text[q + 1])
        BY <3>1, SplitSteps
      <3>3. text[q + 1] # NL /\ text[q + 1] \in Chars
        BY <1>0, <3>1
      <3>4. Split(text)[q] = Grown(k)
        BY <1>3, <3>1
      <3>5. part \in Texts
        <4>1. \A i \in p + 1 .. q : text[i] \in Chars
          BY <1>0, <3>1
        <4>2. QED BY <3>1, <4>1, SubSeqProperties DEF Texts, Chars
      <3>6. SubSeq(text, p + 1, q + 1) = Append(part, text[q + 1])
        BY <1>0, <3>1 DEF Texts
      <3>7. Append(from.open \o part, text[q + 1]) = from.open \o Append(part, text[q + 1])
        <4>1. from.open \in Texts
          BY <1>1 DEF Splits
        <4> HIDE DEF from, part
        <4>2. QED BY <3>3, <3>5, <4>1, AppendToConcat
      <3>8. AddChar(Grown(k), text[q + 1]) = Grown(k + 1)
        <4> HIDE DEF from, part
        <4>1. AddChar(Grown(k), text[q + 1]) =
                [whole |-> from.whole, open |-> Append(from.open \o part, text[q + 1])]
          BY <3>3 DEF AddChar, part
        <4>2. QED BY <3>1, <3>6, <3>7, <4>1 DEF part
      <3> HIDE DEF Grown, q
      <3>9. QED BY <3>1, <3>2, <3>4, <3>8
    <2>2. CASE ~(k + 1 <= m)
      <3> HIDE DEF Grown
      <3>1. QED BY <2>2
    <2>3. QED BY <2>1, <2>2
  <1>4. Split(text)[p + m] = Grown(m)
    <2> HIDE DEF S
    <2>1. Nat \subseteq S
      BY <1>2, <1>3, Induction
    <2>2. m \in S
      BY <2>1
    <2> HIDE DEF Grown
    <2>3. QED BY <2>2 DEF S
  <1>5. QED BY <1>4

\* The end of a line closes the open one.
LEMMA SplitLine ==
    ASSUME NEW text \in Texts, NEW p \in Nat, NEW m \in Nat, p + m + 1 <= Len(text),
           \A i \in p + 1 .. p + m : text[i] # NL, text[p + m + 1] = NL
    PROVE  Split(text)[p + m + 1] =
             [whole |-> Append(Split(text)[p].whole,
                               Split(text)[p].open \o SubSeq(text, p + 1, p + m)),
              open |-> <<>>]
  <1>1. /\ Len(text) \in Nat /\ p + m <= Len(text) /\ p + m + 1 \in 1 .. Len(text)
        /\ (p + m + 1) - 1 = p + m
    BY DEF Texts
  <1>2. Split(text)[p + m + 1] = AddChar(Split(text)[p + m], text[p + m + 1])
    BY <1>1, SplitSteps
  <1>3. Split(text)[p + m] = [whole |-> Split(text)[p].whole,
                              open |-> Split(text)[p].open \o SubSeq(text, p + 1, p + m)]
    BY <1>1, SplitPlain
  <1>4. QED BY <1>2, <1>3 DEF AddChar

-----------------------------------------------------------------------------
(* The ring.                                                               *)

\* A line goes to a slot that none of the last n lines before it needs.
LEMMA RingAdds ==
    ASSUME n \in Nat, n > 0, NEW ring \in [0 .. n - 1 -> Texts], NEW ls \in Seq(Texts),
           NEW line \in Texts, HeldIn(ring, ls)
    PROVE  /\ HeldIn([ring EXCEPT ![Len(ls) % n] = line], Append(ls, line))
           /\ [ring EXCEPT ![Len(ls) % n] = line] \in [0 .. n - 1 -> Texts]
  <1> DEFINE c == Len(ls)
             new == [ring EXCEPT ![c % n] = line]
  <1>1. c \in Nat /\ c % n \in 0 .. n - 1
    BY RemainderIsSlot
  <1>2. /\ Len(Append(ls, line)) = c + 1 /\ Append(ls, line)[c + 1] = line
        /\ \A j \in 1 .. c : Append(ls, line)[j] = ls[j]
    OBVIOUS
  <1>3. ASSUME NEW j \in 1 .. c, j > c + 1 - n PROVE new[(j - 1) % n] = ls[j]
    <2>1. j - 1 \in Nat /\ j - 1 < c /\ c < (j - 1) + n /\ j > c - n
      BY <1>1, <1>3
    <2>2. (j - 1) % n # c % n
      BY <1>1, <2>1, RemaindersDiffer
    <2>3. (j - 1) % n \in 0 .. n - 1
      BY <2>1, RemainderIsSlot
    <2>4. ring[(j - 1) % n] = ls[j]
      BY <2>1 DEF HeldIn
    <2>5. QED BY <2>2, <2>3, <2>4
  <1>4. new[((c + 1) - 1) % n] = line
    BY <1>1
  <1>5. new \in [0 .. n - 1 -> Texts]
    OBVIOUS
  <1> DEFINE more == Append(ls, line)
  <1>6. HeldIn(new, more)
    <2>1. Len(more) = c + 1 /\ more[c + 1] = line /\ \A j \in 1 .. c : more[j] = ls[j]
      BY <1>2
    <2> HIDE DEF c, new, more
    <2>2. ASSUME NEW j \in 1 .. c + 1, j > c + 1 - n PROVE new[(j - 1) % n] = more[j]
      <3>1. CASE j \in 1 .. c
        BY <1>3, <2>1, <2>2, <3>1
      <3>2. CASE j = c + 1
        BY <1>4, <2>1, <3>2
      <3>3. QED BY <1>1, <3>1, <3>2
    <2>3. QED BY <1>1, <2>1, <2>2 DEF HeldIn
  <1>7. QED BY <1>5, <1>6

\* Unrolled from its oldest slot, the ring is the last n lines.
LEMMA RingUnrolled ==
    ASSUME n \in Nat, n > 0, NEW ring, NEW ls \in Seq(Texts), HeldIn(ring, ls)
    PROVE  Ring(ring, Len(ls)) = LastOf(ls, n)
  <1> DEFINE c == Len(ls)
  <1>1. c \in Nat /\ \A j \in 1 .. c : ls[j] \in Texts
    OBVIOUS
  <1>2. CASE c <= n
    <2>1. ASSUME NEW i \in 1 .. c PROVE ring[i - 1] = ls[i]
      <3>1. i - 1 \in Nat /\ i - 1 < n /\ i > c - n
        BY <1>1, <1>2
      <3>2. (i - 1) % n = i - 1
        BY <3>1, RemainderIsSlot
      <3>3. ring[(i - 1) % n] = ls[i]
        BY <3>1 DEF HeldIn
      <3>4. QED BY <3>2, <3>3
    <2>2. LastOf(ls, n) = ls
      BY <1>2, SubSeqFull DEF LastOf
    <2>3. Ring(ring, c) = [i \in 1 .. c |-> ring[i - 1]]
      BY <1>2 DEF Ring
    <2>4. ls = [i \in 1 .. c |-> ls[i]]
      OBVIOUS
    <2>5. QED BY <2>1, <2>2, <2>3, <2>4
  <1>3. CASE c > n
    <2>1. ASSUME NEW i \in 1 .. n PROVE ring[((c % n) + i - 1) % n] = ls[c - n + i]
      <3> DEFINE j == c - n + i
      <3>1. j \in 1 .. c /\ j > c - n /\ j - 1 \in Nat /\ i - 1 \in Nat
        BY <1>1, <1>3
      <3>2. ring[(j - 1) % n] = ls[j]
        BY <3>1 DEF HeldIn
      <3>3. ((c % n) + (i - 1)) % n = (c + (i - 1)) % n
        BY <1>1, <3>1, RemainderOfSum
      <3>4. c + (i - 1) = (j - 1) + n
        BY <1>1
      <3>5. ((j - 1) + n) % n = (j - 1) % n
        BY <3>1, RemainderOfSum
      <3>6. (c % n) + i - 1 = (c % n) + (i - 1)
        <4>1. c % n \in Int
          BY <1>1, RemainderIsSlot
        <4>2. QED BY <4>1
      <3>7. QED BY <3>2, <3>3, <3>4, <3>5, <3>6
    <2>2. Ring(ring, c) = [i \in 1 .. n |-> ring[((c % n) + i - 1) % n]]
      BY <1>1, <1>3 DEF Ring
    <2>3. LastOf(ls, n) = SubSeq(ls, c - n + 1, c)
      <3>1. (IF c <= n THEN 1 ELSE c - n + 1) = c - n + 1
        BY <1>1, <1>3
      <3>2. QED BY <3>1 DEF LastOf
    <2>4. SubSeq(ls, c - n + 1, c) = [i \in 1 .. n |-> ls[c - n + i]]
      <3>1. /\ SubSeq(ls, c - n + 1, c) \in Seq(Texts) /\ Len(SubSeq(ls, c - n + 1, c)) = n
            /\ \A i \in 1 .. n : SubSeq(ls, c - n + 1, c)[i] = ls[(c - n + 1) + i - 1]
        <4>1. \A i \in c - n + 1 .. c : ls[i] \in Texts
          BY <1>1, <1>3
        <4>2. c - (c - n + 1) + 1 = n /\ c - n + 1 <= c
          BY <1>1, <1>3
        <4>3. QED BY <1>1, <4>1, <4>2, SubSeqProperties
      <3>2. \A i \in 1 .. n : (c - n + 1) + i - 1 = c - n + i
        BY <1>1
      <3>3. QED BY <3>1, <3>2
    <2>5. QED BY <2>1, <2>2, <2>3, <2>4
  <1>4. QED BY <1>1, <1>2, <1>3

-----------------------------------------------------------------------------
(* Reading.                                                                *)

\* The lines of a prefix, from the split of the whole text.
LEMMA LinesOfPrefix ==
    ASSUME NEW text \in Texts, NEW p \in 0 .. Len(text)
    PROVE  /\ SubSeq(text, 1, p) \in Texts /\ Len(SubSeq(text, 1, p)) = p
           /\ \A i \in 1 .. p : SubSeq(text, 1, p)[i] = text[i]
           /\ Split(text)[p].whole \in Seq(Texts) /\ Split(text)[p].open \in Texts
           /\ LinesOf(SubSeq(text, 1, p)) \in Seq(Texts)
           /\ LinesOf(SubSeq(text, 1, p)) =
                IF Split(text)[p].open = <<>> THEN Split(text)[p].whole
                ELSE Append(Split(text)[p].whole, Split(text)[p].open)
  <1> DEFINE prefix == SubSeq(text, 1, p)
             split == Split(text)[p]
  <1>1. Len(text) \in Nat /\ p \in Nat /\ p <= Len(text)
    BY DEF Texts
  <1>2. prefix \in Texts /\ Len(prefix) = p /\ \A i \in 1 .. p : prefix[i] = text[i]
    <2>1. \A i \in 1 .. p : text[i] \in Chars
      BY <1>1 DEF Texts, Chars
    <2>2. QED BY <1>1, <2>1, SubSeqProperties DEF Texts, Chars
  <1> HIDE DEF prefix
  <1>3. Split(prefix)[p] = split
    BY <1>1, <1>2, SameSplit
  <1>4. split.whole \in Seq(Texts) /\ split.open \in Texts
    BY SplitSteps DEF Splits
  <1> HIDE DEF split
  <1>5. LinesOf(prefix) = IF split.open = <<>> THEN split.whole
                         ELSE Append(split.whole, split.open)
    BY <1>2, <1>3 DEF LinesOf
  <1>6. LinesOf(prefix) \in Seq(Texts)
    BY <1>4, <1>5
  <1>7. QED BY <1>2, <1>4, <1>5, <1>6 DEF prefix, split

\* What is consumed splits like the beginning of the log.
LEMMA ReadTyped ==
    ASSUME TailTypeOK
    PROVE  /\ ReadSplit.whole \in Seq(Texts) /\ ReadSplit.open \in Texts
           /\ LinesOf(Read) \in Seq(Texts)
           /\ LinesOf(Read) = IF ReadSplit.open = <<>> THEN ReadSplit.whole
                              ELSE Append(ReadSplit.whole, ReadSplit.open)
  <1>1. log \in Texts /\ pos \in 0 .. Len(log)
    BY DEF TailTypeOK
  <1>2. QED BY <1>1, LinesOfPrefix DEF Read, ReadSplit

\* The characters that are not consumed yet.
LEMMA UnreadTyped ==
    ASSUME TailTypeOK
    PROVE  /\ Unread \in Texts /\ Len(Unread) = Len(log) - pos
           /\ \A i \in 1 .. Len(Unread) : Unread[i] = log[pos + i]
           /\ \A k \in 0 .. Len(Unread) :
                SubSeq(Unread, 1, k) = SubSeq(log, pos + 1, pos + k)
                /\ SubSeq(Unread, 1, k) \in Texts
           /\ LineEnds = {i \in 1 .. Len(Unread) : log[pos + i] = NL}
  <1>1. log \in Texts /\ Len(log) \in Nat /\ pos \in Nat /\ pos <= Len(log)
    BY DEF TailTypeOK, Texts
  <1>2. \A i \in 1 .. Len(log) : log[i] \in Chars
    BY <1>1 DEF Texts, Chars
  <1>3. /\ Unread \in Texts /\ Len(Unread) = Len(log) - pos
        /\ \A i \in 1 .. Len(log) - pos : Unread[i] = log[pos + i]
    <2>1. \A i \in pos + 1 .. Len(log) : log[i] \in Chars
      BY <1>1, <1>2
    <2>2. /\ Unread \in Texts
          /\ Len(Unread) = IF pos + 1 <= Len(log) THEN Len(log) - (pos + 1) + 1 ELSE 0
          /\ \A i \in 1 .. Len(log) - (pos + 1) + 1 : Unread[i] = log[pos + 1 + i - 1]
      BY <1>1, <2>1, SubSeqProperties DEF Unread, Texts, Chars
    <2>3. /\ Len(log) - (pos + 1) + 1 = Len(log) - pos
          /\ \A i \in 1 .. Len(log) - pos : pos + 1 + i - 1 = pos + i
      BY <1>1
    <2> DEFINE rest == Len(log) - pos
    <2>4. Len(Unread) = rest
      BY <1>1, <2>2
    <2>5. \A i \in 1 .. rest : Unread[i] = log[pos + i]
      BY <2>2, <2>3
    <2>6. QED BY <2>2, <2>4, <2>5
  <1>4. ASSUME NEW k \in 0 .. Len(Unread)
        PROVE  /\ SubSeq(Unread, 1, k) = SubSeq(log, pos + 1, pos + k)
               /\ SubSeq(Unread, 1, k) \in Texts
    <2> DEFINE u == SubSeq(Unread, 1, k)
               v == SubSeq(log, pos + 1, pos + k)
    <2>1. k \in Nat /\ k <= Len(log) - pos
      BY <1>1, <1>3
    <2>2. u \in Texts /\ Len(u) = k /\ \A i \in 1 .. k : u[i] = log[pos + i]
      <3>1. \A i \in 1 .. k : Unread[i] \in Chars /\ Unread[i] = log[pos + i]
        BY <1>1, <1>2, <1>3, <2>1
      <3>2. /\ u \in Texts /\ Len(u) = IF 1 <= k THEN k - 1 + 1 ELSE 0
            /\ \A i \in 1 .. k - 1 + 1 : u[i] = Unread[1 + i - 1]
        BY <2>1, <3>1, SubSeqProperties DEF Texts, Chars
      <3> HIDE DEF u
      <3>3. k - 1 + 1 = k /\ \A i \in 1 .. k : 1 + i - 1 = i
        BY <2>1
      <3>4. QED BY <2>1, <3>1, <3>2, <3>3
    <2>3. v \in Texts /\ Len(v) = k /\ \A i \in 1 .. k : v[i] = log[pos + i]
      <3>1. \A i \in pos + 1 .. pos + k : log[i] \in Chars
        BY <1>1, <1>2, <2>1
      <3>2. /\ v \in Texts /\ Len(v) = IF pos + 1 <= pos + k THEN pos + k - (pos + 1) + 1 ELSE 0
            /\ \A i \in 1 .. pos + k - (pos + 1) + 1 : v[i] = log[pos + 1 + i - 1]
        BY <1>1, <2>1, <3>1, SubSeqProperties DEF Texts, Chars
      <3> HIDE DEF v
      <3>3. pos + k - (pos + 1) + 1 = k /\ \A i \in 1 .. k : pos + 1 + i - 1 = pos + i
        BY <1>1, <2>1
      <3>4. QED BY <1>1, <2>1, <3>2, <3>3
    <2> HIDE DEF u, v
    <2>4. u = v
      BY <2>2, <2>3, SeqEqual DEF Texts
    <2>5. QED BY <2>2, <2>4 DEF u, v
  <1>5. LineEnds = {i \in 1 .. Len(Unread) : log[pos + i] = NL}
    <2>1. DOMAIN Unread = 1 .. Len(Unread)
      BY <1>3 DEF Texts
    <2>2. QED BY <1>3, <2>1 DEF LineEnds
  <1>6. QED BY <1>3, <1>4, <1>5

\* Nothing is read of a log that ends with a line that has been taken.
LEMMA UnreadKept ==
    ASSUME TailTypeOK, Consumed, Unread # <<>>
    PROVE  HeldIn(lines, ReadSplit.whole) /\ count = Len(ReadSplit.whole)
           /\ lineBuilder = ReadSplit.open
  <1>1. Len(Unread) # 0
    BY UnreadTyped, EmptySeq DEF Texts
  <1>2. pos # Len(log)
    <2>1. Len(Unread) = Len(log) - pos /\ pos \in Int
      BY UnreadTyped DEF TailTypeOK
    <2>2. QED BY <1>1, <2>1
  <1>3. QED BY <1>2 DEF Consumed

\* A chunk without the end of a line, then: what a prefix or a rest adds.
LEMMA ChunkSplits ==
    ASSUME TailTypeOK, NEW k \in 0 .. Len(Unread), \A i \in LineEnds : i > k
    PROVE  Split(log)[pos + k] = [whole |-> ReadSplit.whole,
                                  open |-> ReadSplit.open \o SubSeq(Unread, 1, k)]
  <1>1. log \in Texts /\ pos \in Nat /\ k \in Nat /\ pos + k <= Len(log)
    BY UnreadTyped DEF TailTypeOK, Texts
  <1>2. ASSUME NEW i \in pos + 1 .. pos + k PROVE log[i] # NL
    <2>1. i - pos \in 1 .. Len(Unread) /\ i - pos <= k /\ pos + (i - pos) = i
      BY <1>1, UnreadTyped
    <2>2. i - pos \notin LineEnds
      BY <1>1, <2>1
    <2>3. QED BY <2>1, <2>2, UnreadTyped
  <1>3. SubSeq(Unread, 1, k) = SubSeq(log, pos + 1, pos + k)
    BY UnreadTyped
  <1>4. QED BY <1>1, <1>2, <1>3, SplitPlain DEF ReadSplit

\* The end of a line is read: the ring takes the line.
LEMMA ReadToEndKeeps ==
    ASSUME TailTypeOK, Consumed, ReadToEnd
    PROVE  TailTypeOK' /\ Consumed'
  <1>1. PICK i \in LineEnds :
          /\ \A j \in LineEnds : i <= j
          /\ pos' = pos + i
          /\ AddLine(lineBuilder \o SubSeq(Unread, 1, i - 1))
    BY DEF ReadToEnd
  <1> DEFINE k == i - 1
             line == lineBuilder \o SubSeq(Unread, 1, k)
  <1>2. /\ log' = log /\ n' = n /\ n \in Nat /\ n > 0 /\ pos \in Nat /\ log \in Texts
        /\ Len(log) \in Nat
    BY DEF ReadToEnd, Reading, TailTypeOK, Texts
  <1>3. /\ k \in 0 .. Len(Unread) /\ k \in Nat /\ pos + k + 1 = pos + i
        /\ pos + i <= Len(log) /\ log[pos + i] = NL
    <2>1. i \in 1 .. Len(Unread) /\ log[pos + i] = NL /\ Len(Unread) = Len(log) - pos
      BY UnreadTyped
    <2>2. QED BY <1>2, <2>1
  <1>4. Unread # <<>>
    BY <1>3, UnreadTyped, <1>2, EmptySeq
  <1>5. /\ HeldIn(lines, ReadSplit.whole) /\ count = Len(ReadSplit.whole)
        /\ lineBuilder = ReadSplit.open
    BY <1>4, UnreadKept
  <1>6. /\ ReadSplit.whole \in Seq(Texts) /\ line \in Texts
        /\ lines \in [0 .. n - 1 -> Texts] /\ count \in Nat
    <2>1. SubSeq(Unread, 1, k) \in Texts /\ lineBuilder \in Texts
      BY <1>3, UnreadTyped DEF TailTypeOK
    <2>2. line \in Texts
      BY <2>1, ConcatProperties DEF Texts
    <2>3. QED BY <2>2, ReadTyped DEF TailTypeOK
  <1>7. Split(log)[pos + i] = [whole |-> Append(ReadSplit.whole, line), open |-> <<>>]
    <2>1. ASSUME NEW j \in pos + 1 .. pos + k PROVE log[j] # NL
      <3>1. j - pos \in 1 .. Len(Unread) /\ j - pos < i /\ pos + (j - pos) = j
        BY <1>2, <1>3, UnreadTyped
      <3>2. j - pos \notin LineEnds
        <4>1. i \in Int
          BY <1>2, UnreadTyped
        <4>2. QED BY <1>1, <1>2, <3>1, <4>1
      <3>3. QED BY <3>1, <3>2, UnreadTyped
    <2>2. SubSeq(Unread, 1, k) = SubSeq(log, pos + 1, pos + k)
      BY <1>3, UnreadTyped
    <2>3. pos + k + 1 <= Len(log) /\ log[pos + k + 1] = NL
      BY <1>3
    <2> HIDE DEF k
    <2>4. Split(log)[pos + k + 1] =
            [whole |-> Append(ReadSplit.whole, ReadSplit.open \o SubSeq(log, pos + 1, pos + k)),
             open |-> <<>>]
      BY <1>2, <1>3, <2>1, <2>3, SplitLine DEF ReadSplit
    <2>5. QED BY <1>3, <1>5, <2>2, <2>4
  <1>8. /\ lines' = [lines EXCEPT ![count % n] = line]
        /\ count' = count + 1 /\ lineBuilder' = <<>>
    BY <1>1 DEF AddLine
  <1> HIDE DEF k, line
  <1>9. ReadSplit' = [whole |-> Append(ReadSplit.whole, line), open |-> <<>>]
    BY <1>1, <1>2, <1>7 DEF ReadSplit
  <1>10. HeldIn(lines', Append(ReadSplit.whole, line)) /\ lines' \in [0 .. n - 1 -> Texts]
    BY <1>2, <1>5, <1>6, <1>8, RingAdds
  <1>11. HeldIn(lines, ReadSplit.whole)'
    BY <1>2, <1>9, <1>10 DEF HeldIn
  <1>12. Consumed'
    <2>1. Len(Append(ReadSplit.whole, line)) = count + 1
      BY <1>5, <1>6
    <2>2. QED BY <1>8, <1>9, <1>11, <2>1 DEF Consumed
  <1>13. TailTypeOK'
    <2>1. pos' \in 0 .. Len(log)
      BY <1>1, <1>2, <1>3
    <2>2. QED BY <1>2, <1>6, <1>8, <1>10, <2>1 DEF TailTypeOK, Texts
  <1>14. QED BY <1>12, <1>13

\* A full buffer without the end of a line: the builder takes it.
LEMMA ReadPrefixKeeps ==
    ASSUME TailTypeOK, Consumed, ReadPrefix
    PROVE  TailTypeOK' /\ Consumed'
  <1> DEFINE k == BufferSize
  <1>1. /\ log' = log /\ n' = n /\ lines' = lines /\ count' = count /\ pos' = pos + k
        /\ lineBuilder' = lineBuilder \o SubSeq(Unread, 1, k)
        /\ Len(Unread) >= k /\ \A i \in LineEnds : i > k
    BY DEF ReadPrefix
  <1>2. /\ pos \in Nat /\ log \in Texts /\ Len(log) \in Nat /\ k \in Nat \ {0}
        /\ Len(Unread) = Len(log) - pos
    BY TailAssumption, UnreadTyped DEF TailTypeOK, Texts
  <1>3. k \in 0 .. Len(Unread)
    BY <1>1, <1>2
  <1>4. /\ HeldIn(lines, ReadSplit.whole) /\ count = Len(ReadSplit.whole)
        /\ lineBuilder = ReadSplit.open
    <2>1. Unread # <<>>
      BY <1>1, <1>2
    <2>2. QED BY <2>1, UnreadKept
  <1>5. ReadSplit' = [whole |-> ReadSplit.whole, open |-> lineBuilder']
    <2>1. Split(log)[pos + k] = [whole |-> ReadSplit.whole,
                                open |-> ReadSplit.open \o SubSeq(Unread, 1, k)]
      BY <1>1, <1>3, ChunkSplits
    <2>2. QED BY <1>1, <1>4, <2>1 DEF ReadSplit
  <1>6. Consumed'
    <2>1. HeldIn(lines, ReadSplit.whole)'
      BY <1>1, <1>4, <1>5 DEF HeldIn
    <2>2. QED BY <1>1, <1>4, <1>5, <2>1 DEF Consumed
  <1>7. lineBuilder' \in Texts
    <2>1. SubSeq(Unread, 1, k) \in Texts /\ lineBuilder \in Texts
      BY <1>3, UnreadTyped DEF TailTypeOK
    <2>2. QED BY <1>1, <2>1 DEF Texts
  <1>8. pos' \in 0 .. Len(log)
    BY <1>1, <1>2
  <1>9. QED BY <1>1, <1>6, <1>7, <1>8 DEF TailTypeOK

\* The end of the log, which is not the end of a line: the ring takes it.
LEMMA ReadRestKeeps ==
    ASSUME TailTypeOK, Consumed, ReadRest
    PROVE  TailTypeOK' /\ Consumed'
  <1> DEFINE k == Len(Unread)
             line == lineBuilder \o Unread
  <1>1. /\ log' = log /\ n' = n /\ pos' = Len(log)
        /\ lines' = [lines EXCEPT ![count % n] = line]
        /\ count' = count + 1 /\ lineBuilder' = <<>>
        /\ Unread # <<>> /\ LineEnds = {}
    BY DEF ReadRest, AddLine
  <1>2. /\ pos \in Nat /\ log \in Texts /\ Len(log) \in Nat /\ Unread \in Texts
        /\ k = Len(log) - pos /\ n \in Nat /\ n > 0 /\ lines \in [0 .. n - 1 -> Texts]
        /\ count \in Nat /\ lineBuilder \in Texts
    BY UnreadTyped DEF TailTypeOK, Texts, ReadRest, Reading
  <1>3. k \in Nat \ {0} /\ pos + k = Len(log) /\ k \in 0 .. Len(Unread)
    BY <1>1, <1>2, EmptySeq DEF Texts
  <1>4. /\ HeldIn(lines, ReadSplit.whole) /\ count = Len(ReadSplit.whole)
        /\ lineBuilder = ReadSplit.open
    BY <1>1, UnreadKept
  <1>5. log[Len(log)] # NL
    <2>1. k \notin LineEnds /\ k \in 1 .. Len(Unread)
      BY <1>1, <1>3
    <2>2. QED BY <1>3, <2>1, UnreadTyped
  <1>6. Split(log)[Len(log)] = [whole |-> ReadSplit.whole, open |-> line]
    <2>1. Split(log)[pos + k] = [whole |-> ReadSplit.whole,
                                open |-> ReadSplit.open \o SubSeq(Unread, 1, k)]
      BY <1>1, <1>3, ChunkSplits
    <2>2. SubSeq(Unread, 1, k) = Unread
      BY <1>2, SubSeqFull DEF Texts
    <2>3. QED BY <1>3, <1>4, <2>1, <2>2
  <1>7. line \in Texts /\ line # <<>>
    BY <1>1, <1>2, ConcatEqualIffEmpty, ConcatProperties DEF Texts
  <1> HIDE DEF k, line
  <1>8. LinesOf(Read)' = Append(ReadSplit.whole, line)
    <2>1. Len(log) \in 0 .. Len(log)
      BY <1>2
    <2>2. LinesOf(SubSeq(log, 1, Len(log))) = Append(ReadSplit.whole, line)
      <3> DEFINE split == Split(log)[Len(log)]
      <3>1. LinesOf(SubSeq(log, 1, Len(log))) =
              IF split.open = <<>> THEN split.whole ELSE Append(split.whole, split.open)
        BY <1>2, <2>1, LinesOfPrefix
      <3>2. split.whole = ReadSplit.whole /\ split.open = line
        BY <1>6
      <3> HIDE DEF split
      <3>3. QED BY <1>7, <3>1, <3>2
    <2>3. QED BY <1>1, <2>2 DEF Read
  <1>9. ReadSplit.whole \in Seq(Texts)
    BY ReadTyped
  <1>10. HeldIn(lines', Append(ReadSplit.whole, line)) /\ lines' \in [0 .. n - 1 -> Texts]
    BY <1>1, <1>2, <1>4, <1>7, <1>9, RingAdds
  <1>11. HeldIn(lines, LinesOf(Read))'
    BY <1>1, <1>8, <1>10 DEF HeldIn
  <1>12. Consumed'
    <2>1. Len(Append(ReadSplit.whole, line)) = count + 1
      BY <1>4, <1>7, <1>9
    <2>2. (pos > 0)' /\ (log[pos] # NL)' /\ (pos = Len(log))'
      BY <1>1, <1>2, <1>3, <1>5
    <2>3. QED BY <1>1, <1>8, <1>11, <2>1, <2>2 DEF Consumed
  <1>13. TailTypeOK'
    <2>1. pos' \in 0 .. Len(log)
      BY <1>1, <1>2
    <2>2. QED BY <1>1, <1>2, <1>10, <2>1 DEF TailTypeOK, Texts
  <1>14. QED BY <1>12, <1>13

\* At the end of the log the ring, and what is left in the builder, are its
\* last lines.
LEMMA ReadEOFIsExact ==
    ASSUME TailTypeOK, Consumed, ReadEOF
    PROVE  result' = Trimmed(LastOf(LinesOf(Read), n))
  <1> DEFINE ls == LinesOf(Read)
             rest == lineBuilder # <<>>
             ring == IF rest THEN [lines EXCEPT ![count % n] = lineBuilder] ELSE lines
             c == IF rest THEN count + 1 ELSE count
  <1>1. n \in Nat /\ n > 0 /\ lines \in [0 .. n - 1 -> Texts] /\ lineBuilder \in Texts
    BY DEF ReadEOF, Reading, TailTypeOK
  <1>2. result' = Trimmed(Ring(ring, c))
    BY DEF ReadEOF
  <1>3. ls \in Seq(Texts)
    BY ReadTyped
  <1>4. HeldIn(ring, ls) /\ c = Len(ls)
    <2>1. CASE /\ HeldIn(lines, ReadSplit.whole) /\ count = Len(ReadSplit.whole)
               /\ lineBuilder = ReadSplit.open
      <3>1. CASE rest
        <4>1. ls = Append(ReadSplit.whole, lineBuilder) /\ ReadSplit.whole \in Seq(Texts)
          BY <2>1, <3>1, ReadTyped
        <4>2. HeldIn([lines EXCEPT ![Len(ReadSplit.whole) % n] = lineBuilder],
                     Append(ReadSplit.whole, lineBuilder))
          BY <1>1, <2>1, <4>1, RingAdds
        <4>3. Len(ls) = count + 1
          BY <2>1, <4>1
        <4> HIDE DEF ls
        <4>4. QED BY <2>1, <3>1, <4>1, <4>2, <4>3
      <3>2. CASE ~rest
        <4>1. ls = ReadSplit.whole
          BY <2>1, <3>2, ReadTyped
        <4> HIDE DEF ls
        <4>2. QED BY <2>1, <3>2, <4>1
      <3>3. QED BY <3>1, <3>2
    <2>2. CASE HeldIn(lines, ls) /\ count = Len(ls) /\ lineBuilder = <<>>
      BY <2>2
    <2>3. QED BY <2>1, <2>2 DEF Consumed
  <1> HIDE DEF ls, ring, c
  <1>5. Ring(ring, Len(ls)) = LastOf(ls, n)
    BY <1>1, <1>3, <1>4, RingUnrolled
  <1>6. QED BY <1>2, <1>4, <1>5 DEF ls

\* What is appended changes nothing that has been read.
LEMMA LoggedKeeps ==
    ASSUME TailTypeOK, Logged
    PROVE  /\ TailTypeOK' /\ Read' = Read
           /\ Consumed => Consumed'
  <1>1. PICK l \in Appended : log' = log \o l
    BY DEF Logged
  <1>2. UNCHANGED <<n, pos, lines, count, lineBuilder, result>>
    BY DEF Logged
  <1>3. log \in Texts /\ l \in Texts /\ pos \in 0 .. Len(log) /\ Len(log) \in Nat
        /\ Len(l) \in Nat
    BY TailAssumption DEF TailTypeOK, Texts
  <1>4. /\ log' \in Texts /\ Len(log') = Len(log) + Len(l)
        /\ \A i \in 1 .. Len(log) : log'[i] = log[i]
    <2>1. \A i \in 1 .. Len(log) : i \in 1 .. Len(log) + Len(l) /\ i <= Len(log)
      BY <1>3
    <2>2. QED BY <1>1, <1>3, <2>1, ConcatProperties DEF Texts
  <1>5. pos \in 0 .. Len(log') /\ \A i \in 1 .. pos : log'[i] = log[i]
    BY <1>3, <1>4
  <1>6. TailTypeOK'
    BY <1>2, <1>4, <1>5 DEF TailTypeOK
  <1>7. Read' = Read
    <2>1. /\ Read \in Texts /\ Len(Read) = pos /\ \A i \in 1 .. pos : Read[i] = log[i]
      BY <1>3, LinesOfPrefix DEF Read
    <2>2. /\ Read' \in Texts /\ Len(Read') = pos /\ \A i \in 1 .. pos : Read'[i] = log'[i]
      BY <1>2, <1>4, <1>5, LinesOfPrefix DEF Read
    <2>3. QED BY <1>5, <2>1, <2>2, SeqEqual DEF Texts
  <1>8. ReadSplit' = ReadSplit
    <2>1. Split(log')[pos] = Split(log)[pos]
      BY <1>3, <1>4, <1>5, SameSplit
    <2>2. QED BY <1>2, <2>1 DEF ReadSplit
  <1>9. ~(pos = Len(log) /\ pos > 0 /\ log[pos] # NL)
    BY <1>3 DEF Logged
  <1>10. ASSUME Consumed PROVE Consumed'
    <2>1. /\ HeldIn(lines, ReadSplit.whole) /\ count = Len(ReadSplit.whole)
          /\ lineBuilder = ReadSplit.open
      BY <1>9, <1>10 DEF Consumed
    <2>2. HeldIn(lines, ReadSplit.whole)'
      BY <1>2, <1>8, <2>1 DEF HeldIn
    <2>3. QED BY <1>2, <1>8, <2>1, <2>2 DEF Consumed
  <1>11. QED BY <1>6, <1>7, <1>10

-----------------------------------------------------------------------------
(* The theorem.                                                            *)

\* At first nothing has been consumed, and the ring is empty.
LEMMA TailInitial == TailInit => TailInv
  <1> SUFFICES ASSUME TailInit PROVE TailInv
    OBVIOUS
  <1>1. log \in Texts /\ n \in Int /\ Len(log) \in Nat
    BY TailAssumption DEF TailInit, Texts
  <1>2. TailTypeOK
    BY <1>1 DEF TailInit, TailTypeOK, Texts
  <1>3. ReadSplit = [whole |-> <<>>, open |-> <<>>]
    BY <1>1, SplitSteps DEF ReadSplit, TailInit
  <1>4. Consumed
    BY <1>3 DEF Consumed, HeldIn, TailInit
  <1>5. QED BY <1>2, <1>4 DEF TailInv, TailIsExact, TailInit

\* Each step keeps what the ring and the builder hold, and the last one
\* returns it.
LEMMA TailStep == TailInv /\ [TailNext]_tailVars => TailInv'
  <1> SUFFICES ASSUME TailInv, [TailNext]_tailVars PROVE TailInv'
    OBVIOUS
  <1>1. TailTypeOK /\ TailIsExact /\ (result = Nothing /\ n > 0 => Consumed)
    BY DEF TailInv
  <1>2. ASSUME Reading, TailTypeOK', Consumed', result' = result PROVE TailInv'
    BY <1>2 DEF TailInv, TailIsExact, Reading
  <1>3. CASE ReadToEnd
    BY <1>1, <1>2, <1>3, ReadToEndKeeps DEF ReadToEnd, Reading
  <1>4. CASE ReadPrefix
    BY <1>1, <1>2, <1>4, ReadPrefixKeeps DEF ReadPrefix, Reading
  <1>5. CASE ReadRest
    BY <1>1, <1>2, <1>5, ReadRestKeeps DEF ReadRest, Reading
  <1>6. CASE ReadEOF
    <2>1. /\ UNCHANGED <<log, n, pos, lines, count, lineBuilder>>
          /\ Consumed /\ n > 0 /\ n \in Int
      BY <1>1, <1>6 DEF ReadEOF, Reading, TailTypeOK
    <2>2. Read' = Read /\ TailTypeOK' /\ Consumed'
      BY <1>1, <2>1 DEF Read, TailTypeOK, Consumed, ReadSplit, HeldIn
    <2>3. TailIsExact'
      BY <1>1, <1>6, <2>1, <2>2, ReadEOFIsExact DEF TailIsExact
    <2>4. QED BY <2>2, <2>3 DEF TailInv
  <1>7. CASE AskedForNone
    <2>1. /\ UNCHANGED <<log, n, pos, lines, count, lineBuilder>>
          /\ n <= 0 /\ result' = <<>> /\ n \in Int
      BY <1>1, <1>7 DEF AskedForNone, TailTypeOK
    <2>2. TailTypeOK' /\ TailIsExact'
      BY <1>1, <2>1 DEF TailTypeOK, TailIsExact
    <2>3. QED BY <2>1, <2>2 DEF TailInv
  <1>8. CASE Logged
    <2>1. TailTypeOK' /\ Read' = Read /\ (Consumed => Consumed') /\ n' = n /\ result' = result
      BY <1>1, <1>8, LoggedKeeps DEF Logged
    <2>2. TailIsExact'
      BY <1>1, <2>1 DEF TailIsExact
    <2>3. QED BY <1>1, <2>1, <2>2 DEF TailInv
  <1>9. CASE UNCHANGED tailVars
    <2>1. Read' = Read /\ TailTypeOK' /\ (Consumed => Consumed')
      BY <1>1, <1>9 DEF tailVars, Read, TailTypeOK, Consumed, ReadSplit, HeldIn
    <2>2. n' = n /\ result' = result
      BY <1>9 DEF tailVars
    <2>3. QED BY <1>1, <2>1, <2>2 DEF TailInv, TailIsExact
  <1>10. QED
    BY <1>3, <1>4, <1>5, <1>6, <1>7, <1>8, <1>9 DEF TailNext, ReadLogTail

\* Whatever the log contains, whatever is appended to it meanwhile, however
\* small the buffer and however many lines are asked for, ReadLogTail returns
\* exactly the last lines (service.go:842-898).
THEOREM TailIsExactAlways == TailSpec => []TailIsExact
  <1>1. TailInv => TailIsExact
    BY DEF TailInv
  <1>2. QED BY TailInitial, TailStep, <1>1, PTL DEF TailSpec

=============================================================================
