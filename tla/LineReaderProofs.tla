-------------------------- MODULE LineReaderProofs --------------------------
(***************************************************************************)
(* That the line reader's buffer is exactly what was read and not returned *)
(* (BufferIsUnread), and never longer than the limit and one read          *)
(* (BufferBounded), and that the lines it returns are the pool's           *)
(* (LinesArrive), whatever the limit, the size of a read and the bytes.    *)
(***************************************************************************)
EXTENDS LineReader, FiniteSetTheorems, SequenceTheorems, TLAPS

\* The buffer may go over the limit only by the read that next_line looks at
\* next, which is why the bound needs no more than the guard of the read; the
\* positions of what was read and returned are what makes the contents inductive.
Inductive == ReaderTypeOK /\ BufferIsUnread /\ BufferBounded

\* A piece of the stream, continued by the piece after it (extend_from_slice).
LEMMA PiecesJoin ==
    ASSUME NEW s \in Seq(Byte), NEW a \in Nat, NEW b \in Nat, NEW c \in Nat,
           a <= b, b <= c, c <= Len(s)
    PROVE  SubSeq(s, a + 1, b) \o SubSeq(s, b + 1, c) = SubSeq(s, a + 1, c)
  OBVIOUS

\* What drain leaves of a piece of the stream once its first k bytes are out.
LEMMA PieceWithoutItsHead ==
    ASSUME NEW s \in Seq(Byte), NEW a \in Nat, NEW b \in Nat, NEW k \in Nat,
           a <= b, b <= Len(s), k <= b - a
    PROVE  SubSeq(SubSeq(s, a + 1, b), k + 1, b - a) = SubSeq(s, a + k + 1, b)
  OBVIOUS

LEMMA PieceUpTo ==
    ASSUME NEW s \in Seq(Byte), NEW a \in Nat, NEW b \in Nat, NEW k \in Nat,
           a <= b, b <= Len(s), k <= b - a
    PROVE  SubSeq(SubSeq(s, a + 1, b), 1, k) = SubSeq(s, a + 1, a + k)
  OBVIOUS

\* A piece does not change when the pool sends another byte behind it.
LEMMA PieceStays ==
    ASSUME NEW s \in Seq(Byte), NEW x \in Byte, NEW a \in Nat, NEW b \in Nat,
           a <= b, b <= Len(s)
    PROVE  SubSeq(Append(s, x), a + 1, b) = SubSeq(s, a + 1, b)
  OBVIOUS

\* The length of a piece.
LEMMA PieceLength ==
    ASSUME NEW s \in Seq(Byte), NEW a \in Nat, NEW b \in Nat, a <= b, b <= Len(s)
    PROVE  Len(SubSeq(s, a + 1, b)) = b - a /\ SubSeq(s, a + 1, b) \in Seq(Byte)
  OBVIOUS

LEMMA InductiveInit == ReaderInit => Inductive
<1> SUFFICES ASSUME ReaderInit PROVE Inductive
    OBVIOUS
<1>1. ReaderTypeOK
  <2>1. sent \in Seq(Byte) /\ buf \in Seq(Byte) /\ lines \in Seq(Seq(Byte)) /\ Len(sent) = 0
      BY EmptySeq, LenProperties DEF ReaderInit
  <2>2. got \in Nat /\ got <= Len(sent) /\ taken \in Nat
      BY <2>1 DEF ReaderInit
  <2>3. closed \in BOOLEAN /\ pc \in {"session", "next_line", "refused", "ended", "failed"}
      BY DEF ReaderInit
  <2> QED
      BY <2>1, <2>2, <2>3 DEF ReaderTypeOK
<1>2. SubSeq(sent, taken + 1, got) = <<>>
    BY SubSeqEmpty DEF ReaderInit
<1>3. BufferIsUnread
    BY <1>2 DEF ReaderInit, BufferIsUnread
<1>4. BufferBounded
    BY ReaderAssumption DEF ReaderInit, BufferBounded
<1> QED
    BY <1>1, <1>3, <1>4 DEF Inductive

LEMMA InductiveNext == Inductive /\ [ReaderNext]_readerVars => Inductive'
<1> SUFFICES ASSUME Inductive, [ReaderNext]_readerVars PROVE Inductive'
    OBVIOUS
<1> USE ReaderAssumption DEF Inductive
<1>1. CASE \E b \in Byte : PoolWrites(b)
  <2>1. PICK b \in Byte : PoolWrites(b)
      BY <1>1
  <2>2. ReaderTypeOK' /\ BufferBounded'
      BY <2>1 DEF PoolWrites, ReaderTypeOK, BufferBounded
  <2>3. BufferIsUnread'
      BY <2>1, PieceStays DEF PoolWrites, ReaderTypeOK, BufferIsUnread
  <2> QED BY <2>2, <2>3
<1>2. CASE \E pos \in 1..Len(buf) : ReturnLine(pos)
  <2>1. PICK pos \in 1..Len(buf) : ReturnLine(pos)
      BY <1>2
  <2>2. pos \in Nat /\ pos >= 1 /\ pos <= Len(buf) /\ Len(buf) = got - taken
      BY PieceLength DEF ReaderTypeOK, BufferIsUnread
  <2>3. buf' = SubSeq(sent, taken + pos + 1, got) /\ taken' = taken + pos /\ taken' \in Nat
      BY <2>1, <2>2, PieceWithoutItsHead DEF ReturnLine, Rest, ReaderTypeOK, BufferIsUnread
  <2>4. BufferIsUnread'
      BY <2>1, <2>2, <2>3 DEF ReturnLine, ReaderTypeOK, BufferIsUnread
  <2>5. Len(buf') = got - (taken + pos) /\ buf' \in Seq(Byte)
      BY <2>2, <2>3, PieceLength DEF ReaderTypeOK
  <2>6. LineAt(pos) \in Seq(Byte)
      BY <2>2 DEF LineAt, ReaderTypeOK
  <2>7. Text(LineAt(pos)) \in Seq(Byte)
      BY <2>6 DEF Text
  <2>8. ReaderTypeOK'
      BY <2>1, <2>3, <2>5, <2>7 DEF ReturnLine, ReaderTypeOK
  <2>9. BufferBounded'
      BY <2>2, <2>5 DEF BufferBounded, ReaderTypeOK
  <2> QED BY <2>4, <2>8, <2>9
<1>3. CASE \E n \in 1..ChunkSize : Read(n)
  <2>1. PICK n \in 1..ChunkSize : Read(n)
      BY <1>3
  <2>2. n \in Nat /\ got' = got + n /\ got' \in Nat /\ got' <= Len(sent) /\ got <= got'
      BY <2>1 DEF Read, ReaderTypeOK
  <2>3. buf' = SubSeq(sent, taken + 1, got')
      BY <2>1, <2>2, PiecesJoin, SMTT(20) DEF Read, ReaderTypeOK, BufferIsUnread
  <2>4. BufferIsUnread'
      BY <2>1, <2>2, <2>3, SMTT(20) DEF Read, ReaderTypeOK, BufferIsUnread
  <2>5. Len(buf) = got - taken /\ Len(buf') = got' - taken /\ buf' \in Seq(Byte)
      BY <2>2, <2>3, PieceLength DEF ReaderTypeOK, BufferIsUnread
  <2>6. ReaderTypeOK'
      BY <2>1, <2>2, <2>5 DEF Read, ReaderTypeOK
  <2>7. BufferBounded'
      BY <2>1, <2>2, <2>5 DEF Read, TooLong, BufferBounded, ReaderTypeOK
  <2> QED BY <2>4, <2>6, <2>7
<1>4. CASE PoolCloses \/ Call \/ Refuse \/ EndOfStream \/ ReadFails
    BY <1>4 DEF PoolCloses, Call, Refuse, EndOfStream, ReadFails,
        ReaderTypeOK, BufferIsUnread, BufferBounded
<1>5. CASE TimesOut
    BY <1>5 DEF TimesOut, Partial, ReaderTypeOK, BufferIsUnread, BufferBounded
<1>6. CASE UNCHANGED readerVars
    BY <1>6 DEF readerVars, ReaderTypeOK, BufferIsUnread, BufferBounded
<1> QED
    BY <1>1, <1>2, <1>3, <1>4, <1>5, <1>6 DEF ReaderNext

\* next_line keeps what it read before a timeout: in every state the buffer is
\* the stream from the end of the last line returned to the last byte read.
THEOREM ReaderLosesNothing == ReaderSpec => []BufferIsUnread
<1>1. Inductive => BufferIsUnread
    BY DEF Inductive
<1> QED
    BY <1>1, InductiveInit, InductiveNext, PTL DEF ReaderSpec

\* A pool that never sends a newline cannot grow the buffer of next_line beyond
\* MAX_LINE_BYTES and one read.
THEOREM ReaderIsBounded == ReaderSpec => []BufferBounded
<1>1. Inductive => BufferBounded
    BY DEF Inductive
<1> QED
    BY <1>1, InductiveInit, InductiveNext, PTL DEF ReaderSpec


-----------------------------------------------------------------------------
(***************************************************************************)
(* The lines.  What was taken ends at a newline, and as many newlines lie  *)
(* before it as lines were returned.                                       *)
(***************************************************************************)
TakenAreLines ==
    /\ taken \in Newlines \cup {0} /\ Upto(taken) = Len(lines)
    /\ pc = "ended" => closed
    /\ LinesArrive

LEMMA NewlinesAreFinite ==
    ASSUME ReaderTypeOK
    PROVE  /\ Newlines \subseteq 1 .. Len(sent) /\ Newlines \subseteq Nat /\ Len(sent) \in Nat
           /\ IsFiniteSet(Newlines)
           /\ \A i : IsFiniteSet({j \in Newlines : j <= i}) /\ Upto(i) \in Nat
<1>1. Newlines \subseteq 1 .. Len(sent) /\ Len(sent) \in Nat
  BY DEF ReaderTypeOK, Newlines
<1>2. IsFiniteSet(1 .. Len(sent))
  BY <1>1, FS_Interval
<1>3. IsFiniteSet(Newlines)
  BY <1>1, <1>2, FS_Subset
<1>4. ASSUME NEW i PROVE IsFiniteSet({j \in Newlines : j <= i}) /\ Upto(i) \in Nat
  <2> DEFINE N == {j \in Newlines : j <= i}
  <2>1. N \subseteq Newlines
    OBVIOUS
  <2> HIDE DEF N
  <2>2. IsFiniteSet(N)
    BY <1>3, <2>1, FS_Subset
  <2>3. Cardinality(N) \in Nat
    BY <2>2, FS_CardinalityType
  <2> QED
    BY <2>2, <2>3 DEF N, Upto
<1> QED
  BY <1>1, <1>3, <1>4

\* More bytes do not change the lines before them.
LEMMA LinesStay ==
    ASSUME NEW b \in Byte, Inductive, TakenAreLines, PoolWrites(b)
    PROVE  TakenAreLines'
<1>1. /\ sent' = Append(sent, b) /\ sent \in Seq(Byte) /\ ~closed
      /\ UNCHANGED <<closed, got, pc, buf, lines, taken>>
  BY DEF PoolWrites, Inductive, ReaderTypeOK
<1>2. Newlines \subseteq 1 .. Len(sent) /\ Len(sent) \in Nat
  BY NewlinesAreFinite DEF Inductive
<1>3. /\ \A i \in 1 .. Len(sent) : i \in DOMAIN sent /\ sent'[i] = sent[i]
      /\ DOMAIN sent = 1 .. Len(sent) /\ DOMAIN sent' = 1 .. Len(sent) + 1
  BY <1>1
<1>4. Newlines' \subseteq Newlines \cup {Len(sent) + 1} /\ Newlines \subseteq Newlines'
  BY <1>2, <1>3 DEF Newlines
<1>5. ASSUME NEW i \in Newlines \cup {0} PROVE Upto(i)' = Upto(i)
  <2>1. i \in Nat /\ i <= Len(sent)
    BY <1>2
  <2>2. {j \in Newlines' : j <= i} = {j \in Newlines : j <= i}
    <3>1. ~(Len(sent) + 1 <= i)
      BY <1>2, <2>1
    <3> QED
      BY <1>4, <3>1, Zenon
  <2> QED
    BY <2>2 DEF Upto
<1>6. ASSUME NEW a \in Newlines \cup {0}, NEW e \in Newlines \cup {0}, e > a
      PROVE  SubSeq(sent', a + 1, e - 1) = SubSeq(sent, a + 1, e - 1)
  <2>1. a \in Nat /\ e \in Nat /\ e - 1 \in Nat /\ a <= e - 1 /\ e - 1 <= Len(sent)
    BY <1>2, <1>6
  <2> QED
    BY <1>1, <2>1, PieceStays
<1>7. ASSUME NEW a \in Newlines \cup {0}, NEW e \in Newlines \cup {0}, Upto(a) + 1 = Upto(e) PROVE e > a
  <2>1. a \in Nat /\ e \in Nat
    BY <1>2
  <2> SUFFICES ASSUME e <= a PROVE FALSE
    BY <2>1
  <2>2. {j \in Newlines : j <= e} \subseteq {j \in Newlines : j <= a}
    <3>1. \A j \in Newlines : j <= e => j <= a
      BY <1>2, <2>1
    <3> QED
      BY <3>1, Zenon
  <2>3. IsFiniteSet({j \in Newlines : j <= a}) /\ Upto(a) \in Nat /\ Upto(e) \in Nat
    BY NewlinesAreFinite DEF Inductive
  <2>4. Upto(e) <= Upto(a)
    BY <2>2, <2>3, FS_Subset DEF Upto
  <2> QED
    BY <1>7, <2>3, <2>4
<1>8. ASSUME NEW k \in DOMAIN lines PROVE IsLine(k, lines[k])'
  <2>1. PICK a, e \in Newlines \cup {0} :
            Upto(a) + 1 = k /\ Upto(e) = k /\ lines[k] = Text(SubSeq(sent, a + 1, e - 1))
    BY DEF TakenAreLines, LinesArrive, IsLine
  <2>2. SubSeq(sent', a + 1, e - 1) = SubSeq(sent, a + 1, e - 1)
    BY <1>6, <1>7, <2>1
  <2>3. a \in Newlines' \cup {0} /\ e \in Newlines' \cup {0} /\ Upto(a)' = Upto(a) /\ Upto(e)' = Upto(e)
    BY <1>4, <1>5
  <2>4. Upto(a)' + 1 = k /\ Upto(e)' = k /\ lines'[k] = Text(SubSeq(sent', a + 1, e - 1))
    BY <1>1, <2>1, <2>2, <2>3
  <2> QED
    BY <2>3, <2>4 DEF IsLine
<1>9. LinesArrive'
  BY <1>1, <1>8 DEF LinesArrive, TakenAreLines
<1>10. taken' \in Newlines' \cup {0} /\ Upto(taken)' = Len(lines')
  <2>1. taken \in Newlines \cup {0} /\ Upto(taken) = Len(lines)
    BY DEF TakenAreLines
  <2>2. Upto(taken)' = Upto(taken)
    <3>1. PICK i \in Newlines \cup {0} : i = taken
      BY <2>1
    <3>2. Upto(i)' = Upto(i)
      BY <1>5
    <3> QED
      BY <1>1, <3>1, <3>2 DEF Upto
  <2> QED
    BY <1>1, <1>4, <2>1, <2>2
<1> QED
  BY <1>1, <1>9, <1>10 DEF TakenAreLines


\* The line that is returned is the next one.
LEMMA LineIsNext ==
    ASSUME NEW pos \in 1 .. Len(buf), Inductive, TakenAreLines, ReturnLine(pos)
    PROVE  TakenAreLines'
<1> DEFINE n == taken + pos
           before == {j \in Newlines : j <= taken}
<1>1. /\ buf = SubSeq(sent, taken + 1, got) /\ taken \in Nat /\ got \in Nat /\ taken <= got /\ got <= Len(sent)
      /\ sent \in Seq(Byte) /\ Len(sent) \in Nat /\ lines \in Seq(Seq(Byte))
      /\ Len(buf) = got - taken /\ buf \in Seq(Byte)
  <2>1. /\ buf = SubSeq(sent, taken + 1, got) /\ taken \in Nat /\ got \in Nat /\ taken <= got /\ got <= Len(sent)
        /\ sent \in Seq(Byte) /\ lines \in Seq(Seq(Byte)) /\ buf \in Seq(Byte)
    BY DEF Inductive, ReaderTypeOK, BufferIsUnread
  <2> QED
    BY <2>1, PieceLength
<1>2. /\ pos \in Nat /\ pos >= 1 /\ taken + pos <= got
      /\ \A i \in 1 .. got - taken : buf[i] = sent[taken + i]
  BY <1>1
<1>3. /\ buf[pos] = "nl" /\ \A i \in 1 .. (pos - 1) : buf[i] # "nl"
      /\ lines' = Append(lines, Text(LineAt(pos))) /\ taken' = n /\ pc' = "session"
      /\ UNCHANGED <<sent, closed, got>>
  BY DEF ReturnLine, FirstNewline
<1>4. n \in Newlines /\ n \in Nat /\ n > taken /\ n \in 1 .. Len(sent)
  BY <1>1, <1>2, <1>3 DEF Newlines
<1>5. ASSUME NEW j \in Newlines, j <= n, ~(j <= taken) PROVE j = n
  <2>1. j \in Nat /\ j \in 1 .. Len(sent) /\ sent[j] = "nl"
    BY <1>1 DEF Newlines
  <2>2. j - taken \in 1 .. got - taken /\ taken + (j - taken) = j
    BY <1>1, <1>2, <1>5, <2>1
  <2>3. buf[j - taken] = "nl"
    BY <1>2, <2>1, <2>2
  <2>4. ~(j - taken \in 1 .. (pos - 1))
    BY <1>3, <2>3
  <2> QED
    BY <1>1, <1>2, <1>5, <2>1, <2>2, <2>4
<1>6. {j \in Newlines : j <= n} = before \cup {n} /\ n \notin before
  <2>1. \A j \in Newlines : j <= taken => j <= n
    BY <1>1, <1>2, <1>4 DEF Newlines
  <2>2. n <= n /\ ~(n <= taken)
    BY <1>1, <1>4
  <2> HIDE DEF n
  <2> QED
    BY <1>4, <1>5, <2>1, <2>2, Zenon
<1>7. Upto(n) = Upto(taken) + 1
  <2>1. IsFiniteSet(before)
    BY NewlinesAreFinite DEF Inductive
  <2> HIDE DEF n, before
  <2>2. Cardinality(before \cup {n}) = Cardinality(before) + 1
    BY <1>6, <2>1, FS_AddElement
  <2> QED
    BY <1>6, <2>2 DEF Upto, before
<1>8. LineAt(pos) = SubSeq(sent, taken + 1, n - 1) /\ Text(LineAt(pos)) \in Seq(Byte)
  <2>1. pos - 1 \in Nat /\ pos - 1 <= got - taken /\ taken + (pos - 1) = n - 1
    BY <1>1, <1>2
  <2>2. SubSeq(SubSeq(sent, taken + 1, got), 1, pos - 1) = SubSeq(sent, taken + 1, taken + (pos - 1))
    BY <1>1, <2>1, PieceUpTo
  <2>3. LineAt(pos) \in Seq(Byte)
    BY <1>1, <1>2 DEF LineAt
  <2>4. Text(LineAt(pos)) \in Seq(Byte)
    BY <2>3 DEF Text
  <2> QED
    BY <1>1, <2>1, <2>2, <2>4 DEF LineAt
<1>9. taken \in Newlines \cup {0} /\ Upto(taken) = Len(lines) /\ Len(lines) \in Nat
  BY <1>1 DEF TakenAreLines
<1>10. IsLine(Len(lines) + 1, Text(LineAt(pos)))
  <2>1. n \in Newlines \cup {0} /\ Upto(taken) + 1 = Len(lines) + 1 /\ Upto(n) = Len(lines) + 1
    BY <1>4, <1>7, <1>9
  <2> HIDE DEF n
  <2> QED
    BY <1>8, <1>9, <2>1 DEF IsLine
<1> HIDE DEF n
<1>11. /\ Newlines' = Newlines /\ \A i : {j \in Newlines' : j <= i} = {j \in Newlines : j <= i}
  BY <1>3 DEF Newlines
<1> DEFINE line == Text(LineAt(pos))
<1>12. /\ DOMAIN lines' = 1 .. Len(lines) + 1 /\ lines'[Len(lines) + 1] = line
       /\ \A i \in 1 .. Len(lines) : i \in DOMAIN lines /\ lines'[i] = lines[i]
  <2>1. line \in Seq(Byte) /\ lines' = Append(lines, line)
    BY <1>3, <1>8
  <2> HIDE DEF line
  <2> QED
    BY <1>1, <2>1
<1>13. ASSUME NEW k \in DOMAIN lines' PROVE IsLine(k, lines'[k])
  <2>1. CASE k = Len(lines) + 1
    <3>1. lines'[k] = Text(LineAt(pos))
      BY <1>12, <2>1
    <3> QED
      BY <1>10, <2>1, <3>1
  <2>2. CASE k # Len(lines) + 1
    <3>1. k \in DOMAIN lines /\ lines'[k] = lines[k]
      <4>1. k \in 1 .. Len(lines)
        BY <1>9, <1>12, <2>2
      <4> QED
        BY <1>12, <4>1
    <3> QED
      BY <3>1 DEF TakenAreLines, LinesArrive
  <2> QED
    BY <2>1, <2>2
<1>14. ASSUME NEW k, NEW l, IsLine(k, l) PROVE IsLine(k, l)'
  BY <1>3, <1>14 DEF IsLine, Upto, Newlines
<1>15. LinesArrive'
  <2>1. \A k \in DOMAIN lines' : IsLine(k, lines[k])'
    <3> SUFFICES ASSUME NEW k \in DOMAIN lines' PROVE IsLine(k, lines[k])'
      OBVIOUS
    <3>1. PICK l : l = lines'[k]
      OBVIOUS
    <3>2. IsLine(k, l)'
      BY <1>13, <1>14, <3>1
    <3> QED
      BY <3>1, <3>2 DEF IsLine
  <2> QED
    BY <1>3, <2>1 DEF LinesArrive
<1>16. Len(lines') = Len(lines) + 1
  BY <1>1, <1>3
<1>17. taken' \in Newlines' \cup {0} /\ Upto(taken)' = Len(lines')
  <2>1. Upto(taken)' = Upto(n)
    BY <1>3, <1>11 DEF Upto
  <2> QED
    BY <1>3, <1>4, <1>7, <1>9, <1>11, <1>16, <2>1
<1> QED
  BY <1>3, <1>15, <1>17 DEF TakenAreLines

\* At the end of the stream nothing is left.
LEMMA AllAreReturned ==
    ASSUME Inductive, TakenAreLines, EndOfStream
    PROVE  Len(lines) = Cardinality(Newlines)
<1>1. /\ buf = SubSeq(sent, taken + 1, got) /\ taken \in Nat /\ got = Len(sent) /\ taken <= got
      /\ sent \in Seq(Byte) /\ Len(sent) \in Nat /\ \A i \in DOMAIN buf : buf[i] # "nl"
  BY DEF Inductive, ReaderTypeOK, BufferIsUnread, EndOfStream, NoNewline
<1>2. ASSUME NEW j \in Newlines PROVE j <= taken
  <2>1. j \in 1 .. Len(sent) /\ sent[j] = "nl"
    BY <1>1 DEF Newlines
  <2> SUFFICES ASSUME j > taken PROVE FALSE
    BY <1>1, <2>1
  <2>2. j - taken \in DOMAIN buf /\ buf[j - taken] = sent[j]
    BY <1>1, <2>1
  <2> QED
    BY <1>1, <2>1, <2>2
<1>3. {j \in Newlines : j <= taken} = Newlines
  BY <1>2, Zenon
<1> QED
  BY <1>3 DEF TakenAreLines, Upto

LEMMA LinesKeep ==
    ASSUME Inductive, TakenAreLines, [ReaderNext]_readerVars
    PROVE  TakenAreLines'
<1>1. CASE \E b \in Byte : PoolWrites(b)
  BY <1>1, LinesStay
<1>2. CASE \E pos \in 1 .. Len(buf) : ReturnLine(pos)
  BY <1>2, LineIsNext
<1>3. ASSUME sent' = sent, lines' = lines, taken' = taken
      PROVE  /\ Newlines' = Newlines /\ Upto(taken)' = Upto(taken)
             /\ \A k \in DOMAIN lines : IsLine(k, lines[k]) => IsLine(k, lines[k])'
  <2>1. Newlines' = Newlines
    BY <1>3 DEF Newlines
  <2>2. Upto(taken)' = Upto(taken) /\ \A i : Upto(i)' = Upto(i)
    BY <1>3, <2>1 DEF Upto
  <2>3. ASSUME NEW k \in DOMAIN lines, IsLine(k, lines[k]) PROVE IsLine(k, lines[k])'
    <3>1. PICK a, b \in Newlines \cup {0} :
              Upto(a) + 1 = k /\ Upto(b) = k /\ lines[k] = Text(SubSeq(sent, a + 1, b - 1))
      BY <2>3 DEF IsLine
    <3> QED
      BY <1>3, <2>1, <2>2, <3>1 DEF IsLine
  <2> QED
    BY <2>1, <2>2, <2>3
<1>4. CASE EndOfStream
  <2>1. sent' = sent /\ lines' = lines /\ taken' = taken /\ closed' /\ closed
    BY <1>4 DEF EndOfStream
  <2>2. Len(lines) = Cardinality(Newlines)
    BY <1>4, AllAreReturned
  <2> QED
    BY <1>3, <2>1, <2>2 DEF TakenAreLines, LinesArrive
<1>5. CASE PoolCloses \/ Call \/ Refuse \/ ReadFails \/ TimesOut \/ (\E n \in 1 .. ChunkSize : Read(n)) \/ UNCHANGED readerVars
  <2>1. sent' = sent /\ lines' = lines /\ taken' = taken /\ (closed => closed') /\ (pc' = "ended" => pc = "ended")
    BY <1>5 DEF PoolCloses, Call, Refuse, ReadFails, TimesOut, Read, readerVars
  <2> QED
    BY <1>3, <2>1 DEF TakenAreLines, LinesArrive
<1> QED
  BY <1>1, <1>2, <1>4, <1>5 DEF ReaderNext

LEMMA LinesStart == ReaderInit => TakenAreLines
<1> SUFFICES ASSUME ReaderInit PROVE TakenAreLines
  OBVIOUS
<1>1. Len(lines) = 0 /\ DOMAIN lines = {} /\ taken = 0 /\ pc # "ended"
  BY EmptySeq DEF ReaderInit
<1>2. DOMAIN sent = {}
  BY EmptySeq DEF ReaderInit
<1>3. {j \in Newlines : j <= taken} = {}
  BY <1>2 DEF Newlines
<1>4. Upto(taken) = 0
  BY <1>3, FS_EmptySet DEF Upto
<1> QED
  BY <1>1, <1>4 DEF TakenAreLines, LinesArrive

\* next_line returns the pool's lines in order, each once and whole, and all of
\* them before it says that the pool closed, however reads and timeouts cut them.
THEOREM ReaderReturnsLines == ReaderSpec => []LinesArrive
<1>1. ReaderInit => Inductive /\ TakenAreLines
    BY InductiveInit, LinesStart
<1>2. (Inductive /\ TakenAreLines) /\ [ReaderNext]_readerVars => (Inductive /\ TakenAreLines)'
    BY InductiveNext, LinesKeep
<1>3. TakenAreLines => LinesArrive
    BY DEF TakenAreLines
<1> QED
    BY <1>1, <1>2, <1>3, PTL DEF ReaderSpec
=============================================================================
