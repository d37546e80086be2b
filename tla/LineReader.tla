----------------------------- MODULE LineReader -----------------------------
(***************************************************************************)
(* Reading the pool's lines off the socket (src/src/stratum.rs: next_line, *)
(* called by session with a buffer that lives as long as the connection).  *)
(* Bytes arrive in pieces of any length, the read timeout fires between    *)
(* any two of them, and a line may be longer than is accepted.  A byte is  *)
(* a newline, a carriage return or anything else.                          *)
(***************************************************************************)
EXTENDS Naturals, Sequences, FiniteSets

CONSTANTS
    MaxLine,        \* MAX_LINE_BYTES
    ChunkSize,      \* the most bytes one read returns
    MaxSent         \* bound: bytes the pool sends

ASSUME ReaderAssumption == MaxLine \in Nat /\ ChunkSize \in Nat \ {0} /\ MaxSent \in Nat

Byte == {"nl", "cr", "x"}

VARIABLES
    sent, closed,   \* the pool's bytes, and whether it closed (external)
    got,            \* how many of them the socket has handed over
    pc,             \* "session", "next_line" or, an error, "refused", "ended" or "failed"
    buf,            \* rx_buf
    lines,          \* history: the lines returned
    taken           \* history: the bytes they were made of

readerVars == <<sent, closed, got, pc, buf, lines, taken>>

ReaderInit ==
    /\ sent = <<>> /\ closed = FALSE
    /\ got = 0
    /\ pc = "session" /\ buf = <<>>
    /\ lines = <<>> /\ taken = 0

-----------------------------------------------------------------------------
PoolWrites(b) ==
    /\ ~closed /\ Len(sent) < MaxSent
    /\ sent' = Append(sent, b)
    /\ UNCHANGED <<closed, got, pc, buf, lines, taken>>

PoolCloses ==
    /\ ~closed
    /\ closed' = TRUE
    /\ UNCHANGED <<sent, got, pc, buf, lines, taken>>

\* The session's next call.
Call ==
    /\ pc = "session"
    /\ pc' = "next_line"
    /\ UNCHANGED <<sent, closed, got, buf, lines, taken>>

FirstNewline(pos) == pos \in DOMAIN buf /\ buf[pos] = "nl" /\ \A i \in 1..(pos - 1) : buf[i] # "nl"
NoNewline == \A i \in DOMAIN buf : buf[i] # "nl"

\* The newline goes, and a carriage return before it.
Text(line) ==
    IF line # <<>> /\ line[Len(line)] = "cr" THEN SubSeq(line, 1, Len(line) - 1) ELSE line

Rest(pos) == SubSeq(buf, pos + 1, Len(buf))

\* Mutant: the newline stays on the line.
KeepsNewline(pos) == SubSeq(buf, 1, pos)

LineAt(pos) == SubSeq(buf, 1, pos - 1)

ReturnLine(pos) ==
    /\ pc = "next_line" /\ FirstNewline(pos)
    /\ lines' = Append(lines, Text(LineAt(pos)))
    /\ buf' = Rest(pos)
    /\ taken' = taken + pos
    /\ pc' = "session"
    /\ UNCHANGED <<sent, closed, got>>

\* Mutant: there is no limit.
NeverTooLong == FALSE

TooLong == Len(buf) > MaxLine

Refuse ==
    /\ pc = "next_line" /\ NoNewline /\ TooLong
    /\ pc' = "refused"
    /\ UNCHANGED <<sent, closed, got, buf, lines, taken>>

\* Mutant: a read that timed out forgets what came before it.
Forget == <<>>

Partial == buf

\* One read: some bytes, none in time, or the end of the connection.
Read(n) ==
    /\ pc = "next_line" /\ NoNewline /\ ~TooLong
    /\ n \in 1..ChunkSize /\ got + n <= Len(sent)
    /\ buf' = buf \o SubSeq(sent, got + 1, got + n)
    /\ got' = got + n
    /\ UNCHANGED <<sent, closed, pc, lines, taken>>

TimesOut ==
    /\ pc = "next_line" /\ NoNewline /\ ~TooLong
    /\ buf' = Partial
    /\ pc' = "session"
    /\ UNCHANGED <<sent, closed, got, lines, taken>>

EndOfStream ==
    /\ pc = "next_line" /\ NoNewline /\ ~TooLong
    /\ closed /\ got = Len(sent)
    /\ pc' = "ended"
    /\ UNCHANGED <<sent, closed, got, buf, lines, taken>>

\* Any other error of the socket.
ReadFails ==
    /\ pc = "next_line" /\ NoNewline /\ ~TooLong
    /\ pc' = "failed"
    /\ UNCHANGED <<sent, closed, got, buf, lines, taken>>

ReaderNext ==
    \/ \E b \in Byte : PoolWrites(b)
    \/ PoolCloses \/ Call \/ Refuse \/ TimesOut \/ EndOfStream \/ ReadFails
    \/ \E pos \in 1..Len(buf) : ReturnLine(pos)
    \/ \E n \in 1..ChunkSize : Read(n)

ReaderSpec == ReaderInit /\ [][ReaderNext]_readerVars

-----------------------------------------------------------------------------
ReaderTypeOK ==
    /\ sent \in Seq(Byte) /\ closed \in BOOLEAN
    /\ got \in Nat /\ got <= Len(sent)
    /\ pc \in {"session", "next_line", "refused", "ended", "failed"}
    /\ buf \in Seq(Byte)
    /\ lines \in Seq(Seq(Byte)) /\ taken \in Nat

\* The buffer holds what was read and not yet returned, no more and no less: a
\* timeout in the middle of a line loses nothing.
BufferIsUnread == taken <= got /\ buf = SubSeq(sent, taken + 1, got)

\* However long the pool's line, the buffer does not grow beyond the limit by
\* more than one read.
BufferBounded == Len(buf) <= MaxLine + ChunkSize

\* The pool's newlines, by their places in the whole stream; how many there are
\* up to a place.
Newlines == {i \in DOMAIN sent : sent[i] = "nl"}
Upto(i) == Cardinality({j \in Newlines : j <= i})

\* The k-th line: what lies between one newline, or the start, and the next.
IsLine(k, line) ==
    \E a, b \in Newlines \cup {0} :
        Upto(a) + 1 = k /\ Upto(b) = k /\ line = Text(SubSeq(sent, a + 1, b - 1))

\* next_line returns the pool's lines, in order, each once and whole, however
\* the bytes were cut; and all of them by the time it reports that the pool closed.
LinesArrive ==
    /\ \A k \in DOMAIN lines : IsLine(k, lines[k])
    /\ pc = "ended" => Len(lines) = Cardinality(Newlines)

=============================================================================
