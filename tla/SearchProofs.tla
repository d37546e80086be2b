---------------------------- MODULE SearchProofs ----------------------------
(***************************************************************************)
(* Proofs that the workers hash every header of a job once and skip none,  *)
(* for any number of CPU threads and cards, any size of the nonce and of   *)
(* the extranonce2 space, any launch sizes and any depth of the queue.     *)
(*                                                                         *)
(* One worker's progress is a cursor, what it has searched or lost, the    *)
(* launches in flight and the one in hand.  The invariant is stated of     *)
(* those values (InOrder), so that each way to move is one lemma about it: *)
(* a launch is queued, collected, finished, given up.                      *)
(***************************************************************************)
EXTENDS Search, FiniteSetTheorems, SequenceTheorems, TLAPS

USE DEF Workers

-----------------------------------------------------------------------------
(***************************************************************************)
(* Remainders: a worker's extranonce2 counters are Stride apart.           *)
(***************************************************************************)
LEMMA StrideIsPositive == Stride \in Nat \ {0}
<1>1. PICK w \in Workers : TRUE
  BY SearchAssumption
<1>2. Stride \in Nat
  BY SearchAssumption, FS_CardinalityType, FS_Union
<1>3. Index[w] \in 0 .. Stride - 1
  BY <1>1, SearchAssumption
<1> QED
  BY <1>2, <1>3

LEMMA Division ==
    ASSUME NEW a \in Int, NEW s \in Int, s > 0
    PROVE  a % s \in 0 .. s - 1 /\ \E q \in Int : a = q * s + (a % s)
<1>1. a \div s \in Int /\ a % s \in 0 .. s - 1
  OBVIOUS
<1>2. a = (a \div s) * s + (a % s)
  BY SMTT(30)
<1> QED
  BY <1>1, <1>2

\* Multiples of s are s apart.
LEMMA Multiples ==
    ASSUME NEW p \in Int, NEW q \in Int, NEW s \in Nat \ {0}, p < q
    PROVE  p * s + s <= q * s
<1>1. (p + 1) * s = p * s + s
  OBVIOUS
<1>2. p + 1 \in Int /\ q - (p + 1) \in Nat
  OBVIOUS
<1>3. (q - (p + 1)) * s >= 0
  BY <1>2
<1>4. (q - (p + 1)) * s = q * s - (p + 1) * s
  BY <1>2
<1> QED
  BY <1>1, <1>2, <1>3, <1>4

LEMMA RemainderOfSum ==
    ASSUME NEW a \in Nat, NEW s \in Nat \ {0}
    PROVE  (a + s) % s = a % s
<1>1. a \in Int /\ a + s \in Int /\ s \in Int /\ s > 0
  OBVIOUS
<1>2. a % s \in 0 .. s - 1 /\ (a + s) % s \in 0 .. s - 1
  BY <1>1, Division
<1>3. PICK p \in Int : a = p * s + (a % s)
  BY <1>1, Division
<1>4. PICK q \in Int : a + s = q * s + ((a + s) % s)
  BY <1>1, Division
<1>5. (p + 1) * s = p * s + s /\ p * s \in Int /\ q * s \in Int /\ (p + 1) * s \in Int
  BY <1>2, <1>3, <1>4
<1>6. CASE q < p + 1
  BY <1>2, <1>3, <1>4, <1>5, <1>6, Multiples
<1>7. CASE q > p + 1
  BY <1>2, <1>3, <1>4, <1>5, <1>7, Multiples
<1>8. CASE q = p + 1
  BY <1>2, <1>3, <1>4, <1>5, <1>8
<1> QED
  BY <1>2, <1>3, <1>4, <1>6, <1>7, <1>8

LEMMA RemainderOfSmall ==
    ASSUME NEW a \in Nat, NEW s \in Nat \ {0}, a < s
    PROVE  a % s = a
  OBVIOUS

LEMMA RemainderOfItself ==
    ASSUME NEW s \in Nat \ {0}
    PROVE  s % s = 0
  OBVIOUS

\* Two counters of one worker are equal or at least Stride apart.
LEMMA Gap ==
    ASSUME NEW a \in Nat, NEW b \in Nat, NEW s \in Nat \ {0}, a % s = b % s, a < b
    PROVE  a + s <= b
<1>1. a \in Int /\ b \in Int /\ s \in Int /\ s > 0
  OBVIOUS
<1>2. a % s \in 0 .. s - 1 /\ b % s \in 0 .. s - 1
  BY <1>1, Division
<1>3. PICK p \in Int : a = p * s + (a % s)
  BY <1>1, Division
<1>4. PICK q \in Int : b = q * s + (b % s)
  BY <1>1, Division
<1>5. p * s \in Int /\ q * s \in Int
  BY <1>2, <1>3, <1>4
<1>6. CASE p = q
  BY <1>2, <1>3, <1>4, <1>6
<1>7. CASE q < p
  BY <1>2, <1>3, <1>4, <1>5, <1>7, Multiples
<1>8. CASE p < q
  BY <1>2, <1>3, <1>4, <1>5, <1>8, Multiples
<1> QED
  BY <1>2, <1>3, <1>4, <1>6, <1>7, <1>8
-----------------------------------------------------------------------------
(***************************************************************************)
(* One worker's progress.                                                  *)
(***************************************************************************)

\* The header is behind the position <<e, n>>; and all of a launch is.
Behind(h, e, n) == h[1] < e \/ (h[1] = e /\ h[2] < n)
Passed(l, e, n) == l[1] < e \/ (l[1] = e /\ l[2] + l[3] <= n)

AheadOf(w, e, n) == {h \in Part(w) : h[1] > e \/ (h[1] = e /\ h[2] >= n)}
CoveredBy(q) == UNION {Covers(q[i]) : i \in 1 .. Len(q)}

\* A launch of worker w, inside the nonce space.
OwnLaunch(w, l) == l \in Launches /\ l[1] % Stride = Index[w] /\ l[2] + l[3] <= Nonces

\* Worker w stands at <<e, n>>, has searched s and lost x; the launches q are
\* in flight, and that of the sequence k, if any, is in hand.
ProgressTypes(w, e, n, s, x, q, k) ==
    /\ e \in Nat /\ n \in 0 .. Nonces - 1 /\ e % Stride = Index[w]
    /\ s \subseteq Part(w) /\ x \subseteq Header
    /\ q \in Seq(Launches) /\ \A i \in 1 .. Len(q) : OwnLaunch(w, q[i])
    /\ k \in Seq(Launches) /\ Len(k) <= 1 /\ \A i \in 1 .. Len(k) : OwnLaunch(w, k[i])

\* What is searched is behind everything that is still to do, the launch in
\* hand behind those in flight, those in order, and all behind the cursor.
InOrder(w, e, n, s, x, q, k) ==
    /\ ProgressTypes(w, e, n, s, x, q, k)
    /\ \A h \in s : /\ Behind(h, e, n)
                    /\ \A i \in 1 .. Len(q) : Behind(h, q[i][1], q[i][2])
                    /\ \A i \in 1 .. Len(k) : Behind(h, k[i][1], k[i][2])
    /\ \A i \in 1 .. Len(k) : /\ Passed(k[i], e, n)
                             /\ \A j \in 1 .. Len(q) : Passed(k[i], q[j][1], q[j][2])
    /\ \A i \in 1 .. Len(q) : /\ Passed(q[i], e, n)
                             /\ \A j \in i + 1 .. Len(q) : Passed(q[i], q[j][1], q[j][2])

\* All of the worker's part is done, lost, or still to do.
Complete(w, e, n, s, x, q, k) ==
    Part(w) \subseteq s \cup x \cup AheadOf(w, e, n) \cup CoveredBy(q) \cup CoveredBy(k)

Progress(w, e, n, s, x, q, k) == InOrder(w, e, n, s, x, q, k) /\ Complete(w, e, n, s, x, q, k)

\* Membership in the sets the properties are made of.
LEMMA InSpan ==
    ASSUME NEW l \in Launches, NEW h
    PROVE  h \in Covers(l) <=> \E m \in l[2] .. l[2] + l[3] - 1 : h = <<l[1], m>>
  BY DEF Covers, Span

LEMMA LaunchNumbers ==
    ASSUME NEW l \in Launches
    PROVE  l[1] \in Nat /\ l[2] \in Nat /\ l[2] \in 0 .. Nonces - 1 /\ l[3] \in Nat
  BY SearchAssumption DEF Launches

LEMMA HeaderNumbers ==
    ASSUME NEW w \in Workers, NEW h \in Part(w)
    PROVE  h[1] \in Nat /\ h[2] \in Nat /\ h[2] \in 0 .. Nonces - 1
  BY SearchAssumption DEF Part, Header

LEMMA OwnCovers ==
    ASSUME NEW w \in Workers, NEW l, OwnLaunch(w, l), NEW h
    PROVE  h \in Covers(l) <=> h \in Part(w) /\ h[1] = l[1] /\ h[2] >= l[2] /\ h[2] < l[2] + l[3]
<1>1. l \in Launches /\ l[1] \in 0 .. En2Limit - 1 /\ l[2] \in 0 .. Nonces - 1 /\ l[3] \in 1 .. Nonces
  BY DEF OwnLaunch, Launches
<1>2. ASSUME h \in Covers(l)
      PROVE  h \in Part(w) /\ h[1] = l[1] /\ h[2] >= l[2] /\ h[2] < l[2] + l[3]
  <2>1. PICK m \in l[2] .. l[2] + l[3] - 1 : h = <<l[1], m>>
    BY <1>1, <1>2, InSpan
  <2>2. m \in 0 .. Nonces - 1 /\ l[1] % Stride = Index[w]
    BY <1>1, SearchAssumption DEF OwnLaunch
  <2>3. h \in Header
    BY <1>1, <2>1, <2>2 DEF Header
  <2> QED
    BY <1>1, <2>1, <2>2, <2>3 DEF Part
<1>3. ASSUME h \in Part(w), h[1] = l[1], h[2] >= l[2], h[2] < l[2] + l[3]
      PROVE  h \in Covers(l)
  <2>1. h = <<h[1], h[2]>> /\ h[2] \in 0 .. Nonces - 1
    BY <1>3 DEF Part, Header
  <2>2. h[2] \in l[2] .. l[2] + l[3] - 1
    BY <1>1, <1>3, <2>1, SearchAssumption
  <2> QED
    BY <1>1, <1>3, <2>1, <2>2, InSpan
<1> QED
  BY <1>2, <1>3

LEMMA InCovered ==
    ASSUME NEW q, NEW h
    PROVE  h \in CoveredBy(q) <=> \E i \in 1 .. Len(q) : h \in Covers(q[i])
  BY DEF CoveredBy

LEMMA NothingCovered == CoveredBy(<<>>) = {} /\ <<>> \in Seq(Launches) /\ Len(<<>>) = 0
<1>1. <<>> \in Seq(Launches) /\ Len(<<>>) = 0
  BY EmptySeq
<1> QED
  BY <1>1, InCovered

\* The end of the nonce range ends a chunk (Cursor::take, resume_point): the
\* cursor moves on inside the range, or to the start of the next one.
LEMMA CursorMoves ==
    ASSUME NEW w \in Workers, NEW e \in Nat, NEW n \in 0 .. Nonces - 1, e % Stride = Index[w],
           NEW max \in Nat \ {0}, NEW c, c = Chunk(max, n)
    PROVE  /\ c \in 1 .. Nonces /\ n + c <= Nonces
           /\ NextEn2(e, n, c) \in Nat /\ NextNonce(n, c) \in 0 .. Nonces - 1
           /\ NextEn2(e, n, c) % Stride = Index[w]
           /\ \/ NextEn2(e, n, c) = e /\ NextNonce(n, c) = n + c
              \/ NextEn2(e, n, c) = e + Stride /\ NextNonce(n, c) = 0 /\ n + c = Nonces
<1>1. Nonces \in Nat \ {0} /\ Stride \in Nat \ {0}
  BY SearchAssumption, StrideIsPositive
<1>2. c \in 1 .. Nonces /\ n + c <= Nonces /\ n + c \in Nat
  BY <1>1 DEF Chunk
<1>3. CASE n + c < Nonces
  <2>1. NextNonce(n, c) = n + c
    BY <1>1, <1>2, <1>3, RemainderOfSmall DEF NextNonce
  <2>2. NextEn2(e, n, c) = e
    BY <1>1, <1>2, <1>3 DEF NextEn2
  <2> QED
    BY <1>1, <1>2, <1>3, <2>1, <2>2
<1>4. CASE n + c = Nonces
  <2>1. NextNonce(n, c) = 0
    BY <1>1, <1>2, <1>4, RemainderOfItself DEF NextNonce
  <2>2. NextEn2(e, n, c) = e + Stride
    BY <1>1, <1>2, <1>4 DEF NextEn2
  <2>3. (e + Stride) % Stride = Index[w]
    BY <1>1, RemainderOfSum
  <2> QED
    BY <1>1, <1>2, <1>4, <2>1, <2>2, <2>3
<1> QED
  BY <1>1, <1>2, <1>3, <1>4

\* A chunk of the worker's own range is a launch of its own, and what was ahead
\* of the cursor is in it or ahead of where the cursor moves to; nothing that
\* the cursor had passed comes back.
LEMMA ChunkMoves ==
    ASSUME NEW w \in Workers, NEW e \in Nat, NEW n \in 0 .. Nonces - 1, e % Stride = Index[w], En2Fits(e),
           NEW max \in Nat \ {0}, NEW c, c = Chunk(max, n), NEW f, f = NextEn2(e, n, c), NEW m, m = NextNonce(n, c)
    PROVE  /\ OwnLaunch(w, <<e, n, c>>) /\ Passed(<<e, n, c>>, f, m)
           /\ AheadOf(w, e, n) \subseteq Covers(<<e, n, c>>) \cup AheadOf(w, f, m)
           /\ \A h \in Part(w) : Behind(h, e, n) => Behind(h, f, m)
           /\ \A l \in Launches : Passed(l, e, n) => Passed(l, f, m)
<1>1. /\ c \in 1 .. Nonces /\ n + c <= Nonces /\ f \in Nat /\ m \in 0 .. Nonces - 1
      /\ (f = e /\ m = n + c) \/ (f = e + Stride /\ m = 0 /\ n + c = Nonces)
  <2>1. c \in 1 .. Nonces /\ n + c <= Nonces
    BY CursorMoves
  <2>2. NextEn2(e, n, c) \in Nat /\ NextNonce(n, c) \in 0 .. Nonces - 1
    BY CursorMoves
  <2>3. \/ NextEn2(e, n, c) = e /\ NextNonce(n, c) = n + c
        \/ NextEn2(e, n, c) = e + Stride /\ NextNonce(n, c) = 0 /\ n + c = Nonces
    BY CursorMoves
  <2> QED
    BY <2>1, <2>2, <2>3
<1>2. Stride \in Nat \ {0} /\ Nonces \in Nat \ {0} /\ En2Limit \in Nat
  BY SearchAssumption, StrideIsPositive
<1>3. OwnLaunch(w, <<e, n, c>>)
  BY <1>1, <1>2 DEF OwnLaunch, Launches, En2Fits
<1>4. Passed(<<e, n, c>>, f, m)
  BY <1>1, <1>2 DEF Passed
<1>5. ASSUME NEW h \in AheadOf(w, e, n), h \notin Covers(<<e, n, c>>)
      PROVE  h \in AheadOf(w, f, m)
  <2>1. h \in Part(w) /\ h[1] \in Nat /\ h[2] \in 0 .. Nonces - 1 /\ h[1] % Stride = Index[w]
    BY <1>2 DEF AheadOf, Part, Header
  <2>2. h[1] > e \/ (h[1] = e /\ h[2] >= n + c)
    BY <1>1, <1>3, <1>5, <2>1, OwnCovers DEF AheadOf
  <2>3. h[1] > e => h[1] >= e + Stride
    BY <1>2, <2>1, Gap
  <2>4. h[1] > f \/ (h[1] = f /\ h[2] >= m)
    BY <1>1, <1>2, <2>1, <2>2, <2>3
  <2> QED
    BY <2>1, <2>4 DEF AheadOf
<1>6. ASSUME NEW h \in Part(w), Behind(h, e, n)
      PROVE  Behind(h, f, m)
  <2>1. h[1] \in Nat /\ h[2] \in Nat
    BY <1>2 DEF Part, Header
  <2> QED
    BY <1>1, <1>2, <1>6, <2>1 DEF Behind
<1>7. ASSUME NEW l \in Launches, Passed(l, e, n)
      PROVE  Passed(l, f, m)
  <2>1. l[1] \in Nat /\ l[2] \in Nat /\ l[3] \in Nat
    BY <1>2 DEF Launches
  <2> QED
    BY <1>1, <1>2, <1>7, <2>1 DEF Passed
<1> QED
  BY <1>3, <1>4, <1>5, <1>6, <1>7

\* What a launch covers is behind whatever the launch is.
LEMMA CoversBehind ==
    ASSUME NEW w \in Workers, NEW l, OwnLaunch(w, l), NEW e \in Nat, NEW n \in Nat, Passed(l, e, n),
           NEW h \in Covers(l)
    PROVE  Behind(h, e, n)
<1>1. h \in Part(w) /\ h[1] = l[1] /\ h[2] >= l[2] /\ h[2] < l[2] + l[3]
  BY OwnCovers
<1>2. l[1] \in Nat /\ l[2] \in Nat /\ l[3] \in Nat /\ h[2] \in Nat
  BY <1>1, SearchAssumption DEF OwnLaunch, Launches, Part, Header
<1> QED
  BY <1>1, <1>2 DEF Behind, Passed

-----------------------------------------------------------------------------
(***************************************************************************)
(* The ways to move.                                                       *)
(***************************************************************************)

\* A new search space.
LEMMA StartsOver ==
    ASSUME NEW w \in Workers
    PROVE  Progress(w, Index[w], 0, {}, {}, <<>>, <<>>)
<1>1. Index[w] \in Nat /\ Index[w] % Stride = Index[w] /\ 0 \in 0 .. Nonces - 1
  <2>1. Index[w] \in 0 .. Stride - 1 /\ Nonces \in Nat \ {0}
    BY SearchAssumption
  <2> QED
    BY <2>1, StrideIsPositive, RemainderOfSmall
<1>2. ProgressTypes(w, Index[w], 0, {}, {}, <<>>, <<>>)
  BY <1>1, NothingCovered DEF ProgressTypes
<1>3. Part(w) \subseteq AheadOf(w, Index[w], 0)
  <2> SUFFICES ASSUME NEW h \in Part(w) PROVE h \in AheadOf(w, Index[w], 0)
    OBVIOUS
  <2>1. h[1] \in Nat /\ h[1] % Stride = Index[w] /\ h[2] \in Nat
    BY SearchAssumption DEF Part, Header
  <2>2. h[1] >= Index[w]
    <3>1. CASE h[1] < Stride
      BY <2>1, <3>1, StrideIsPositive, RemainderOfSmall
    <3>2. CASE h[1] >= Stride
      BY <2>1, <3>2, StrideIsPositive, SearchAssumption
    <3> QED
      BY <2>1, <3>1, <3>2, StrideIsPositive
  <2> QED
    BY <1>1, <2>1, <2>2 DEF AheadOf
<1> QED
  BY <1>2, <1>3, NothingCovered DEF Progress, InOrder, Complete

\* Worker::mine_job of a CPU thread hashes a batch.
LEMMA BatchMoves ==
    ASSUME NEW w \in Workers, NEW e, NEW n, NEW s, NEW x, Progress(w, e, n, s, x, <<>>, <<>>), En2Fits(e),
           NEW max \in Nat \ {0}, NEW c, c = Chunk(max, n)
    PROVE  Progress(w, NextEn2(e, n, c), NextNonce(n, c), s \cup Span(e, n, c), x, <<>>, <<>>)
<1> DEFINE f == NextEn2(e, n, c)
           m == NextNonce(n, c)
<1>1. e \in Nat /\ n \in 0 .. Nonces - 1 /\ e % Stride = Index[w] /\ s \subseteq Part(w) /\ x \subseteq Header
  BY DEF Progress, InOrder, ProgressTypes
<1>2. f \in Nat /\ m \in 0 .. Nonces - 1 /\ f % Stride = Index[w]
  BY <1>1, CursorMoves
<1>3. /\ OwnLaunch(w, <<e, n, c>>) /\ Passed(<<e, n, c>>, f, m)
      /\ AheadOf(w, e, n) \subseteq Covers(<<e, n, c>>) \cup AheadOf(w, f, m)
      /\ \A h \in Part(w) : Behind(h, e, n) => Behind(h, f, m)
  BY <1>1, ChunkMoves
<1>4. Covers(<<e, n, c>>) = Span(e, n, c)
  BY DEF Covers
<1> HIDE DEF f, m
<1>5. Span(e, n, c) \subseteq Part(w)
  BY <1>3, <1>4, OwnCovers
<1>6. ProgressTypes(w, f, m, s \cup Span(e, n, c), x, <<>>, <<>>)
  BY <1>1, <1>2, <1>5, NothingCovered DEF ProgressTypes
<1>7. \A h \in s \cup Span(e, n, c) : Behind(h, f, m)
  <2>1. \A h \in s : Behind(h, f, m)
    BY <1>1, <1>3 DEF Progress, InOrder
  <2>2. \A h \in Span(e, n, c) : Behind(h, f, m)
    BY <1>2, <1>3, <1>4, CoversBehind, SearchAssumption
  <2> QED
    BY <2>1, <2>2
<1>8. Complete(w, f, m, s \cup Span(e, n, c), x, <<>>, <<>>)
  BY <1>3, <1>4 DEF Progress, Complete
<1> QED
  BY <1>6, <1>7, <1>8, NothingCovered DEF Progress, InOrder, f, m

\* Cursor::take and top_up: a launch is queued, and the cursor moves past it.
LEMMA QueueMoves ==
    ASSUME NEW w \in Workers, NEW e, NEW n, NEW s, NEW x, NEW q, NEW k,
           Progress(w, e, n, s, x, q, k), En2Fits(e), NEW max \in Nat \ {0}, NEW c, c = Chunk(max, n)
    PROVE  Progress(w, NextEn2(e, n, c), NextNonce(n, c), s, x, Append(q, <<e, n, c>>), k)
<1> DEFINE f == NextEn2(e, n, c)
           m == NextNonce(n, c)
           l == <<e, n, c>>
           r == Append(q, l)
<1>1. /\ e \in Nat /\ n \in 0 .. Nonces - 1 /\ e % Stride = Index[w] /\ s \subseteq Part(w) /\ x \subseteq Header
      /\ q \in Seq(Launches) /\ k \in Seq(Launches) /\ Len(q) \in Nat /\ Len(k) \in Nat
  BY LenProperties DEF Progress, InOrder, ProgressTypes
<1>2. f \in Nat /\ m \in 0 .. Nonces - 1 /\ f % Stride = Index[w]
  BY <1>1, CursorMoves
<1>3. /\ OwnLaunch(w, l) /\ Passed(l, f, m)
      /\ AheadOf(w, e, n) \subseteq Covers(l) \cup AheadOf(w, f, m)
      /\ \A h \in Part(w) : Behind(h, e, n) => Behind(h, f, m)
      /\ \A o \in Launches : Passed(o, e, n) => Passed(o, f, m)
  BY <1>1, ChunkMoves
<1>4. l[1] = e /\ l[2] = n /\ l[3] = c /\ l \in Launches
  BY <1>3 DEF OwnLaunch
<1> HIDE DEF f, m, l
<1>5. /\ r \in Seq(Launches) /\ Len(r) = Len(q) + 1 /\ r[Len(q) + 1] = l
      /\ \A i \in 1 .. Len(q) : r[i] = q[i]
  BY <1>1, <1>4, AppendProperties
<1> HIDE DEF r
<1>6. \A i \in 1 .. Len(r) : (i \in 1 .. Len(q) /\ r[i] = q[i]) \/ (i = Len(q) + 1 /\ r[i] = l)
  BY <1>1, <1>5
<1>7. \A i \in 1 .. Len(q) : OwnLaunch(w, q[i]) /\ q[i] \in Launches
  BY <1>1 DEF Progress, InOrder, ProgressTypes, OwnLaunch
<1>8. \A i \in 1 .. Len(k) : OwnLaunch(w, k[i]) /\ k[i] \in Launches
  BY <1>1 DEF Progress, InOrder, ProgressTypes, OwnLaunch
<1>9. ProgressTypes(w, f, m, s, x, r, k)
  BY <1>1, <1>2, <1>3, <1>5, <1>6 DEF Progress, InOrder, ProgressTypes
<1>10. \A h \in s : /\ Behind(h, f, m)
                    /\ \A i \in 1 .. Len(r) : Behind(h, r[i][1], r[i][2])
                    /\ \A i \in 1 .. Len(k) : Behind(h, k[i][1], k[i][2])
  BY <1>1, <1>3, <1>4, <1>6 DEF Progress, InOrder
<1>11. \A i \in 1 .. Len(k) : /\ Passed(k[i], f, m)
                              /\ \A j \in 1 .. Len(r) : Passed(k[i], r[j][1], r[j][2])
  BY <1>3, <1>4, <1>6, <1>8 DEF Progress, InOrder
<1>12. ASSUME NEW i \in 1 .. Len(r)
       PROVE  /\ Passed(r[i], f, m)
              /\ \A j \in i + 1 .. Len(r) : Passed(r[i], r[j][1], r[j][2])
  <2>1. CASE i = Len(q) + 1
    BY <1>1, <1>3, <1>5, <2>1
  <2>2. CASE i \in 1 .. Len(q)
    <3>1. Passed(q[i], e, n) /\ \A j \in i + 1 .. Len(q) : Passed(q[i], q[j][1], q[j][2])
      BY <2>2 DEF Progress, InOrder
    <3>2. \A j \in i + 1 .. Len(r) : (j \in i + 1 .. Len(q) /\ r[j] = q[j]) \/ r[j] = l
      BY <1>1, <1>5, <1>6, <2>2
    <3> QED
      BY <1>3, <1>4, <1>5, <1>7, <2>2, <3>1, <3>2
  <2> QED
    BY <1>6, <2>1, <2>2
<1>13. Complete(w, f, m, s, x, r, k)
  <2>1. Covers(l) \subseteq CoveredBy(r)
    BY <1>1, <1>5, InCovered
  <2>2. CoveredBy(q) \subseteq CoveredBy(r)
    BY <1>1, <1>5, InCovered, SMTT(20)
  <2> QED
    BY <1>3, <2>1, <2>2 DEF Progress, Complete
<1> QED
  BY <1>9, <1>10, <1>11, <1>12, <1>13 DEF Progress, InOrder, f, m, l, r

\* pump: the oldest launch in flight is collected.
LEMMA CollectMoves ==
    ASSUME NEW w \in Workers, NEW e, NEW n, NEW s, NEW x, NEW q,
           Progress(w, e, n, s, x, q, <<>>), q # <<>>
    PROVE  Progress(w, e, n, s, x, Tail(q), <<q[1]>>)
<1> DEFINE r == Tail(q)
           k == <<q[1]>>
<1>1. q \in Seq(Launches) /\ Len(q) \in Nat \ {0}
  BY EmptySeq DEF Progress, InOrder, ProgressTypes
<1>2. /\ r \in Seq(Launches) /\ Len(r) = Len(q) - 1
      /\ \A i \in 1 .. Len(r) : r[i] = q[i + 1]
  BY <1>1, HeadTailProperties
<1>3. k \in Seq(Launches) /\ Len(k) = 1 /\ k[1] = q[1]
  BY <1>1, ElementOfSeq
<1> HIDE DEF r, k
<1>4. \A i \in 1 .. Len(r) : i + 1 \in 2 .. Len(q) /\ i + 1 \in 1 .. Len(q) /\ r[i] = q[i + 1]
  BY <1>1, <1>2
<1>5. \A i \in 1 .. Len(k) : i = 1 /\ 1 \in 1 .. Len(q) /\ k[i] = q[1]
  BY <1>1, <1>3
<1>6. ProgressTypes(w, e, n, s, x, r, k)
  <2>1. \A i \in 1 .. Len(q) : OwnLaunch(w, q[i])
    BY DEF Progress, InOrder, ProgressTypes
  <2>2. /\ \A i \in 1 .. Len(r) : OwnLaunch(w, r[i])
        /\ \A i \in 1 .. Len(k) : OwnLaunch(w, k[i])
    BY <1>4, <1>5, <2>1
  <2> QED
    BY <1>2, <1>3, <2>2 DEF Progress, InOrder, ProgressTypes
<1>7. \A h \in s : /\ Behind(h, e, n)
                   /\ \A i \in 1 .. Len(r) : Behind(h, r[i][1], r[i][2])
                   /\ \A i \in 1 .. Len(k) : Behind(h, k[i][1], k[i][2])
  BY <1>4, <1>5 DEF Progress, InOrder
<1>8. \A i \in 1 .. Len(k) : /\ Passed(k[i], e, n)
                             /\ \A j \in 1 .. Len(r) : Passed(k[i], r[j][1], r[j][2])
  <2>1. 1 \in 1 .. Len(q) /\ Passed(q[1], e, n) /\ \A j \in 2 .. Len(q) : Passed(q[1], q[j][1], q[j][2])
    BY <1>1 DEF Progress, InOrder
  <2> QED
    BY <1>4, <1>5, <2>1
<1>9. ASSUME NEW i \in 1 .. Len(r)
      PROVE  /\ Passed(r[i], e, n)
             /\ \A j \in i + 1 .. Len(r) : Passed(r[i], r[j][1], r[j][2])
  <2>1. \A j \in i + 1 .. Len(r) : j + 1 \in (i + 1) + 1 .. Len(q) /\ r[j] = q[j + 1]
    BY <1>1, <1>2
  <2>2. Passed(q[i + 1], e, n) /\ \A j \in (i + 1) + 1 .. Len(q) : Passed(q[i + 1], q[j][1], q[j][2])
    BY <1>4 DEF Progress, InOrder
  <2> QED
    BY <1>4, <2>1, <2>2
<1>10. CoveredBy(q) \subseteq CoveredBy(r) \cup CoveredBy(k)
  <2> SUFFICES ASSUME NEW h \in CoveredBy(q) PROVE h \in CoveredBy(r) \cup CoveredBy(k)
    OBVIOUS
  <2>1. PICK i \in 1 .. Len(q) : h \in Covers(q[i])
    BY InCovered
  <2>2. CASE i = 1
    <3>1. 1 \in 1 .. Len(k) /\ h \in Covers(k[1])
      BY <1>3, <2>1, <2>2
    <3> QED
      BY <3>1, InCovered
  <2>3. CASE i # 1
    <3>1. i - 1 \in 1 .. Len(r) /\ r[i - 1] = q[i]
      BY <1>1, <1>2, <2>3
    <3> QED
      BY <2>1, <3>1, InCovered
  <2> QED
    BY <2>2, <2>3
<1>11. Complete(w, e, n, s, x, r, k)
  BY <1>10, NothingCovered DEF Progress, Complete
<1> QED
  BY <1>6, <1>7, <1>8, <1>9, <1>11 DEF Progress, InOrder, r, k

\* finish: the launch in hand is hashed and submitted.
LEMMA FinishMoves ==
    ASSUME NEW w \in Workers, NEW e, NEW n, NEW s, NEW x, NEW q, NEW k,
           Progress(w, e, n, s, x, q, k), Len(k) = 1
    PROVE  Progress(w, e, n, s \cup Covers(k[1]), x, q, <<>>)
<1>1. /\ e \in Nat /\ n \in Nat /\ s \subseteq Part(w) /\ q \in Seq(Launches)
      /\ 1 \in 1 .. Len(k) /\ OwnLaunch(w, k[1])
  BY SearchAssumption DEF Progress, InOrder, ProgressTypes
<1>2. Covers(k[1]) \subseteq Part(w)
  BY <1>1, OwnCovers
<1>3. ProgressTypes(w, e, n, s \cup Covers(k[1]), x, q, <<>>)
  BY <1>1, <1>2, NothingCovered DEF Progress, InOrder, ProgressTypes
<1>4. \A i \in 1 .. Len(q) : q[i][1] \in Nat /\ q[i][2] \in Nat
  BY <1>1, ElementOfSeq, LaunchNumbers
<1>5. /\ Passed(k[1], e, n)
      /\ \A j \in 1 .. Len(q) : Passed(k[1], q[j][1], q[j][2])
  BY <1>1 DEF Progress, InOrder
<1>6. \A h \in Covers(k[1]) : /\ Behind(h, e, n)
                              /\ \A i \in 1 .. Len(q) : Behind(h, q[i][1], q[i][2])
  BY <1>1, <1>4, <1>5, CoversBehind
<1>7. CoveredBy(k) \subseteq Covers(k[1])
  BY InCovered
<1>8. Complete(w, e, n, s \cup Covers(k[1]), x, q, <<>>)
  BY <1>7 DEF Progress, Complete
<1>9. /\ \A h \in s : Behind(h, e, n) /\ \A i \in 1 .. Len(q) : Behind(h, q[i][1], q[i][2])
      /\ \A i \in 1 .. Len(q) : /\ Passed(q[i], e, n)
                                /\ \A j \in i + 1 .. Len(q) : Passed(q[i], q[j][1], q[j][2])
  BY DEF Progress, InOrder
<1> QED
  BY <1>3, <1>6, <1>8, <1>9, NothingCovered DEF Progress, InOrder

\* device_error drops the launch in hand when it gives up the device.
LEMMA DropMoves ==
    ASSUME NEW w \in Workers, NEW e, NEW n, NEW s, NEW x, NEW q, NEW k,
           Progress(w, e, n, s, x, q, k), Len(k) = 1
    PROVE  Progress(w, e, n, s, x \cup Covers(k[1]), q, <<>>)
<1>1. 1 \in 1 .. Len(k) /\ OwnLaunch(w, k[1])
  BY DEF Progress, InOrder, ProgressTypes
<1>2. Covers(k[1]) \subseteq Header
  BY <1>1, OwnCovers DEF Part
<1>3. ProgressTypes(w, e, n, s, x \cup Covers(k[1]), q, <<>>)
  BY <1>2, NothingCovered DEF Progress, InOrder, ProgressTypes
<1>4. CoveredBy(k) \subseteq Covers(k[1])
  BY InCovered
<1>5. Complete(w, e, n, s, x \cup Covers(k[1]), q, <<>>)
  BY <1>4 DEF Progress, Complete
<1>6. /\ \A h \in s : Behind(h, e, n) /\ \A i \in 1 .. Len(q) : Behind(h, q[i][1], q[i][2])
      /\ \A i \in 1 .. Len(q) : /\ Passed(q[i], e, n)
                                /\ \A j \in i + 1 .. Len(q) : Passed(q[i], q[j][1], q[j][2])
  BY DEF Progress, InOrder
<1> QED
  BY <1>3, <1>5, <1>6, NothingCovered DEF Progress, InOrder

\* device_error: what is in flight is given up, and the cursor goes back to
\* the oldest of it.
LEMMA GiveUpMoves ==
    ASSUME NEW w \in Workers, NEW e, NEW n, NEW s, NEW x, NEW q, NEW k,
           Progress(w, e, n, s, x, q, k), q # <<>>
    PROVE  Progress(w, q[1][1], q[1][2], s, x, <<>>, k)
<1>1. q \in Seq(Launches) /\ Len(q) \in Nat \ {0} /\ e \in Nat /\ n \in Nat
  BY EmptySeq, SearchAssumption DEF Progress, InOrder, ProgressTypes
<1>2. 1 \in 1 .. Len(q) /\ OwnLaunch(w, q[1]) /\ q[1][1] \in Nat /\ q[1][2] \in 0 .. Nonces - 1
  <2>1. 1 \in 1 .. Len(q) /\ OwnLaunch(w, q[1])
    BY <1>1 DEF Progress, InOrder, ProgressTypes
  <2> QED
    BY <2>1, SearchAssumption DEF OwnLaunch, Launches
<1>3. ProgressTypes(w, q[1][1], q[1][2], s, x, <<>>, k)
  BY <1>2, NothingCovered DEF Progress, InOrder, ProgressTypes, OwnLaunch
<1>4. \A h \in s : /\ Behind(h, q[1][1], q[1][2])
                   /\ \A i \in 1 .. Len(k) : Behind(h, k[i][1], k[i][2])
  BY <1>2 DEF Progress, InOrder
<1>5. \A i \in 1 .. Len(k) : Passed(k[i], q[1][1], q[1][2])
  BY <1>2 DEF Progress, InOrder
<1>6. AheadOf(w, e, n) \subseteq AheadOf(w, q[1][1], q[1][2])
  <2> SUFFICES ASSUME NEW h \in AheadOf(w, e, n) PROVE h \in AheadOf(w, q[1][1], q[1][2])
    OBVIOUS
  <2>1. h \in Part(w) /\ h[1] \in Nat /\ h[2] \in Nat
    BY SearchAssumption DEF AheadOf, Part, Header
  <2>2. Passed(q[1], e, n) /\ q[1][3] \in Nat
    BY <1>2, SearchAssumption DEF Progress, InOrder, OwnLaunch, Launches
  <2> QED
    BY <1>1, <1>2, <2>1, <2>2, SearchAssumption, SMTT(20) DEF AheadOf, Passed
<1>7. CoveredBy(q) \subseteq AheadOf(w, q[1][1], q[1][2])
  <2> SUFFICES ASSUME NEW h \in CoveredBy(q) PROVE h \in AheadOf(w, q[1][1], q[1][2])
    OBVIOUS
  <2>1. PICK i \in 1 .. Len(q) : h \in Covers(q[i])
    BY InCovered
  <2>2. OwnLaunch(w, q[i])
    BY DEF Progress, InOrder, ProgressTypes
  <2>3. /\ h \in Part(w) /\ h[1] = q[i][1] /\ h[2] >= q[i][2]
        /\ q[i][1] \in Nat /\ q[i][2] \in Nat /\ h[2] \in Nat
    <3>1. h \in Part(w) /\ h[1] = q[i][1] /\ h[2] >= q[i][2]
      BY <2>1, <2>2, OwnCovers
    <3>2. q[i] \in Launches
      BY <2>2 DEF OwnLaunch
    <3> QED
      BY <3>1, <3>2, LaunchNumbers, HeaderNumbers
  <2>4. CASE i = 1
    BY <1>2, <2>3, <2>4 DEF AheadOf
  <2>5. CASE i # 1
    <3>1. i \in 1 + 1 .. Len(q)
      BY <1>1, <2>5
    <3>2. Passed(q[1], q[i][1], q[i][2]) /\ q[1][3] \in Nat
      BY <1>2, <3>1, SearchAssumption DEF Progress, InOrder, OwnLaunch, Launches
    <3> QED
      BY <1>2, <2>3, <3>2, SearchAssumption, SMTT(20) DEF AheadOf, Passed
  <2> QED
    BY <2>4, <2>5
<1>8. Complete(w, q[1][1], q[1][2], s, x, <<>>, k)
  BY <1>6, <1>7 DEF Progress, Complete
<1> QED
  BY <1>3, <1>4, <1>5, <1>8, NothingCovered DEF Progress, InOrder

-----------------------------------------------------------------------------
(***************************************************************************)
(* The invariant of the miner.                                             *)
(***************************************************************************)
InFlight(w) == IF w \in Gpus THEN inflight[w] ELSE <<>>
HandOf(w) == IF w \in Gpus THEN hand[w] ELSE <<>>

ProgressOf(w) == Progress(w, en2[w], nonce[w], searched[w], Lost(w), InFlight(w), HandOf(w))

\* Nothing is in flight or in hand outside the launch loop, and a launch is in
\* hand exactly while the queue is refilled behind it.
PumpShape(g) ==
    /\ lpc[g] \in {"idle", "gone", "stopped"} => inflight[g] = <<>>
    /\ lpc[g] # "refill" => hand[g] = <<>>
    /\ lpc[g] = "refill" => Len(hand[g]) = 1

EveryWorker == \A w \in Workers : ProgressOf(w)
EveryPump == \A g \in Gpus : PumpShape(g)

SearchInv == TypeOK /\ EveryWorker /\ EveryPump

\* What a worker's progress is made of.
LEMMA CpuProgress ==
    ASSUME NEW c \in Cpus
    PROVE  /\ ProgressOf(c) <=> Progress(c, en2[c], nonce[c], searched[c], {}, <<>>, <<>>)
           /\ ProgressOf(c)' <=> Progress(c, en2'[c], nonce'[c], searched'[c], {}, <<>>, <<>>)
<1>1. c \notin Gpus
  BY SearchAssumption
<1> QED
  BY <1>1 DEF ProgressOf, Lost, InFlight, HandOf

LEMMA GpuProgress ==
    ASSUME NEW g \in Gpus
    PROVE  /\ ProgressOf(g) <=> Progress(g, en2[g], nonce[g], searched[g], lost[g], inflight[g], hand[g])
           /\ ProgressOf(g)' <=> Progress(g, en2'[g], nonce'[g], searched'[g], lost'[g], inflight'[g], hand'[g])
  BY DEF ProgressOf, Lost, InFlight, HandOf

\* A worker another one's step leaves alone.
LEMMA OthersProgress ==
    ASSUME NEW w \in Workers, ProgressOf(w), en2'[w] = en2[w], nonce'[w] = nonce[w], searched'[w] = searched[w],
           w \in Gpus => lost'[w] = lost[w] /\ inflight'[w] = inflight[w] /\ hand'[w] = hand[w]
    PROVE  ProgressOf(w)'
  BY DEF ProgressOf, Lost, InFlight, HandOf

LEMMA InitialProgress == Init => SearchInv
<1> SUFFICES ASSUME Init PROVE SearchInv
  OBVIOUS
<1> USE DEF Init, SearchInit, SweepInit, PipeInit
<1>1. EveryWorker
  BY StartsOver DEF EveryWorker, ProgressOf, Lost, InFlight, HandOf
<1>2. EveryPump
  BY DEF EveryPump, PumpShape
<1>3. SearchTypeOK
  BY SearchAssumption, StrideIsPositive DEF SearchTypeOK
<1>4. SweepTypeOK /\ PipeTypeOK
  BY PipelineAssumption, NothingCovered DEF SweepTypeOK, PipeTypeOK
<1> QED
  BY <1>1, <1>2, <1>3, <1>4 DEF SearchInv, TypeOK

LEMMA TypesOfProgress ==
    ASSUME NEW w \in Workers, NEW e, NEW n, NEW s, NEW x, NEW q, NEW k, Progress(w, e, n, s, x, q, k)
    PROVE  /\ e \in Nat /\ n \in 0 .. Nonces - 1 /\ s \in SUBSET Header /\ x \in SUBSET Header
           /\ q \in Seq(Launches) /\ k \in Seq(Launches)
  BY DEF Progress, InOrder, ProgressTypes, Part

-----------------------------------------------------------------------------
(***************************************************************************)
(* Every step keeps it.                                                    *)
(***************************************************************************)
LEMMA PoolKeeps == SearchInv /\ PoolSteps => SearchInv'
<1> SUFFICES ASSUME SearchInv, PoolSteps PROVE SearchInv'
  OBVIOUS
<1> USE DEF PoolSteps, SameSpaceAgain, NewTemplate, pipeVars
<1>1. SearchTypeOK'
  BY SearchAssumption DEF SearchInv, TypeOK, SearchTypeOK
<1>2. SweepTypeOK' /\ PipeTypeOK' /\ EveryPump'
  BY DEF SearchInv, TypeOK, SweepTypeOK, PipeTypeOK, EveryPump, PumpShape
<1>3. EveryWorker'
  BY OthersProgress DEF SearchInv, EveryWorker
<1> QED
  BY <1>1, <1>2, <1>3 DEF SearchInv, TypeOK

\* start_on: the job is continued where the worker stopped, or started over.
LEMMA JobTaken ==
    ASSUME SearchInv, NEW w \in Workers, TakeJob(w)
    PROVE  /\ SearchTypeOK'
           /\ \A v \in Workers \ {w} : en2'[v] = en2[v] /\ nonce'[v] = nonce[v] /\ searched'[v] = searched[v]
           /\ at[w] = space => en2'[w] = en2[w] /\ nonce'[w] = nonce[w] /\ searched'[w] = searched[w]
           /\ at[w] # space => en2'[w] = Index[w] /\ nonce'[w] = 0 /\ searched'[w] = {}
<1>1. Index[w] \in Nat /\ 0 \in 0 .. Nonces - 1
  BY SearchAssumption, StrideIsPositive
<1>2. SearchTypeOK
  BY DEF SearchInv, TypeOK
<1>3. space' \in 0 .. MaxTemplates /\ fresh' \in SUBSET Workers /\ spent' \in SUBSET Workers
      /\ at' \in [Workers -> 0 .. MaxTemplates]
  BY <1>2 DEF TakeJob, SearchTypeOK
<1>4. CASE at[w] = space
  BY <1>2, <1>3, <1>4 DEF TakeJob, SearchTypeOK
<1>5. CASE at[w] # space
  <2>1. /\ en2' = [en2 EXCEPT ![w] = Index[w]] /\ nonce' = [nonce EXCEPT ![w] = 0]
        /\ searched' = [searched EXCEPT ![w] = {}]
    BY <1>5 DEF TakeJob, MoveTo
  <2> QED
    BY <1>1, <1>2, <1>3, <1>5, <2>1 DEF SearchTypeOK
<1> QED
  BY <1>4, <1>5

LEMMA CpuKeeps ==
    ASSUME SearchInv, NEW c \in Cpus, CpuSteps(c)
    PROVE  SearchInv'
<1>1. PipeTypeOK' /\ EveryPump' /\ UNCHANGED <<lost, inflight, hand>>
  BY DEF SearchInv, TypeOK, PipeTypeOK, EveryPump, PumpShape, CpuSteps, pipeVars
<1>2. SweepTypeOK'
  BY DEF SearchInv, TypeOK, SweepTypeOK, CpuSteps, SweepStep, SweepStarts, SweepExhausted, SweepBatch
<1>3. Progress(c, en2[c], nonce[c], searched[c], {}, <<>>, <<>>)
  BY CpuProgress DEF SearchInv, EveryWorker
<1>4. SearchTypeOK
  BY DEF SearchInv, TypeOK
<1>5. SUFFICES /\ SearchTypeOK'
               /\ \A w \in Workers \ {c} : en2'[w] = en2[w] /\ nonce'[w] = nonce[w] /\ searched'[w] = searched[w]
               /\ Progress(c, en2'[c], nonce'[c], searched'[c], {}, <<>>, <<>>)
  <2>1. ASSUME SearchTypeOK',
               \A w \in Workers \ {c} : en2'[w] = en2[w] /\ nonce'[w] = nonce[w] /\ searched'[w] = searched[w],
               Progress(c, en2'[c], nonce'[c], searched'[c], {}, <<>>, <<>>)
        PROVE  SearchInv'
    <3>1. ProgressOf(c)'
      BY <2>1, CpuProgress
    <3>2. \A w \in Workers \ {c} : ProgressOf(w)'
      BY <1>1, <2>1, OthersProgress DEF SearchInv, EveryWorker
    <3>3. EveryWorker'
      BY <3>1, <3>2 DEF EveryWorker
    <3> QED
      BY <1>1, <1>2, <2>1, <3>3 DEF SearchInv, TypeOK
  <2> QED
    BY <2>1
<1>6. CASE SweepStarts(c)
  <2>1. TakeJob(c)
    BY <1>6 DEF SweepStarts
  <2> QED
    BY <1>3, <2>1, JobTaken, StartsOver
<1>7. CASE SweepExhausted(c)
  BY <1>3, <1>4, <1>7 DEF SweepExhausted, SearchTypeOK
<1>8. CASE SweepBatch(c)
  <2> DEFINE count == Chunk(Batch, nonce[c])
             e == NextEn2(en2[c], nonce[c], count)
             n == NextNonce(nonce[c], count)
             s == searched[c] \cup Span(en2[c], nonce[c], count)
  <2>1. /\ En2Fits(en2[c])
        /\ searched' = [searched EXCEPT ![c] = s]
        /\ en2' = [en2 EXCEPT ![c] = e]
        /\ nonce' = [nonce EXCEPT ![c] = n]
        /\ UNCHANGED <<space, fresh, at, spent>>
    BY <1>8 DEF SweepBatch, ResumePoint, MoveTo
  <2>2. Progress(c, e, n, s, {}, <<>>, <<>>)
    BY <1>3, <2>1, BatchMoves, BatchAssumption
  <2> HIDE DEF e, n, s
  <2>3. e \in Nat /\ n \in 0 .. Nonces - 1 /\ s \in SUBSET Header
    BY <2>2, TypesOfProgress
  <2>4. SearchTypeOK'
    BY <1>4, <2>1, <2>3 DEF SearchTypeOK
  <2>5. en2'[c] = e /\ nonce'[c] = n /\ searched'[c] = s
    BY <1>4, <2>1 DEF SearchTypeOK
  <2>6. \A w \in Workers \ {c} : en2'[w] = en2[w] /\ nonce'[w] = nonce[w] /\ searched'[w] = searched[w]
    BY <1>4, <2>1 DEF SearchTypeOK
  <2> QED
    BY <2>2, <2>4, <2>5, <2>6
<1> QED
  BY <1>6, <1>7, <1>8 DEF CpuSteps, SweepStep

\* One card's step: what it has to show, the other workers being left alone.
GpuLeaves(g) ==
    /\ \A w \in Workers \ {g} : en2'[w] = en2[w] /\ nonce'[w] = nonce[w] /\ searched'[w] = searched[w]
    /\ \A o \in Gpus \ {g} :
          /\ inflight'[o] = inflight[o] /\ hand'[o] = hand[o] /\ lost'[o] = lost[o]
          /\ lpc'[o] = lpc[o]

LEMMA GpuSuffices ==
    ASSUME SearchInv, NEW g \in Gpus, UNCHANGED sweeping, SearchTypeOK', PipeTypeOK', GpuLeaves(g), PumpShape(g)',
           Progress(g, en2'[g], nonce'[g], searched'[g], lost'[g], inflight'[g], hand'[g])
    PROVE  SearchInv'
<1>1. ProgressOf(g)'
  BY GpuProgress
<1>2. \A w \in Workers \ {g} : ProgressOf(w)'
  BY OthersProgress DEF SearchInv, EveryWorker, GpuLeaves
<1>3. EveryWorker'
  BY <1>1, <1>2 DEF EveryWorker
<1>4. \A o \in Gpus \ {g} : PumpShape(o)'
  BY DEF SearchInv, EveryPump, PumpShape, GpuLeaves
<1>5. EveryPump'
  BY <1>4 DEF EveryPump
<1>6. SweepTypeOK'
  BY DEF SearchInv, TypeOK, SweepTypeOK
<1> QED
  BY <1>3, <1>5, <1>6 DEF SearchInv, TypeOK

\* device_error: whatever is in flight or in hand, the cursor goes back to the
\* oldest launch not done, and the launch in hand is dropped with the device.
LEMMA ErrorKeeps ==
    ASSUME SearchInv, NEW g \in Gpus, UNCHANGED sweeping, lpc[g] \in {"fill", "refill"},
           NEW e, NEW n, DeviceError(g, e, n),
           \/ inflight[g] = <<>> /\ e = en2[g] /\ n = nonce[g]
           \/ inflight[g] # <<>> /\ e = inflight[g][1][1] /\ n = inflight[g][1][2]
    PROVE  SearchInv'
<1>1. SearchTypeOK /\ PipeTypeOK /\ PumpShape(g)
  BY DEF SearchInv, TypeOK, EveryPump
<1>2. Progress(g, en2[g], nonce[g], searched[g], lost[g], inflight[g], hand[g])
  BY GpuProgress DEF SearchInv, EveryWorker
<1>3. Progress(g, e, n, searched[g], lost[g], <<>>, hand[g])
  BY <1>2, GiveUpMoves
<1>4. e \in Nat /\ n \in 0 .. Nonces - 1
  BY <1>3, TypesOfProgress
<1>5. /\ en2' = [en2 EXCEPT ![g] = e] /\ nonce' = [nonce EXCEPT ![g] = n]
      /\ inflight' = [inflight EXCEPT ![g] = <<>>]
      /\ UNCHANGED <<space, fresh, at, searched, spent, depth, ending, switching>>
  BY DEF DeviceError, Restart, MoveTo
<1>6. SearchTypeOK'
  BY <1>1, <1>4, <1>5 DEF SearchTypeOK
<1>7. /\ inflight' \in [Gpus -> Seq(Launches)] /\ depth' \in [Gpus -> 1 .. QueueDepth]
      /\ ending' \in [Gpus -> {"none", "changed", "exhausted"}] /\ switching' \in SUBSET Gpus
  BY <1>1, <1>5, NothingCovered DEF PipeTypeOK
<1>8. /\ en2'[g] = e /\ nonce'[g] = n /\ searched'[g] = searched[g] /\ inflight'[g] = <<>>
      /\ \A w \in Workers \ {g} : en2'[w] = en2[w] /\ nonce'[w] = nonce[w] /\ searched'[w] = searched[w]
      /\ \A o \in Gpus \ {g} : inflight'[o] = inflight[o]
  BY <1>1, <1>5 DEF SearchTypeOK, PipeTypeOK
<1>9. CASE CountedError(g) < MaxErrors
  <2>1. errors' = [errors EXCEPT ![g] = CountedError(g)] /\ UNCHANGED <<lpc, hand, lost>>
    BY <1>1, <1>9, PipelineAssumption DEF DeviceError, CountedError, PipeTypeOK
  <2>2. CountedError(g) \in 0 .. MaxErrors - 1
    BY <1>1, <1>9, PipelineAssumption DEF CountedError, PipeTypeOK
  <2>3. PipeTypeOK'
    BY <1>1, <1>7, <2>1, <2>2 DEF PipeTypeOK
  <2>4. GpuLeaves(g) /\ PumpShape(g)'
    BY <1>1, <1>8, <2>1 DEF GpuLeaves, PumpShape
  <2> QED
    BY <1>3, <1>6, <1>8, <2>1, <2>3, <2>4, GpuSuffices
<1>10. CASE ~(CountedError(g) < MaxErrors)
  <2>1. /\ errors' = [errors EXCEPT ![g] = 0] /\ lpc' = [lpc EXCEPT ![g] = "gone"]
        /\ hand' = [hand EXCEPT ![g] = <<>>]
        /\ lost' = IF hand[g] = <<>> THEN lost ELSE [lost EXCEPT ![g] = @ \cup Covers(hand[g][1])]
    BY <1>1, <1>10, PipelineAssumption DEF DeviceError, CountedError, PipeTypeOK
  <2>2. lpc'[g] = "gone" /\ hand'[g] = <<>> /\ \A o \in Gpus \ {g} : lpc'[o] = lpc[o] /\ hand'[o] = hand[o]
    BY <1>1, <2>1 DEF PipeTypeOK
  <2>3. /\ lpc' \in [Gpus -> {"idle", "fill", "refill", "gone", "stopped"}]
        /\ errors' \in [Gpus -> 0 .. MaxErrors - 1] /\ hand' \in [Gpus -> Seq(Launches)]
    BY <1>1, <2>1, NothingCovered, PipelineAssumption DEF PipeTypeOK
  <2>4. PumpShape(g)'
    BY <1>8, <2>2 DEF PumpShape
  <2>5. CASE hand[g] = <<>>
    <3>1. lost' = lost
      BY <2>1, <2>5
    <3>2. PipeTypeOK'
      BY <1>1, <1>7, <2>3, <3>1 DEF PipeTypeOK
    <3>3. GpuLeaves(g)
      BY <1>8, <2>2, <3>1 DEF GpuLeaves
    <3> QED
      BY <1>3, <1>6, <1>8, <2>2, <2>4, <2>5, <3>1, <3>2, <3>3, GpuSuffices
  <2>6. CASE hand[g] # <<>>
    <3> DEFINE x == lost[g] \cup Covers(hand[g][1])
    <3>1. lost' = [lost EXCEPT ![g] = x]
      BY <2>1, <2>6
    <3>2. Len(hand[g]) = 1
      BY <1>1, <2>6 DEF PumpShape
    <3>3. Progress(g, e, n, searched[g], x, <<>>, <<>>)
      BY <1>3, <3>2, DropMoves
    <3> HIDE DEF x
    <3>4. x \in SUBSET Header
      BY <3>3, TypesOfProgress
    <3>5. PipeTypeOK'
      BY <1>1, <1>7, <2>3, <3>1, <3>4 DEF PipeTypeOK
    <3>6. lost'[g] = x /\ \A o \in Gpus \ {g} : lost'[o] = lost[o]
      BY <1>1, <3>1 DEF PipeTypeOK
    <3>7. GpuLeaves(g)
      BY <1>8, <2>2, <3>6 DEF GpuLeaves
    <3> QED
      BY <1>6, <1>8, <2>2, <2>4, <3>3, <3>5, <3>6, <3>7, GpuSuffices
  <2> QED
    BY <2>5, <2>6
<1> QED
  BY <1>9, <1>10

LEMMA GpuKeeps ==
    ASSUME SearchInv, NEW g \in Gpus, GpuSteps(g)
    PROVE  SearchInv'
<1>1. SearchTypeOK /\ PipeTypeOK /\ PumpShape(g) /\ UNCHANGED sweeping
  BY DEF SearchInv, TypeOK, EveryPump, GpuSteps
<1>2. Progress(g, en2[g], nonce[g], searched[g], lost[g], inflight[g], hand[g])
  BY GpuProgress DEF SearchInv, EveryWorker
<1>3. CASE LaunchStarts(g)
  <2>1. inflight[g] = <<>> /\ hand[g] = <<>> /\ TakeJob(g) /\ UNCHANGED <<inflight, hand, errors>>
    BY <1>1, <1>3 DEF LaunchStarts, PumpShape
  <2>2. /\ SearchTypeOK'
        /\ \A w \in Workers \ {g} : en2'[w] = en2[w] /\ nonce'[w] = nonce[w] /\ searched'[w] = searched[w]
        /\ at[g] = space => en2'[g] = en2[g] /\ nonce'[g] = nonce[g] /\ searched'[g] = searched[g]
        /\ at[g] # space => en2'[g] = Index[g] /\ nonce'[g] = 0 /\ searched'[g] = {}
    BY <2>1, JobTaken
  <2>3. /\ lost' \in [Gpus -> SUBSET Header] /\ \A o \in Gpus \ {g} : lost'[o] = lost[o]
        /\ at[g] = space => lost'[g] = lost[g]
        /\ at[g] # space => lost'[g] = {}
    BY <1>1, <1>3 DEF LaunchStarts, PipeTypeOK
  <2>4. /\ lpc' = [lpc EXCEPT ![g] = "fill"] /\ ending' = [ending EXCEPT ![g] = "none"]
        /\ switching' = switching \ {g}
    BY <1>3 DEF LaunchStarts
  <2>5. depth' \in [Gpus -> 1 .. QueueDepth]
    <3>1. PICK i \in Intensities : depth' = [depth EXCEPT ![g] = GpuQueue(i)]
      BY <1>3 DEF LaunchStarts
    <3>2. GpuQueue(i) \in 1 .. QueueDepth
      BY PipelineAssumption DEF GpuQueue
    <3> QED
      BY <1>1, <3>1, <3>2 DEF PipeTypeOK
  <2>6. PipeTypeOK'
    BY <1>1, <2>1, <2>3, <2>4, <2>5 DEF PipeTypeOK
  <2>7. lpc'[g] = "fill" /\ \A o \in Gpus \ {g} : lpc'[o] = lpc[o]
    BY <1>1, <2>4 DEF PipeTypeOK
  <2>8. GpuLeaves(g) /\ PumpShape(g)'
    BY <2>1, <2>2, <2>3, <2>7 DEF GpuLeaves, PumpShape
  <2>9. Progress(g, en2'[g], nonce'[g], searched'[g], lost'[g], inflight'[g], hand'[g])
    BY <1>2, <2>1, <2>2, <2>3, StartsOver
  <2> QED
    BY <1>1, <2>2, <2>6, <2>8, <2>9, GpuSuffices
<1>4. CASE TopUpEnds(g)
  <2>1. UNCHANGED <<space, fresh, at, en2, nonce, searched, spent, lpc, depth, inflight, hand, switching, errors, lost>>
    BY <1>4 DEF TopUpEnds, searchVars
  <2>2. ending' \in [Gpus -> {"none", "changed", "exhausted"}]
    BY <1>1, <1>4 DEF TopUpEnds, PipeTypeOK
  <2>3. SearchTypeOK' /\ PipeTypeOK' /\ GpuLeaves(g) /\ PumpShape(g)'
    BY <1>1, <2>1, <2>2 DEF SearchTypeOK, PipeTypeOK, GpuLeaves, PumpShape
  <2> QED
    BY <1>1, <1>2, <2>1, <2>3, GpuSuffices
<1>5. CASE Enqueue(g)
  <2>1. PICK max \in Chunks :
            /\ inflight' = [inflight EXCEPT ![g] = Append(inflight[g], <<en2[g], nonce[g], Chunk(max, nonce[g])>>)]
            /\ en2' = [en2 EXCEPT ![g] = NextEn2(en2[g], nonce[g], Chunk(max, nonce[g]))]
            /\ nonce' = [nonce EXCEPT ![g] = NextNonce(nonce[g], Chunk(max, nonce[g]))]
    BY <1>5 DEF Enqueue, MoveTo
  <2> DEFINE count == Chunk(max, nonce[g])
             e == NextEn2(en2[g], nonce[g], count)
             n == NextNonce(nonce[g], count)
             q == Append(inflight[g], <<en2[g], nonce[g], count>>)
  <2>2. /\ En2Fits(en2[g]) /\ lpc[g] \in {"fill", "refill"}
        /\ UNCHANGED <<space, fresh, at, searched, spent, lpc, depth, hand, ending, switching, errors, lost>>
    BY <1>5 DEF Enqueue, Topping
  <2>3. Progress(g, e, n, searched[g], lost[g], q, hand[g])
    BY <1>2, <2>2, QueueMoves, PipelineAssumption
  <2>4. inflight' = [inflight EXCEPT ![g] = q] /\ en2' = [en2 EXCEPT ![g] = e] /\ nonce' = [nonce EXCEPT ![g] = n]
    BY <2>1
  <2> HIDE DEF e, n, q
  <2>5. e \in Nat /\ n \in 0 .. Nonces - 1 /\ q \in Seq(Launches)
    BY <2>3, TypesOfProgress
  <2>6. SearchTypeOK' /\ PipeTypeOK'
    BY <1>1, <2>2, <2>4, <2>5 DEF SearchTypeOK, PipeTypeOK
  <2>7. /\ en2'[g] = e /\ nonce'[g] = n /\ inflight'[g] = q
        /\ \A w \in Workers \ {g} : en2'[w] = en2[w] /\ nonce'[w] = nonce[w]
        /\ \A o \in Gpus \ {g} : inflight'[o] = inflight[o]
    BY <1>1, <2>4 DEF SearchTypeOK, PipeTypeOK
  <2>8. GpuLeaves(g) /\ PumpShape(g)'
    BY <1>1, <2>2, <2>7 DEF GpuLeaves, PumpShape
  <2> QED
    BY <1>1, <2>2, <2>3, <2>6, <2>7, <2>8, GpuSuffices
<1>6. CASE EnqueueFails(g)
  <2>1. lpc[g] \in {"fill", "refill"}
    BY <1>6 DEF EnqueueFails, Topping
  <2>2. CASE inflight[g] = <<>>
    <3>1. DeviceError(g, en2[g], nonce[g])
      BY <1>6, <2>2 DEF EnqueueFails
    <3> QED
      BY <1>1, <2>1, <2>2, <3>1, ErrorKeeps
  <2>3. CASE inflight[g] # <<>>
    <3>1. DeviceError(g, inflight[g][1][1], inflight[g][1][2])
      BY <1>6, <2>3 DEF EnqueueFails
    <3> QED
      BY <1>1, <2>1, <2>3, <3>1, ErrorKeeps
  <2> QED
    BY <2>2, <2>3
<1>7. CASE CollectFails(g)
  <2>1. /\ lpc[g] = "fill" /\ inflight[g] # <<>>
        /\ DeviceError(g, inflight[g][1][1], inflight[g][1][2])
    BY <1>7 DEF CollectFails
  <2> QED
    BY <1>1, <2>1, ErrorKeeps
<1>8. CASE Collect(g)
  <2> DEFINE q == Tail(inflight[g])
             k == <<inflight[g][1]>>
  <2>1. /\ lpc[g] = "fill" /\ inflight[g] # <<>> /\ hand[g] = <<>>
        /\ UNCHANGED <<space, fresh, at, en2, nonce, searched, spent, depth, ending, switching, lost>>
    BY <1>1, <1>8 DEF Collect, searchVars, PumpShape
  <2>2. /\ hand' = [hand EXCEPT ![g] = k] /\ inflight' = [inflight EXCEPT ![g] = q]
        /\ errors' = [errors EXCEPT ![g] = 0] /\ lpc' = [lpc EXCEPT ![g] = "refill"]
    BY <1>8 DEF Collect
  <2>3. Progress(g, en2[g], nonce[g], searched[g], lost[g], q, k)
    BY <1>2, <2>1, CollectMoves
  <2>4. Len(k) = 1
    OBVIOUS
  <2> HIDE DEF q, k
  <2>5. q \in Seq(Launches) /\ k \in Seq(Launches)
    BY <2>3, TypesOfProgress
  <2>6. SearchTypeOK'
    BY <1>1, <2>1 DEF SearchTypeOK
  <2>7. PipeTypeOK'
    BY <1>1, <2>1, <2>2, <2>5, PipelineAssumption DEF PipeTypeOK
  <2>8. /\ hand'[g] = k /\ inflight'[g] = q /\ lpc'[g] = "refill"
        /\ \A o \in Gpus \ {g} : hand'[o] = hand[o] /\ inflight'[o] = inflight[o] /\ lpc'[o] = lpc[o]
    BY <1>1, <2>2 DEF PipeTypeOK
  <2>9. GpuLeaves(g) /\ PumpShape(g)'
    BY <2>1, <2>4, <2>8 DEF GpuLeaves, PumpShape
  <2> QED
    BY <1>1, <2>1, <2>3, <2>6, <2>7, <2>8, <2>9, GpuSuffices
<1>9. CASE Finish(g)
  <2> DEFINE s == searched[g] \cup Covers(hand[g][1])
  <2>1. /\ lpc[g] = "refill" /\ Len(hand[g]) = 1
        /\ UNCHANGED <<space, fresh, at, en2, nonce, spent, depth, inflight, ending, errors, lost>>
    BY <1>1, <1>9 DEF Finish, PumpShape
  <2>2. /\ searched' = [searched EXCEPT ![g] = s] /\ hand' = [hand EXCEPT ![g] = <<>>]
        /\ lpc' = [lpc EXCEPT ![g] = "fill"]
    BY <1>9 DEF Finish
  <2>3. Progress(g, en2[g], nonce[g], s, lost[g], inflight[g], <<>>)
    BY <1>2, <2>1, FinishMoves
  <2> HIDE DEF s
  <2>4. s \in SUBSET Header
    BY <2>3, TypesOfProgress
  <2>5. SearchTypeOK'
    BY <1>1, <2>1, <2>2, <2>4 DEF SearchTypeOK
  <2>6. switching' \in SUBSET Gpus
    BY <1>1, <1>9 DEF Finish, PipeTypeOK
  <2>7. PipeTypeOK'
    BY <1>1, <2>1, <2>2, <2>6, NothingCovered DEF PipeTypeOK
  <2>8. /\ searched'[g] = s /\ hand'[g] = <<>> /\ lpc'[g] = "fill"
        /\ \A w \in Workers \ {g} : searched'[w] = searched[w]
        /\ \A o \in Gpus \ {g} : hand'[o] = hand[o] /\ lpc'[o] = lpc[o]
    BY <1>1, <2>2 DEF SearchTypeOK, PipeTypeOK
  <2>9. GpuLeaves(g) /\ PumpShape(g)'
    BY <2>1, <2>8 DEF GpuLeaves, PumpShape
  <2> QED
    BY <1>1, <2>1, <2>3, <2>5, <2>7, <2>8, <2>9, GpuSuffices
<1>10. CASE LaunchEnds(g)
  <2>1. /\ lpc[g] = "fill" /\ inflight[g] = <<>> /\ lpc' = [lpc EXCEPT ![g] = "idle"]
        /\ UNCHANGED <<space, fresh, at, en2, nonce, searched, depth, inflight, hand, ending, switching, errors, lost>>
        /\ spent' \in {spent, spent \cup {g}}
    BY <1>10 DEF LaunchEnds
  <2>2. SearchTypeOK' /\ PipeTypeOK'
    BY <1>1, <2>1 DEF SearchTypeOK, PipeTypeOK
  <2>3. lpc'[g] = "idle" /\ \A o \in Gpus \ {g} : lpc'[o] = lpc[o]
    BY <1>1, <2>1 DEF PipeTypeOK
  <2>4. GpuLeaves(g) /\ PumpShape(g)'
    BY <1>1, <2>1, <2>3 DEF GpuLeaves, PumpShape
  <2> QED
    BY <1>1, <1>2, <2>1, <2>2, <2>4, GpuSuffices
<1>11. CASE Reopened(g)
  <2>1. PICK to \in {"idle", "stopped"} : lpc' = [lpc EXCEPT ![g] = to]
    BY <1>11 DEF Reopened
  <2>2. /\ lpc[g] = "gone" /\ errors' = [errors EXCEPT ![g] = 0]
        /\ UNCHANGED <<space, fresh, at, en2, nonce, searched, spent, depth, inflight, hand, ending, switching, lost>>
    BY <1>11 DEF Reopened, searchVars
  <2>3. SearchTypeOK'
    BY <1>1, <2>2 DEF SearchTypeOK
  <2>4. PipeTypeOK'
    BY <1>1, <2>1, <2>2, PipelineAssumption DEF PipeTypeOK
  <2>5. lpc'[g] = to /\ \A o \in Gpus \ {g} : lpc'[o] = lpc[o]
    BY <1>1, <2>1 DEF PipeTypeOK
  <2>6. GpuLeaves(g) /\ PumpShape(g)'
    BY <1>1, <2>2, <2>5 DEF GpuLeaves, PumpShape
  <2> QED
    BY <1>1, <1>2, <2>2, <2>3, <2>4, <2>6, GpuSuffices
<1> QED
  BY <1>3, <1>4, <1>5, <1>6, <1>7, <1>8, <1>9, <1>10, <1>11 DEF GpuSteps, LaunchStep

LEMMA StepKeeps == SearchInv /\ [Next]_vars => SearchInv'
<1> SUFFICES ASSUME SearchInv, [Next]_vars PROVE SearchInv'
  OBVIOUS
<1>1. CASE PoolSteps
  BY <1>1, PoolKeeps
<1>2. ASSUME NEW c \in Cpus, CpuSteps(c) PROVE SearchInv'
  BY <1>2, CpuKeeps
<1>3. ASSUME NEW g \in Gpus, GpuSteps(g) PROVE SearchInv'
  BY <1>3, GpuKeeps
<1>4. CASE UNCHANGED vars
  <2> USE <1>4 DEF vars, searchVars, pipeVars
  <2>1. SearchTypeOK' /\ SweepTypeOK' /\ PipeTypeOK'
    BY DEF SearchInv, TypeOK, SearchTypeOK, SweepTypeOK, PipeTypeOK
  <2>2. EveryPump'
    BY DEF SearchInv, EveryPump, PumpShape
  <2>3. EveryWorker'
    BY OthersProgress DEF SearchInv, EveryWorker
  <2> QED
    BY <2>1, <2>2, <2>3 DEF SearchInv, TypeOK
<1> QED
  BY <1>1, <1>2, <1>3, <1>4 DEF Next

LEMMA AlwaysInOrder == Spec => []SearchInv
<1> QED
  BY InitialProgress, StepKeeps, PTL DEF Spec

-----------------------------------------------------------------------------
\* Each worker keeps to its own part, so two of them share nothing; and the
\* part is cut by remainders, which Index tells apart.
LEMMA NothingTwice == SearchInv => HashedOnce
<1> SUFFICES ASSUME SearchInv, NEW v \in Workers, NEW w \in Workers, NEW h \in Pending(w), h \in searched[v]
             PROVE  FALSE
  BY DEF HashedOnce
<1> DEFINE q == InFlight(w)
           k == HandOf(w)
<1>1. ProgressOf(v) /\ ProgressOf(w)
  BY DEF SearchInv, EveryWorker
<1>2. /\ en2[w] \in Nat /\ nonce[w] \in Nat /\ nonce[w] \in 0 .. Nonces - 1
      /\ q \in Seq(Launches) /\ k \in Seq(Launches)
      /\ \A i \in 1 .. Len(q) : OwnLaunch(w, q[i])
      /\ \A i \in 1 .. Len(k) : OwnLaunch(w, k[i])
  BY <1>1, SearchAssumption DEF ProgressOf, Progress, InOrder, ProgressTypes
<1>3. h \in Part(v)
  BY <1>1 DEF ProgressOf, Progress, InOrder, ProgressTypes
<1>4. h \in AheadOf(w, en2[w], nonce[w]) \cup CoveredBy(q) \cup CoveredBy(k)
  BY DEF Pending, Ahead, AheadOf, Queued, InHand, CoveredBy, InFlight, HandOf
<1> HIDE DEF q, k
<1>5. h \in Part(w)
  <2>1. CASE h \in AheadOf(w, en2[w], nonce[w])
    BY <2>1 DEF AheadOf
  <2>2. CASE h \in CoveredBy(q)
    BY <1>2, <2>2, InCovered, OwnCovers
  <2>3. CASE h \in CoveredBy(k)
    BY <1>2, <2>3, InCovered, OwnCovers
  <2> QED
    BY <1>4, <2>1, <2>2, <2>3
<1>6. v = w
  BY <1>3, <1>5, SearchAssumption DEF Part
<1>7. h[1] \in Nat /\ h[2] \in Nat
  BY <1>5, HeaderNumbers
<1>8. /\ Behind(h, en2[w], nonce[w])
      /\ \A i \in 1 .. Len(q) : Behind(h, q[i][1], q[i][2])
      /\ \A i \in 1 .. Len(k) : Behind(h, k[i][1], k[i][2])
  BY <1>1, <1>6 DEF ProgressOf, Progress, InOrder, q, k
<1>9. CASE h \in AheadOf(w, en2[w], nonce[w])
  BY <1>2, <1>7, <1>8, <1>9 DEF AheadOf, Behind
<1>10. ASSUME NEW l, OwnLaunch(w, l), h \in Covers(l), Behind(h, l[1], l[2])
       PROVE  FALSE
  <2>1. l[1] \in Nat /\ l[2] \in Nat
    BY <1>10, LaunchNumbers DEF OwnLaunch
  <2>2. h[1] = l[1] /\ h[2] >= l[2]
    BY <1>10, OwnCovers
  <2> QED
    BY <1>7, <1>10, <2>1, <2>2 DEF Behind
<1>11. CASE h \in CoveredBy(q)
  BY <1>2, <1>8, <1>10, <1>11, InCovered
<1>12. CASE h \in CoveredBy(k)
  BY <1>2, <1>8, <1>10, <1>12, InCovered
<1> QED
  BY <1>4, <1>9, <1>11, <1>12

LEMMA AllAccounted == SearchInv => NothingSkipped
<1> SUFFICES ASSUME SearchInv, NEW w \in Workers
             PROVE  Part(w) \subseteq searched[w] \cup Pending(w) \cup Lost(w)
  BY DEF NothingSkipped
<1>1. Complete(w, en2[w], nonce[w], searched[w], Lost(w), InFlight(w), HandOf(w))
  BY DEF SearchInv, EveryWorker, ProgressOf, Progress
<1>2. AheadOf(w, en2[w], nonce[w]) = Ahead(w)
  BY DEF AheadOf, Ahead
<1>3. CASE w \in Gpus
  <2>1. CoveredBy(InFlight(w)) = Queued(w) /\ CoveredBy(HandOf(w)) = InHand(w)
    BY <1>3 DEF CoveredBy, Queued, InHand, InFlight, HandOf
  <2> QED
    BY <1>1, <1>2, <1>3, <2>1 DEF Complete, Pending
<1>4. CASE w \notin Gpus
  BY <1>1, <1>2, <1>4, NothingCovered DEF Complete, Pending, InFlight, HandOf
<1> QED
  BY <1>3, <1>4

(***************************************************************************)
(* The cursors, queues and error counts of all workers keep their types:   *)
(* a nonce cursor never leaves the nonce space, a launch never reaches     *)
(* past its end, and the errors in a row stay below MAX_SCAN_ERRORS.       *)
(***************************************************************************)
THEOREM SearchTypeCorrect == Spec => []TypeOK
<1>1. SearchInv => TypeOK
  BY DEF SearchInv
<1> QED
  BY <1>1, AlwaysInOrder, PTL

(***************************************************************************)
(* No header of a job is hashed twice by the workers (Worker::mine_job of  *)
(* both kinds, pump, device_error), whatever interrupts them.              *)
(***************************************************************************)
THEOREM NoHeaderTwice == Spec => []HashedOnce
  BY AlwaysInOrder, NothingTwice, PTL

(***************************************************************************)
(* No header of a worker's part is skipped: it is searched, ahead of the   *)
(* cursor, in flight, in hand, or was dropped with a device given up.      *)
(***************************************************************************)
THEOREM NoHeaderSkipped == Spec => []NothingSkipped
  BY AlwaysInOrder, AllAccounted, PTL

=============================================================================
