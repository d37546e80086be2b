----------------------------- MODULE ToolsProofs -----------------------------
(***************************************************************************)
(* Proofs about the benchmark (Bench), for any number of cards and any     *)
(* windows to compare, and about the hash's tables when the process exits  *)
(* (HashTables), for any number of threads.                                *)
(***************************************************************************)
EXTENDS Bench, HashTables, FiniteSetTheorems, SequenceTheorems, TLAPS

(***************************************************************************)
(* The benchmark's runs, in order.                                         *)
(***************************************************************************)

\* The window of the i-th run; NoWindow before the first.
WindowOf(i) == IF i \in 1 .. Len(Schedule) THEN Schedule[i] ELSE NoWindow

\* Which run is under way.
Turn == Len(Schedule) - Len(left) + 1

LEMMA ScheduleIsSequence ==
    /\ Schedule \in Seq(Nat \ {NoWindow, Failed}) /\ Len(Schedule) \in Nat \ {0}
<1> DEFINE S == Nat \ {NoWindow, Failed}
           n == Len(BenchWindows)
<1>1. BenchWindows \in Seq(S) /\ n \in Nat \ {0}
  BY BenchAssumption, EmptySeq
<1>2. Reverse(BenchWindows) \in Seq(S) /\ Len(Reverse(BenchWindows)) = n
  <2>1. \A i \in 1 .. n : BenchWindows[(n - i) + 1] \in S
    BY <1>1, ElementOfSeq
  <2> QED
    BY <1>1, <2>1 DEF Reverse
<1>3. CASE n > 1
  BY <1>1, <1>2, <1>3, ConcatProperties DEF Schedule
<1>4. CASE ~(n > 1)
  BY <1>1, <1>4 DEF Schedule
<1> QED
  BY <1>3, <1>4

\* Up and back down, a window is followed by another and then itself again
\* only where the way turns: never with a different one between.
LEMMA NoWindowBetween ==
    ASSUME NEW i \in 1 .. Len(Schedule) - 2, Schedule[i] = Schedule[i + 2]
    PROVE  Schedule[i + 1] = Schedule[i + 2]
<1> DEFINE S == Nat \ {NoWindow, Failed}
           n == Len(BenchWindows)
           R == Reverse(BenchWindows)
<1>1. BenchWindows \in Seq(S) /\ n \in Nat \ {0} /\ Len(Schedule) \in Nat
  BY BenchAssumption, EmptySeq, ScheduleIsSequence
<1>2. R \in Seq(S) /\ Len(R) = n /\ \A j \in 1 .. n : R[j] = BenchWindows[(n - j) + 1]
  <2>1. \A j \in 1 .. n : BenchWindows[(n - j) + 1] \in S
    BY <1>1, ElementOfSeq
  <2> QED
    BY <1>1, <2>1 DEF Reverse
<1>3. \A j, k \in 1 .. n : j # k => BenchWindows[j] # BenchWindows[k]
  BY BenchAssumption
<1>4. CASE n > 1
  <2>1. Schedule = BenchWindows \o R
    BY <1>4 DEF Schedule
  <2>2. /\ Len(Schedule) = n + n
        /\ \A j \in 1 .. n : Schedule[j] = BenchWindows[j]
        /\ \A j \in 1 .. n : Schedule[n + j] = BenchWindows[(n - j) + 1]
    <3> HIDE DEF R
    <3>1. Len(BenchWindows \o R) = n + n
      BY <1>1, <1>2, ConcatProperties, ZenonT(30)
    <3>2. \A j \in 1 .. n : j \in 1 .. n + n /\ n + j \in 1 .. n + n /\ ~(n + j <= n) /\ (n + j) - n = j
      BY <1>1
    <3>3. \A j \in 1 .. n + n : (BenchWindows \o R)[j] = IF j <= n THEN BenchWindows[j] ELSE R[j - n]
      BY <1>1, <1>2, ConcatProperties
    <3>4. \A j \in 1 .. n : (BenchWindows \o R)[j] = BenchWindows[j]
      BY <1>1, <3>2, <3>3
    <3>5. ASSUME NEW j \in 1 .. n PROVE (BenchWindows \o R)[n + j] = R[j]
      <4>1. n + j \in 1 .. n + n /\ ~(n + j <= n) /\ (n + j) - n = j
        BY <3>2
      <4>2. (BenchWindows \o R)[n + j] = R[(n + j) - n]
        BY <3>3, <4>1
      <4> QED
        BY <4>1, <4>2
    <3> QED
      BY <1>2, <2>1, <3>1, <3>4, <3>5
  <2> HIDE DEF n
  <2>3. CASE i + 2 <= n
    BY <1>1, <1>3, <2>2, <2>3
  <2>4. CASE i = n - 1
    <3>1. i \in 1 .. n /\ n \in 1 .. n /\ 1 \in 1 .. n /\ i + 2 = n + 1 /\ i # n /\ (n - 1) + 1 = n
      BY <1>1, <1>4, <2>4
    <3>2. Schedule[i] = BenchWindows[i] /\ Schedule[i + 2] = BenchWindows[(n - 1) + 1]
      BY <2>2, <3>1
    <3> QED
      BY <1>3, <3>1, <3>2
  <2>5. CASE i = n
    <3>1. n \in 1 .. n /\ 2 \in 1 .. n /\ (n - 2) + 1 \in 1 .. n /\ (n - 2) + 1 # n
      BY <1>1, <1>4
    <3>2. Schedule[i] = BenchWindows[n] /\ Schedule[i + 2] = BenchWindows[(n - 2) + 1]
      BY <2>2, <2>5, <3>1
    <3> QED
      BY <1>3, <3>1, <3>2
  <2>6. CASE i > n
    <3> DEFINE j == i - n
    <3>1. /\ j \in 1 .. n /\ j + 2 \in 1 .. n /\ i = n + j /\ i + 2 = n + (j + 2)
          /\ (n - j) + 1 \in 1 .. n /\ (n - (j + 2)) + 1 \in 1 .. n /\ (n - j) + 1 # (n - (j + 2)) + 1
      BY <1>1, <2>2, <2>6
    <3>2. Schedule[i] = BenchWindows[(n - j) + 1] /\ Schedule[i + 2] = BenchWindows[(n - (j + 2)) + 1]
      BY <2>2, <3>1
    <3> QED
      BY <1>3, <3>1, <3>2
  <2> QED
    BY <1>1, <2>3, <2>4, <2>5, <2>6
<1>5. CASE ~(n > 1)
  BY <1>1, <1>5 DEF Schedule
<1> QED
  BY <1>4, <1>5

\* Three runs in a row.
LEMMA ThreeRuns ==
    ASSUME NEW t \in 1 .. Len(Schedule)
    PROVE  /\ WindowOf(t) \in Nat \ {NoWindow, Failed}
           /\ WindowOf(t - 2) = WindowOf(t) => WindowOf(t - 1) = WindowOf(t)
<1>1. Schedule \in Seq(Nat \ {NoWindow, Failed}) /\ Len(Schedule) \in Nat \ {0}
  BY ScheduleIsSequence
<1>2. WindowOf(t) = Schedule[t] /\ WindowOf(t) \in Nat \ {NoWindow, Failed}
  BY <1>1, ElementOfSeq DEF WindowOf
<1>3. CASE t <= 2
  BY <1>1, <1>2, <1>3 DEF WindowOf
<1>4. CASE t > 2
  <2>1. /\ t - 2 \in 1 .. Len(Schedule) - 2 /\ (t - 2) + 1 = t - 1 /\ (t - 2) + 2 = t
        /\ t - 2 \in 1 .. Len(Schedule) /\ t - 1 \in 1 .. Len(Schedule)
    BY <1>1, <1>4
  <2>2. WindowOf(t - 2) = Schedule[t - 2] /\ WindowOf(t - 1) = Schedule[t - 1]
    BY <2>1 DEF WindowOf
  <2> QED
    BY <1>2, <2>1, <2>2, NoWindowBetween
<1> QED
  BY <1>1, <1>2, <1>3, <1>4

-----------------------------------------------------------------------------
(***************************************************************************)
(* One card, seen from the benchmark: at stage st of a run of window c,    *)
(* after runs of windows a and b, with the slot's word sl and the worker   *)
(* wk busy with window wn or having the kernel kn.  out says that some     *)
(* wait gave the card up, lt that this run's wait timed out, fl is the     *)
(* card's flag, and gn says that its device stopped answering in this run. *)
(*                                                                         *)
(* Unless it was given up, a card answers in every run, so it is never     *)
(* more than two runs behind; and a window two runs back is not this one's *)
(* with another in between (NoWindowBetween).                              *)
(***************************************************************************)
CardOK(st, out, lt, fl, gn, a, b, c, sl, wk, wn, kn) ==
    /\ ~gn /\ sl \notin {NoWindow, Failed} => kn = sl
    /\ wk = "loads" => sl = NoWindow /\ kn = NoWindow
    /\ ~out /\ wk \in {"asked", "loads"} =>
          /\ st \in {"reset", "ask"} => wn \in {a, b}
          /\ st = "ask" /\ sl # NoWindow => wn = b
          /\ st \in {"block", "wait"} => wn \in {a, b, c}
          /\ st \in {"block", "wait"} /\ sl # NoWindow => wn \in {b, c}
          /\ st = "measure" => wn \in {b, c}
    /\ ~out /\ st = "ask" /\ sl \notin {NoWindow, Failed} => sl \in {a, b}
    /\ ~out /\ st \in {"ask", "block", "wait"} /\ sl = c /\ wk = "asked" => wn = c
    /\ ~out /\ st = "measure" /\ ~lt /\ ~fl => (gn \/ kn = c) /\ (wk = "asked" => wn = c)

CardInv(g) ==
    CardOK(stage, g \in missed, late, flags[g], g \in went,
           WindowOf(Turn - 2), WindowOf(Turn - 1), WindowOf(Turn), slotBc3[g], work[g], want[g], kernel[g])

\* The runs still to come are the end of the schedule, and the window asked for
\* is this run's once it is set.
RunsInOrder ==
    /\ left \in Seq(Nat \ {NoWindow, Failed}) /\ Len(left) <= Len(Schedule)
    /\ \A i \in 1 .. Len(left) : left[i] = Schedule[Len(Schedule) - Len(left) + i]
    /\ stage # "done" => left # <<>>
    /\ stage \in {"reset", "ask"} => asked = WindowOf(Turn - 1)
    /\ stage \in {"block", "wait", "measure"} => asked = WindowOf(Turn)

Works == {"idle", "asked", "loads", "mines", "reopens", "ended"}

CardFunctions ==
    /\ stage \in {"reset", "ask", "block", "wait", "measure", "done"}
    /\ slotBc3 \in [BenchGpus -> Nat] /\ want \in [BenchGpus -> Nat]
    /\ kernel \in [BenchGpus -> Nat] /\ asked \in Nat
    /\ work \in [BenchGpus -> Works]

BenchInv == CardFunctions /\ RunsInOrder /\ \A g \in BenchGpus : CardInv(g)

\* This run's window.
LEMMA ThisRun ==
    ASSUME RunsInOrder, stage # "done"
    PROVE  Turn \in 1 .. Len(Schedule) /\ Window = WindowOf(Turn)
<1>1. Len(Schedule) \in Nat /\ left \in Seq(Nat \ {NoWindow, Failed}) /\ left # <<>> /\ Len(left) \in Nat \ {0}
  BY ScheduleIsSequence, EmptySeq DEF RunsInOrder
<1>2. Turn \in 1 .. Len(Schedule)
  BY <1>1 DEF RunsInOrder, Turn
<1>3. Head(left) = left[1] /\ 1 \in 1 .. Len(left)
  BY <1>1, HeadTailProperties
<1>4. left[1] = Schedule[Turn]
  BY <1>1, <1>3 DEF RunsInOrder, Turn
<1> QED
  BY <1>2, <1>3, <1>4 DEF Window, WindowOf

LEMMA BenchStarts == BenchInit => BenchInv
<1> SUFFICES ASSUME BenchInit PROVE BenchInv
  OBVIOUS
<1>1. left = Schedule /\ Schedule \in Seq(Nat \ {NoWindow, Failed}) /\ Len(Schedule) \in Nat \ {0}
  BY ScheduleIsSequence DEF BenchInit
<1>2. Turn = 1
  BY <1>1 DEF Turn
<1>3. RunsInOrder
  <2>1. left # <<>>
    BY <1>1, EmptySeq
  <2>2. WindowOf(Turn - 1) = NoWindow
    BY <1>1, <1>2 DEF WindowOf
  <2> QED
    BY <1>1, <1>2, <2>1, <2>2 DEF RunsInOrder, BenchInit
<1>4. CardFunctions
  BY DEF CardFunctions, BenchInit, NoWindow, Works
<1>5. \A g \in BenchGpus : CardInv(g)
  BY DEF CardInv, CardOK, BenchInit
<1> QED
  BY <1>3, <1>4, <1>5 DEF BenchInv

\* What a card may do at any stage, one lemma for each of its steps.
LEMMA CardTakes ==
    ASSUME NEW st, NEW out, NEW lt, NEW fl, NEW gn, NEW a, NEW b, NEW c, NEW sl, NEW wk, NEW wn, NEW kn, NEW ask,
           CardOK(st, out, lt, fl, gn, a, b, c, sl, wk, wn, kn), wk \in {"idle", "mines"},
           st \in {"reset", "ask"} => ask = b, st \in {"block", "wait", "measure"} => ask = c,
           st # "done" => c \notin {NoWindow, Failed} /\ (a = c => b = c)
    PROVE  CardOK(st, out, lt, fl, gn, a, b, c, sl, "asked", ask, kn)
  BY DEF CardOK

LEMMA CardSaysAgain ==
    ASSUME NEW st, NEW out, NEW lt, NEW fl, NEW gn, NEW a, NEW b, NEW c, NEW sl, NEW wn, NEW kn,
           NEW wk \in {"idle", "mines"}, NEW none,
           CardOK(st, out, lt, fl, gn, a, b, c, sl, "asked", wn, kn)
    PROVE  CardOK(st, out, lt, fl, gn, a, b, c, IF kn = wn THEN wn ELSE Failed, wk, none, kn)
  BY DEF CardOK

LEMMA CardUnloads ==
    ASSUME NEW st, NEW out, NEW lt, NEW fl, NEW gn, NEW a, NEW b, NEW c, NEW sl, NEW wn, NEW kn,
           CardOK(st, out, lt, fl, gn, a, b, c, sl, "asked", wn, kn), wn # kn
    PROVE  CardOK(st, out, lt, fl, gn, a, b, c, NoWindow, "loads", wn, NoWindow)
  BY DEF CardOK, NoWindow

LEMMA CardLoads ==
    ASSUME NEW st, NEW out, NEW lt, NEW fl, NEW gn, NEW a, NEW b, NEW c, NEW sl, NEW wn, NEW kn,
           NEW ok \in BOOLEAN, NEW wk \in {"idle", "mines"}, NEW none,
           CardOK(st, out, lt, fl, gn, a, b, c, sl, "loads", wn, kn),
           st # "done" => c \notin {NoWindow, Failed}
    PROVE  CardOK(st, out, lt, fl, gn, a, b, c, IF ok THEN wn ELSE Failed, wk, none, IF ok THEN wn ELSE NoWindow)
  BY DEF CardOK, NoWindow, Failed

LEMMA CardGoes ==
    ASSUME NEW st, NEW out, NEW lt, NEW fl, NEW gn, NEW a, NEW b, NEW c, NEW sl, NEW wn, NEW kn,
           NEW wk \in {"reopens", "ended"}, NEW none,
           CardOK(st, out, lt, fl, gn, a, b, c, sl, "mines", wn, kn)
    PROVE  CardOK(st, out, lt, fl, TRUE, a, b, c, sl, wk, wn, none)
  BY DEF CardOK

LEMMA CardReopens ==
    ASSUME NEW st, NEW out, NEW lt, NEW fl, NEW gn, NEW a, NEW b, NEW c, NEW sl, NEW wn, NEW kn,
           CardOK(st, out, lt, fl, gn, a, b, c, sl, "reopens", wn, kn),
           st # "done" => c \notin {NoWindow, Failed}
    PROVE  /\ CardOK(st, out, lt, fl, gn, a, b, c, NoWindow, "idle", wn, kn)
           /\ CardOK(st, out, lt, fl, gn, a, b, c, sl, "ended", wn, kn)
  BY DEF CardOK, NoWindow

\* A card's step leaves the benchmark and the other cards alone.
LEMMA CardKeeps ==
    ASSUME BenchInv, NEW g \in BenchGpus, CardStep(g)
    PROVE  BenchInv'
<1> DEFINE a == WindowOf(Turn - 2)
           b == WindowOf(Turn - 1)
           c == WindowOf(Turn)
<1>1. CardFunctions /\ RunsInOrder /\ \A o \in BenchGpus : CardInv(o)
  BY DEF BenchInv
<1>2. UNCHANGED <<stage, left, asked, flags, late, missed, went>>
  BY DEF CardStep, TakeJob, SayAgain, StartLoading, EndLoading, Reopens, CannotReopen, askVars
<1>3. RunsInOrder' /\ Turn' = Turn
  BY <1>1, <1>2 DEF RunsInOrder, Turn
<1>4. stage # "done" => c \notin {NoWindow, Failed} /\ (a = c => b = c)
  BY <1>1, ThisRun, ThreeRuns
<1>5. /\ stage \in {"reset", "ask"} => asked = b
      /\ stage \in {"block", "wait", "measure"} => asked = c
  BY <1>1 DEF RunsInOrder
<1>6. CardOK(stage, g \in missed, late, flags[g], g \in went, a, b, c, slotBc3[g], work[g], want[g], kernel[g])
  BY <1>1 DEF CardInv
<1> HIDE DEF a, b, c
<1>7. SUFFICES
        /\ slotBc3' \in [BenchGpus -> Nat] /\ want' \in [BenchGpus -> Nat] /\ kernel' \in [BenchGpus -> Nat]
        /\ work' \in [BenchGpus -> Works]
        /\ \A o \in BenchGpus \ {g} : /\ slotBc3'[o] = slotBc3[o] /\ want'[o] = want[o]
                                      /\ kernel'[o] = kernel[o] /\ work'[o] = work[o]
        /\ CardOK(stage, g \in missed, late, flags[g], g \in went, a, b, c, slotBc3'[g], work'[g], want'[g], kernel'[g])
  <2>1. ASSUME slotBc3' \in [BenchGpus -> Nat], want' \in [BenchGpus -> Nat], kernel' \in [BenchGpus -> Nat],
               work' \in [BenchGpus -> Works],
               \A o \in BenchGpus \ {g} : /\ slotBc3'[o] = slotBc3[o] /\ want'[o] = want[o]
                                          /\ kernel'[o] = kernel[o] /\ work'[o] = work[o],
               CardOK(stage, g \in missed, late, flags[g], g \in went, a, b, c, slotBc3'[g], work'[g], want'[g], kernel'[g])
        PROVE  BenchInv'
    <3>1. CardFunctions'
      BY <1>1, <1>2, <2>1 DEF CardFunctions
    <3>2. CardInv(g)'
      BY <1>2, <1>3, <2>1 DEF CardInv, a, b, c
    <3>3. \A o \in BenchGpus \ {g} : CardInv(o)'
      BY <1>1, <1>2, <1>3, <2>1 DEF CardInv
    <3> QED
      BY <1>3, <3>1, <3>2, <3>3 DEF BenchInv
  <2> QED
    BY <2>1
<1>8. CASE TakeJob(g)
  <2>1. /\ work[g] \in {"idle", "mines"} /\ work' = [work EXCEPT ![g] = "asked"]
        /\ want' = [want EXCEPT ![g] = asked] /\ UNCHANGED <<slotBc3, kernel>>
    BY <1>8 DEF TakeJob
  <2>2. CardOK(stage, g \in missed, late, flags[g], g \in went, a, b, c, slotBc3[g], "asked", asked, kernel[g])
    BY <1>4, <1>5, <1>6, <2>1, CardTakes
  <2> QED
    BY <1>1, <2>1, <2>2 DEF CardFunctions, Works
<1>9. CASE SayAgain(g)
  <2> DEFINE sl == IF kernel[g] = want[g] THEN want[g] ELSE Failed
             wk == IF kernel[g] = want[g] THEN "mines" ELSE "idle"
  <2>1. /\ work[g] = "asked" /\ slotBc3' = [slotBc3 EXCEPT ![g] = sl] /\ work' = [work EXCEPT ![g] = wk]
        /\ want' = [want EXCEPT ![g] = NoWindow] /\ UNCHANGED kernel
    BY <1>9 DEF SayAgain
  <2>2. wk \in {"idle", "mines"} /\ wk \in Works /\ sl \in Nat /\ NoWindow \in Nat
    BY <1>1 DEF CardFunctions, Failed, NoWindow, Works
  <2>3. CardOK(stage, g \in missed, late, flags[g], g \in went, a, b, c, sl, wk, NoWindow, kernel[g])
    BY <1>6, <2>1, <2>2, CardSaysAgain
  <2> HIDE DEF sl, wk
  <2> QED
    BY <1>1, <2>1, <2>2, <2>3 DEF CardFunctions
<1>10. CASE StartLoading(g)
  <2>1. /\ work[g] = "asked" /\ want[g] # kernel[g] /\ slotBc3' = [slotBc3 EXCEPT ![g] = NoWindow]
        /\ work' = [work EXCEPT ![g] = "loads"] /\ kernel' = [kernel EXCEPT ![g] = NoWindow] /\ UNCHANGED want
    BY <1>10 DEF StartLoading
  <2>2. CardOK(stage, g \in missed, late, flags[g], g \in went, a, b, c, NoWindow, "loads", want[g], NoWindow)
    BY <1>6, <2>1, CardUnloads
  <2>3. NoWindow \in Nat
    BY DEF NoWindow
  <2> QED
    BY <1>1, <2>1, <2>2, <2>3 DEF CardFunctions, Works
<1>11. CASE \E k \in BOOLEAN : EndLoading(g, k)
  <2>0. PICK ok \in BOOLEAN : EndLoading(g, ok)
    BY <1>11
  <2> DEFINE sl == IF ok THEN want[g] ELSE Failed
             kn == IF ok THEN want[g] ELSE NoWindow
             wk == IF ok THEN "mines" ELSE "idle"
  <2>1. /\ work[g] = "loads" /\ slotBc3' = [slotBc3 EXCEPT ![g] = sl] /\ work' = [work EXCEPT ![g] = wk]
        /\ want' = [want EXCEPT ![g] = NoWindow] /\ kernel' = [kernel EXCEPT ![g] = kn]
    BY <2>0 DEF EndLoading
  <2>2. wk \in {"idle", "mines"} /\ wk \in Works /\ sl \in Nat /\ kn \in Nat /\ NoWindow \in Nat
    BY <1>1 DEF CardFunctions, Failed, NoWindow, Works
  <2>3. CardOK(stage, g \in missed, late, flags[g], g \in went, a, b, c, sl, wk, NoWindow, kn)
    <3> HIDE DEF wk
    <3> QED
      BY <1>4, <1>6, <2>1, <2>2, CardLoads
  <2> HIDE DEF sl, kn, wk
  <2> QED
    BY <1>1, <2>1, <2>2, <2>3 DEF CardFunctions
<1>12. CASE Reopens(g)
  <2>1. /\ work[g] = "reopens" /\ work' = [work EXCEPT ![g] = "idle"]
        /\ slotBc3' = [slotBc3 EXCEPT ![g] = NoWindow] /\ UNCHANGED <<want, kernel>>
    BY <1>12 DEF Reopens
  <2>2. CardOK(stage, g \in missed, late, flags[g], g \in went, a, b, c, NoWindow, "idle", want[g], kernel[g])
    BY <1>4, <1>6, <2>1, CardReopens
  <2>3. NoWindow \in Nat
    BY DEF NoWindow
  <2> QED
    BY <1>1, <2>1, <2>2, <2>3 DEF CardFunctions, Works
<1>13. CASE CannotReopen(g)
  <2>1. /\ work[g] = "reopens" /\ work' = [work EXCEPT ![g] = "ended"]
        /\ UNCHANGED <<slotBc3, want, kernel>>
    BY <1>13 DEF CannotReopen
  <2>2. CardOK(stage, g \in missed, late, flags[g], g \in went, a, b, c, slotBc3[g], "ended", want[g], kernel[g])
    BY <1>4, <1>6, <2>1, CardReopens
  <2> QED
    BY <1>1, <2>1, <2>2 DEF CardFunctions, Works
<1> QED
  BY <1>8, <1>9, <1>10, <1>11, <1>12, <1>13 DEF CardStep

\* A device that stops answering leaves its slot's word, and the run remembers it.
LEMMA GoneKeeps ==
    ASSUME BenchInv, NEW g \in BenchGpus, NEW cameBack \in BOOLEAN, DeviceGone(g, cameBack)
    PROVE  BenchInv'
<1>1. CardFunctions /\ RunsInOrder /\ \A o \in BenchGpus : CardInv(o)
  BY DEF BenchInv
<1>2. /\ UNCHANGED <<stage, left, asked, flags, late, missed, slotBc3, want>>
      /\ work[g] = "mines" /\ kernel' = [kernel EXCEPT ![g] = NoWindow] /\ went' = went \cup {g}
  BY DEF DeviceGone, askVars
<1>3. PICK wk \in {"reopens", "ended"} : work' = [work EXCEPT ![g] = wk]
  BY DEF DeviceGone
<1>4. RunsInOrder' /\ Turn' = Turn
  BY <1>1, <1>2 DEF RunsInOrder, Turn
<1>5. CardFunctions'
  BY <1>1, <1>2, <1>3 DEF CardFunctions, Works, NoWindow
<1>6. CardInv(g)'
  <2> DEFINE a == WindowOf(Turn - 2)
             b == WindowOf(Turn - 1)
             c == WindowOf(Turn)
  <2>1. CardOK(stage, g \in missed, late, flags[g], g \in went, a, b, c, slotBc3[g], "mines", want[g], kernel[g])
    BY <1>1, <1>2 DEF CardInv
  <2>2. CardOK(stage, g \in missed, late, flags[g], TRUE, a, b, c, slotBc3[g], wk, want[g], NoWindow)
    BY <2>1, CardGoes
  <2>3. kernel'[g] = NoWindow /\ work'[g] = wk /\ (g \in went') = TRUE
    BY <1>1, <1>2, <1>3 DEF CardFunctions
  <2> QED
    BY <1>2, <1>4, <2>2, <2>3 DEF CardInv
<1>7. ASSUME NEW o \in BenchGpus \ {g} PROVE CardInv(o)'
  <2>1. kernel'[o] = kernel[o] /\ work'[o] = work[o] /\ (o \in went' <=> o \in went)
    BY <1>1, <1>2, <1>3 DEF CardFunctions
  <2> QED
    BY <1>1, <1>2, <1>4, <2>1 DEF CardInv, CardOK
<1> QED
  BY <1>4, <1>5, <1>6, <1>7 DEF BenchInv

\* The benchmark's steps.
LEMMA RunKeeps ==
    ASSUME BenchInv, RunStep \/ AnotherJob \/ GiveUp
    PROVE  BenchInv'
<1>1. CardFunctions /\ RunsInOrder /\ \A g \in BenchGpus : CardInv(g)
  BY DEF BenchInv
<1>2. stage # "done" /\ UNCHANGED <<work, want, kernel>>
  BY DEF RunStep, AnotherJob, GiveUp, ResetSlots, SetWindow, NewBlock, WaitReady, EndMeasure, cardVars, askVars
<1>3. Turn \in 1 .. Len(Schedule) /\ Window = WindowOf(Turn) /\ WindowOf(Turn) \in Nat \ {NoWindow, Failed}
  BY <1>1, <1>2, ThisRun, ThreeRuns
<1>4. CASE ResetSlots
  <2>1. /\ stage = "reset" /\ stage' = "ask" /\ slotBc3' = [g \in BenchGpus |-> NoWindow]
        /\ went' = {} /\ UNCHANGED <<left, asked, flags, late, missed>>
    BY <1>4 DEF ResetSlots
  <2>2. CardFunctions' /\ RunsInOrder' /\ Turn' = Turn
    BY <1>1, <1>2, <2>1 DEF CardFunctions, RunsInOrder, Turn, NoWindow
  <2>3. \A g \in BenchGpus : CardInv(g)'
    BY <1>1, <1>2, <1>3, <2>1, <2>2 DEF CardInv, CardOK
  <2> QED
    BY <2>2, <2>3 DEF BenchInv
<1>5. CASE SetWindow
  <2>1. /\ stage = "ask" /\ stage' = "block" /\ asked' = WindowOf(Turn)
        /\ UNCHANGED <<left, slotBc3, flags, late, missed, went>>
    BY <1>3, <1>5 DEF SetWindow
  <2>2. CardFunctions' /\ RunsInOrder' /\ Turn' = Turn
    BY <1>1, <1>2, <1>3, <2>1 DEF CardFunctions, RunsInOrder, Turn
  <2>3. \A g \in BenchGpus : CardInv(g)'
    BY <1>1, <1>2, <1>3, <2>1, <2>2 DEF CardInv, CardOK
  <2> QED
    BY <2>2, <2>3 DEF BenchInv
<1>6. CASE NewBlock
  <2>1. stage = "block" /\ stage' = "wait" /\ UNCHANGED <<left, asked, slotBc3, flags, late, missed, went>>
    BY <1>6 DEF NewBlock
  <2>2. CardFunctions' /\ RunsInOrder' /\ Turn' = Turn
    BY <1>1, <1>2, <2>1 DEF CardFunctions, RunsInOrder, Turn
  <2>3. \A g \in BenchGpus : CardInv(g)'
    BY <1>1, <1>2, <2>1, <2>2 DEF CardInv, CardOK
  <2> QED
    BY <2>2, <2>3 DEF BenchInv
<1>7. CASE AnotherJob
  <2>1. UNCHANGED <<stage, left, asked, slotBc3, flags, late, missed, went>>
    BY <1>7 DEF AnotherJob, askVars
  <2>2. CardFunctions' /\ RunsInOrder' /\ Turn' = Turn
    BY <1>1, <1>2, <2>1 DEF CardFunctions, RunsInOrder, Turn
  <2>3. \A g \in BenchGpus : CardInv(g)'
    BY <1>1, <1>2, <2>1, <2>2 DEF CardInv
  <2> QED
    BY <2>2, <2>3 DEF BenchInv
<1>8. CASE WaitReady
  <2>1. /\ stage = "wait" /\ stage' = "measure" /\ Pending = {}
        /\ flags' = [g \in BenchGpus |-> slotBc3[g] = Failed]
        /\ UNCHANGED <<left, asked, slotBc3, missed, went>>
    BY <1>8 DEF WaitReady
  <2>2. CardFunctions' /\ RunsInOrder' /\ Turn' = Turn
    BY <1>1, <1>2, <2>1 DEF CardFunctions, RunsInOrder, Turn
  <2>3. ASSUME NEW g \in BenchGpus PROVE CardInv(g)'
    <3>1. slotBc3[g] \in {WindowOf(Turn), Failed}
      BY <1>3, <2>1 DEF Pending
    <3>2. flags'[g] = (slotBc3[g] = Failed)
      BY <2>1
    <3>3. slotBc3[g] # NoWindow
      BY <1>3, <3>1 DEF Failed, NoWindow
    <3> QED
      BY <1>1, <1>2, <1>3, <2>1, <2>2, <3>1, <3>2, <3>3 DEF CardInv, CardOK
  <2> QED
    BY <2>2, <2>3 DEF BenchInv
<1>9. CASE GiveUp
  <2>1. /\ stage = "wait" /\ stage' = "measure" /\ late' = TRUE /\ missed' = missed \cup Pending
        /\ UNCHANGED <<left, asked, slotBc3, went>>
    BY <1>9 DEF GiveUp
  <2>2. CardFunctions' /\ RunsInOrder' /\ Turn' = Turn
    BY <1>1, <1>2, <2>1 DEF CardFunctions, RunsInOrder, Turn
  <2>3. ASSUME NEW g \in BenchGpus PROVE CardInv(g)'
    <3>1. g \notin missed' => g \notin missed /\ slotBc3[g] \in {WindowOf(Turn), Failed}
      BY <1>3, <2>1 DEF Pending
    <3>2. g \notin missed' => slotBc3[g] # NoWindow
      BY <1>3, <3>1 DEF Failed, NoWindow
    <3> QED
      BY <1>1, <1>2, <1>3, <2>1, <2>2, <3>1, <3>2 DEF CardInv, CardOK
  <2> QED
    BY <2>2, <2>3 DEF BenchInv
<1>10. CASE EndMeasure
  <2>1. /\ stage = "measure" /\ left' = Tail(left) /\ stage' = IF Tail(left) = <<>> THEN "done" ELSE "reset"
        /\ UNCHANGED <<asked, slotBc3, missed, went>>
    BY <1>10 DEF EndMeasure
  <2>2. /\ left \in Seq(Nat \ {NoWindow, Failed}) /\ left # <<>> /\ Len(left) \in Nat \ {0}
        /\ Len(left) <= Len(Schedule) /\ Len(Schedule) \in Nat
        /\ \A i \in 1 .. Len(left) : left[i] = Schedule[Len(Schedule) - Len(left) + i]
        /\ asked = WindowOf(Turn)
    BY <1>1, <1>2, <2>1, EmptySeq, ScheduleIsSequence DEF RunsInOrder
  <2>3. /\ left' \in Seq(Nat \ {NoWindow, Failed}) /\ Len(left') = Len(left) - 1
        /\ \A i \in 1 .. Len(left') : left'[i] = left[i + 1]
    BY <2>1, <2>2, HeadTailProperties
  <2>4. \A i \in 1 .. Len(left') : left'[i] = Schedule[Len(Schedule) - Len(left') + i]
    <3>1. ASSUME NEW i \in 1 .. Len(left') PROVE left'[i] = Schedule[Len(Schedule) - Len(left') + i]
      <4>1. /\ i + 1 \in 1 .. Len(left)
            /\ Len(Schedule) - Len(left) + (i + 1) = Len(Schedule) - Len(left') + i
        BY <2>2, <2>3
      <4> QED
        BY <2>2, <2>3, <4>1
    <3> QED
      BY <3>1
  <2>5. Turn' = Turn + 1 /\ Turn' - 1 = Turn /\ Turn' - 2 = Turn - 1
    BY <2>2, <2>3 DEF Turn
  <2>6. RunsInOrder'
    BY <1>2, <2>1, <2>2, <2>3, <2>4, <2>5, SMTT(20) DEF RunsInOrder
  <2>7. CardFunctions'
    BY <1>1, <1>2, <2>1 DEF CardFunctions
  <2>8. ASSUME NEW g \in BenchGpus PROVE CardInv(g)'
    <3>1. /\ WindowOf(Turn' - 2) = WindowOf(Turn - 1) /\ WindowOf(Turn' - 1) = WindowOf(Turn)
          /\ stage' \in {"done", "reset"}
      BY <2>1, <2>5
    <3> QED
      BY <1>1, <1>2, <2>1, <3>1 DEF CardInv, CardOK
  <2> QED
    BY <2>6, <2>7, <2>8 DEF BenchInv
<1> QED
  BY <1>4, <1>5, <1>6, <1>7, <1>8, <1>9, <1>10 DEF RunStep

LEMMA BenchKeeps == BenchInv /\ [BenchNext]_benchVars => BenchInv'
<1> SUFFICES ASSUME BenchInv, [BenchNext]_benchVars PROVE BenchInv'
  OBVIOUS
<1>1. CASE UNCHANGED benchVars
  BY <1>1 DEF benchVars, cardVars, askVars, BenchInv, CardFunctions, RunsInOrder, CardInv, Turn
<1> QED
  BY <1>1, CardKeeps, GoneKeeps, RunKeeps DEF BenchNext

(***************************************************************************)
(* What the benchmark measures for a window (run, wait_ready, measure) is  *)
(* that window, for every card that no wait has given up and whose device  *)
(* has not stopped answering in this run, however often it did before: the *)
(* word its prepare_bc3 left in the slot is of the kernel it mines with,   *)
(* and it has no other window left to switch to.                           *)
(***************************************************************************)
THEOREM BenchMeasuresItsWindow == BenchSpec => []RowsAreOfTheirWindow
<1>1. BenchInv => RowsAreOfTheirWindow
  <2> SUFFICES ASSUME BenchInv, stage = "measure", ~late, NEW g \in BenchGpus \ (missed \cup went), ~flags[g]
               PROVE  kernel[g] = Window
    BY DEF RowsAreOfTheirWindow
  <2>1. Window = WindowOf(Turn)
    BY ThisRun DEF BenchInv
  <2> QED
    BY <2>1 DEF BenchInv, CardInv, CardOK
<1> QED
  BY <1>1, BenchStarts, BenchKeeps, PTL DEF BenchSpec

-----------------------------------------------------------------------------
(***************************************************************************)
(* The tables and the exit.                                                *)
(***************************************************************************)
Early == {"tables", "test", "testing", "tested"}
Building == Early \cup {"registered"}

NoHandlers == <<>>
TablesHandler == <<"tables">>
StaticsHandlers == <<"tables", "fold">>
AllHandlers == <<"tables", "fold", "stop">>

HashFunctions ==
    /\ doing \in [HashThreads -> {"out", "tables", "test", "testing", "tested", "registered", "hash"}]
    /\ ready \in {"unset", "building", "ok", "err"} /\ writer \in {"none", "waiting", "held"}
    /\ build \in {"good", "wrong", "noMemory"} /\ exiting \in BOOLEAN /\ orderly \in BOOLEAN

\* READY lets one thread build, and the others wait for it.
OneBuilder ==
    /\ \A t \in HashThreads : doing[t] \in Building => ready = "building"
    /\ \A t, u \in HashThreads : doing[t] \in Building /\ doing[u] \in Building => t = u
    /\ ready = "building" => \E t \in HashThreads : doing[t] \in Building

\* Only a build that passed the vectors gets past the self-test.
OnlyGoodBuilds ==
    /\ \A t \in HashThreads : doing[t] \in {"test", "testing"} => build # "noMemory"
    /\ \A t \in HashThreads : doing[t] \in {"tested", "registered"} => build = "good"
    /\ \A t \in HashThreads : doing[t] = "hash" => ready = "ok"
    /\ ready = "ok" => build = "good"

\* How far the builder is says which statics have been built ...
BuiltSoFar ==
    /\ ready = "unset" => built = {}
    /\ ready = "ok" => built = Statics
    /\ \A t \in HashThreads :
          /\ doing[t] = "tables" => built = {}
          /\ doing[t] = "test" => built = {"tables"}
          /\ doing[t] \in {"testing", "tested", "registered"} => built = Statics

\* ... and, before exit, which handlers are registered, in which order.
HandlersSoFar ==
    ~exiting =>
        /\ statics = built /\ writer = "none" /\ ~orderly
        /\ ready = "unset" => handlers = NoHandlers
        /\ ready = "ok" => handlers = AllHandlers
        /\ ready = "err" => handlers \in {NoHandlers, StaticsHandlers}
        /\ \A t \in HashThreads :
              /\ doing[t] = "tables" => handlers = NoHandlers
              /\ doing[t] = "test" => handlers = TablesHandler
              /\ doing[t] \in {"testing", "tested"} => handlers = StaticsHandlers
              /\ doing[t] = "registered" => handlers = AllHandlers

\* An exit after stop_hashing was registered: its lock comes before any
\* destructor, and no hash after it.
StopsFirst ==
    orderly =>
        /\ ready \in {"building", "ok"} /\ \A t \in HashThreads : doing[t] \notin Early
        /\ built = Statics
        /\ writer # "held" => handlers = AllHandlers /\ statics = Statics
        /\ writer = "held" => Readers = {}

HashInv == HashFunctions /\ OneBuilder /\ OnlyGoodBuilds /\ BuiltSoFar /\ HandlersSoFar /\ StopsFirst

LEMMA HandlerFacts ==
    /\ "stop" \notin ToSet(NoHandlers) /\ "stop" \notin ToSet(TablesHandler) /\ "stop" \notin ToSet(StaticsHandlers)
    /\ AllHandlers # <<>> /\ Last(AllHandlers) = "stop"
    /\ Append(NoHandlers, "tables") = TablesHandler
    /\ Append(TablesHandler, "fold") = StaticsHandlers
    /\ Append(StaticsHandlers, "stop") = AllHandlers
<1>1. "stop" \notin ToSet(NoHandlers) /\ "stop" \notin ToSet(TablesHandler) /\ "stop" \notin ToSet(StaticsHandlers)
  BY DEF ToSet, NoHandlers, TablesHandler, StaticsHandlers
<1>2. AllHandlers # <<>> /\ Last(AllHandlers) = "stop"
  BY DEF Last, AllHandlers
<1> DEFINE S == {"tables", "fold", "stop"}
<1>3. /\ NoHandlers \in Seq(S) /\ Len(NoHandlers) = 0
      /\ TablesHandler \in Seq(S) /\ Len(TablesHandler) = 1
      /\ StaticsHandlers \in Seq(S) /\ Len(StaticsHandlers) = 2
      /\ AllHandlers \in Seq(S) /\ Len(AllHandlers) = 3
  BY EmptySeq DEF NoHandlers, TablesHandler, StaticsHandlers, AllHandlers
<1>a. ASSUME NEW s \in Seq(S), NEW e \in S
      PROVE  /\ Append(s, e) \in Seq(S) /\ Len(Append(s, e)) = Len(s) + 1 /\ Append(s, e)[Len(s) + 1] = e
             /\ \A i \in 1 .. Len(s) : Append(s, e)[i] = s[i]
  <2> HIDE DEF S
  <2> QED
    BY AppendProperties
<1>b. "tables" \in S /\ "fold" \in S /\ "stop" \in S
  OBVIOUS
<1> HIDE DEF S
<1>4. Append(NoHandlers, "tables") = TablesHandler
  <2> DEFINE r == Append(NoHandlers, "tables")
  <2>1. /\ r \in Seq(S) /\ Len(r) = Len(NoHandlers) + 1 /\ r[Len(NoHandlers) + 1] = "tables"
        /\ \A i \in 1 .. Len(NoHandlers) : r[i] = NoHandlers[i]
    BY <1>3, <1>a, <1>b
  <2> HIDE DEF r
  <2>2. Len(r) = 1 /\ r[1] = "tables"
    BY <1>3, <2>1 DEF NoHandlers
  <2>3. TablesHandler[1] = "tables"
    BY DEF TablesHandler
  <2>4. \A i \in 1 .. Len(r) : i = 1
    BY <2>2
  <2>5. \A i \in 1 .. Len(r) : r[i] = TablesHandler[i]
    BY <2>2, <2>3, <2>4
  <2>6. r = TablesHandler
    BY <1>3, <2>1, <2>2, <2>5, SeqEqual
  <2> QED
    BY <2>6 DEF r
<1>5. Append(TablesHandler, "fold") = StaticsHandlers
  <2> DEFINE r == Append(TablesHandler, "fold")
  <2>1. /\ r \in Seq(S) /\ Len(r) = Len(TablesHandler) + 1 /\ r[Len(TablesHandler) + 1] = "fold"
        /\ \A i \in 1 .. Len(TablesHandler) : r[i] = TablesHandler[i]
    BY <1>3, <1>a, <1>b
  <2> HIDE DEF r
  <2>2. Len(r) = 2 /\ r[1] = "tables" /\ r[2] = "fold"
    BY <1>3, <2>1 DEF TablesHandler
  <2>3. StaticsHandlers[1] = "tables" /\ StaticsHandlers[2] = "fold"
    BY DEF StaticsHandlers
  <2>4. \A i \in 1 .. Len(r) : i = 1 \/ i = 2
    BY <2>2
  <2>5. \A i \in 1 .. Len(r) : r[i] = StaticsHandlers[i]
    BY <2>2, <2>3, <2>4
  <2>6. r = StaticsHandlers
    BY <1>3, <2>1, <2>2, <2>5, SeqEqual
  <2> QED
    BY <2>6 DEF r
<1>6. Append(StaticsHandlers, "stop") = AllHandlers
  <2> DEFINE r == Append(StaticsHandlers, "stop")
  <2>1. /\ r \in Seq(S) /\ Len(r) = Len(StaticsHandlers) + 1 /\ r[Len(StaticsHandlers) + 1] = "stop"
        /\ \A i \in 1 .. Len(StaticsHandlers) : r[i] = StaticsHandlers[i]
    BY <1>3, <1>a, <1>b
  <2> HIDE DEF r
  <2>2. Len(r) = 3 /\ r[1] = "tables" /\ r[2] = "fold" /\ r[3] = "stop"
    BY <1>3, <2>1 DEF StaticsHandlers
  <2>3. AllHandlers[1] = "tables" /\ AllHandlers[2] = "fold" /\ AllHandlers[3] = "stop"
    BY DEF AllHandlers
  <2>4. \A i \in 1 .. Len(r) : i = 1 \/ i = 2 \/ i = 3
    BY <2>2
  <2>5. \A i \in 1 .. Len(r) : r[i] = AllHandlers[i]
    BY <2>2, <2>3, <2>4
  <2>6. r = AllHandlers
    BY <1>3, <2>1, <2>2, <2>5, SeqEqual
  <2> QED
    BY <2>6 DEF r
<1> QED
  BY <1>1, <1>2, <1>4, <1>5, <1>6

LEMMA HashStarts == HashInit => HashInv
  BY DEF HashInit, HashInv, HashFunctions, OneBuilder, OnlyGoodBuilds, BuiltSoFar, HandlersSoFar, StopsFirst,
         Building, Early, NoHandlers

LEMMA HashKeeps == HashInv /\ [HashNext]_hashVars => HashInv'
<1> SUFFICES ASSUME HashInv, [HashNext]_hashVars PROVE HashInv'
  OBVIOUS
<1> USE DEF HashInv
<1>1. ASSUME NEW t \in HashThreads, StartBuild(t) PROVE HashInv'
  BY <1>1 DEF StartBuild, Go, HashFunctions, OneBuilder, OnlyGoodBuilds, BuiltSoFar, HandlersSoFar, StopsFirst,
              Building, Early, Readers
<1>2. ASSUME NEW t \in HashThreads, BuildTables(t) PROVE HashInv'
  <2>1. /\ doing[t] = "tables" /\ ready = "building" /\ built = {} /\ ~orderly
        /\ \A u \in HashThreads \ {t} : doing[u] \notin Building
        /\ ~exiting => handlers = NoHandlers
    BY <1>2 DEF BuildTables, Go, OneBuilder, BuiltSoFar, HandlersSoFar, StopsFirst, Building, Early, HashFunctions
  <2>2. CASE build = "noMemory"
    BY <1>2, <2>1, <2>2 DEF BuildTables, Go, HashFunctions, OneBuilder, OnlyGoodBuilds, BuiltSoFar,
                            HandlersSoFar, StopsFirst, Building, Early, Readers
  <2>3. CASE build # "noMemory"
    <3>1. /\ doing' = [doing EXCEPT ![t] = "test"] /\ built' = {"tables"}
          /\ statics' = statics \cup {"tables"} /\ handlers' = Append(handlers, "tables")
          /\ UNCHANGED <<build, ready, writer, exiting, orderly, ended>>
      BY <1>2, <2>1, <2>3 DEF BuildTables, Go, Construct
    <3>2. ~exiting => handlers' = TablesHandler /\ statics' = {"tables"}
      BY <2>1, <3>1, HandlerFacts DEF HandlersSoFar
    <3> QED
      BY <2>1, <2>3, <3>1, <3>2 DEF HashFunctions, OneBuilder, OnlyGoodBuilds, BuiltSoFar,
                              HandlersSoFar, StopsFirst, Building, Early, Readers
  <2> QED
    BY <2>2, <2>3
<1>3. ASSUME NEW t \in HashThreads, BeginTest(t) PROVE HashInv'
  <2>1. /\ doing[t] = "test" /\ ready = "building" /\ built = {"tables"} /\ ~orderly
        /\ \A u \in HashThreads \ {t} : doing[u] \notin Building
        /\ ~exiting => handlers = TablesHandler
    BY <1>3 DEF BeginTest, Go, OneBuilder, BuiltSoFar, HandlersSoFar, StopsFirst, Building, Early, HashFunctions
  <2>2. /\ doing' = [doing EXCEPT ![t] = "testing"] /\ built' = Statics
        /\ statics' = statics \cup {"fold"} /\ handlers' = Append(handlers, "fold")
        /\ UNCHANGED <<build, ready, writer, exiting, orderly, ended>>
    BY <1>3, <2>1 DEF BeginTest, Go, Construct, Statics
  <2>3. ~exiting => handlers' = StaticsHandlers /\ statics' = Statics
    BY <2>1, <2>2, HandlerFacts DEF HandlersSoFar, Statics
  <2> QED
    BY <2>1, <2>2, <2>3 DEF HashFunctions, OneBuilder, OnlyGoodBuilds, BuiltSoFar,
                            HandlersSoFar, StopsFirst, Building, Early, Readers
<1>4. ASSUME NEW t \in HashThreads, EndTest(t) PROVE HashInv'
  <2>1. /\ doing[t] = "testing" /\ ready = "building" /\ built = Statics /\ ~orderly /\ build # "noMemory"
        /\ \A u \in HashThreads \ {t} : doing[u] \notin Building
        /\ ~exiting => handlers = StaticsHandlers
    BY <1>4 DEF EndTest, Go, OneBuilder, OnlyGoodBuilds, BuiltSoFar, HandlersSoFar, StopsFirst, Building, Early,
                HashFunctions
  <2> QED
    BY <1>4, <2>1 DEF EndTest, Go, HashFunctions, OneBuilder, OnlyGoodBuilds, BuiltSoFar,
                      HandlersSoFar, StopsFirst, Building, Early, Readers
<1>5. ASSUME NEW t \in HashThreads, Register(t) PROVE HashInv'
  <2>1. /\ doing[t] = "tested" /\ ready = "building" /\ built = Statics /\ ~orderly /\ build = "good"
        /\ \A u \in HashThreads \ {t} : doing[u] \notin Building
        /\ ~exiting => handlers = StaticsHandlers
    BY <1>5 DEF Register, Go, OneBuilder, OnlyGoodBuilds, BuiltSoFar, HandlersSoFar, StopsFirst, Building, Early,
                HashFunctions
  <2>2. ~exiting => handlers' = AllHandlers
    BY <1>5, <2>1, HandlerFacts DEF Register
  <2> QED
    BY <1>5, <2>1, <2>2 DEF Register, Go, HashFunctions, OneBuilder, OnlyGoodBuilds, BuiltSoFar,
                      HandlersSoFar, StopsFirst, Building, Early, Readers
<1>6. ASSUME NEW t \in HashThreads, SetReady(t) PROVE HashInv'
  <2>1. /\ doing[t] = "registered" /\ ready = "building" /\ built = Statics /\ build = "good"
        /\ \A u \in HashThreads \ {t} : doing[u] \notin Building
        /\ ~exiting => handlers = AllHandlers
    BY <1>6 DEF SetReady, Go, OneBuilder, OnlyGoodBuilds, BuiltSoFar, HandlersSoFar, StopsFirst, Building, Early,
                HashFunctions
  <2> QED
    BY <1>6, <2>1 DEF SetReady, Go, HashFunctions, OneBuilder, OnlyGoodBuilds, BuiltSoFar,
                      HandlersSoFar, StopsFirst, Building, Early, Readers
<1>7. ASSUME NEW t \in HashThreads, BeginHash(t) PROVE HashInv'
  <2>1. /\ doing[t] = "out" /\ ready = "ok" /\ built = Statics /\ writer = "none"
        /\ doing' = [doing EXCEPT ![t] = "hash"]
        /\ UNCHANGED <<build, ready, writer, built, statics, handlers, exiting, orderly, ended>>
    BY <1>7 DEF BeginHash, Go, Construct, MayRead, BuiltSoFar, Statics
  <2> QED
    BY <2>1 DEF HashFunctions, OneBuilder, OnlyGoodBuilds, BuiltSoFar,
                HandlersSoFar, StopsFirst, Building, Early, Readers
<1>8. ASSUME NEW t \in HashThreads, EndHash(t) PROVE HashInv'
  BY <1>8 DEF EndHash, Go, HashFunctions, OneBuilder, OnlyGoodBuilds, BuiltSoFar,
              HandlersSoFar, StopsFirst, Building, Early, Readers
<1>9. CASE CallExit
  <2>1. /\ ~exiting /\ exiting' = TRUE /\ orderly' = ("stop" \in ToSet(handlers))
        /\ UNCHANGED <<build, ready, doing, writer, built, statics, handlers, ended>>
    BY <1>9 DEF CallExit
  <2>2. orderly' \in BOOLEAN /\ exiting' \in BOOLEAN
    BY <2>1
  <2>3. ASSUME orderly' PROVE handlers = AllHandlers
    <3>1. handlers # NoHandlers /\ handlers # TablesHandler /\ handlers # StaticsHandlers
      BY <2>1, <2>3, HandlerFacts
    <3>2. CASE ready = "building"
      <4>1. PICK t \in HashThreads : doing[t] \in Building
        BY <3>2 DEF OneBuilder
      <4> QED
        BY <2>1, <3>1, <4>1 DEF HandlersSoFar, Building, Early
    <3> QED
      BY <2>1, <3>1, <3>2 DEF HandlersSoFar, HashFunctions
  <2>4. StopsFirst'
    <3> SUFFICES ASSUME orderly' PROVE StopsFirst'
      BY DEF StopsFirst
    <3>1. handlers = AllHandlers /\ AllHandlers # NoHandlers /\ AllHandlers # TablesHandler
          /\ AllHandlers # StaticsHandlers
      BY <2>1, <2>3, HandlerFacts
    <3>2. \A t \in HashThreads : doing[t] \notin Early
      BY <2>1, <3>1 DEF HandlersSoFar, Early
    <3>3. ready \in {"building", "ok"}
      BY <2>1, <3>1 DEF HandlersSoFar, HashFunctions
    <3>4. built = Statics
      <4>1. CASE ready = "building"
        <5>1. PICK t \in HashThreads : doing[t] \in Building
          BY <4>1 DEF OneBuilder
        <5> QED
          BY <3>2, <5>1 DEF BuiltSoFar, Building
      <4> QED
        BY <3>3, <4>1 DEF BuiltSoFar
    <3>5. statics = built /\ writer = "none"
      BY <2>1 DEF HandlersSoFar
    <3> QED
      BY <2>1, <3>1, <3>2, <3>3, <3>4, <3>5 DEF StopsFirst
  <2>5. HashFunctions'
    BY <2>1, <2>2 DEF HashFunctions
  <2>6. OneBuilder' /\ OnlyGoodBuilds' /\ BuiltSoFar' /\ HandlersSoFar'
    BY <2>1 DEF OneBuilder, OnlyGoodBuilds, BuiltSoFar, HandlersSoFar
  <2> QED
    BY <2>4, <2>5, <2>6
<1>10. CASE RunHandlers
  <2>1. /\ exiting /\ UNCHANGED <<build, ready, doing, built, exiting, orderly>>
    BY <1>10 DEF RunHandlers
  <2>2. writer' \in {"none", "waiting", "held"}
    BY <1>10 DEF RunHandlers, StopHashing, HashFunctions
  <2>3. StopsFirst'
    <3> SUFFICES ASSUME orderly PROVE StopsFirst'
      BY <2>1 DEF StopsFirst
    <3>1. CASE writer = "held"
      <4>1. writer' = "held" /\ Readers = {}
        BY <1>10, <3>1 DEF RunHandlers, StopHashing, StopsFirst
      <4> QED
        BY <2>1, <4>1 DEF StopsFirst, Readers
    <3>2. CASE writer # "held"
      <4>1. handlers = AllHandlers /\ statics = Statics /\ handlers # <<>> /\ Last(handlers) = "stop"
        BY <3>2, HandlerFacts DEF StopsFirst
      <4>2. StopHashing /\ UNCHANGED statics
        BY <1>10, <4>1 DEF RunHandlers, Statics
      <4> QED
        BY <2>1, <4>1, <4>2 DEF StopsFirst, StopHashing, Readers
    <3> QED
      BY <3>1, <3>2
  <2>4. HashFunctions'
    BY <2>1, <2>2 DEF HashFunctions
  <2>5. OneBuilder' /\ OnlyGoodBuilds' /\ BuiltSoFar' /\ HandlersSoFar'
    BY <2>1 DEF OneBuilder, OnlyGoodBuilds, BuiltSoFar, HandlersSoFar
  <2> QED
    BY <2>3, <2>4, <2>5
<1>11. CASE UNCHANGED hashVars
  BY <1>11 DEF hashVars, HashFunctions, OneBuilder, OnlyGoodBuilds, BuiltSoFar, HandlersSoFar, StopsFirst, Readers
<1> QED
  BY <1>1, <1>2, <1>3, <1>4, <1>5, <1>6, <1>7, <1>8, <1>9, <1>10, <1>11 DEF HashNext, ThreadStep

(***************************************************************************)
(* No hash reads a table that exit() has destroyed (raw_hash, stop_hashing,*)
(* stop_hashing_at_exit), for any number of threads: stop_hashing is       *)
(* registered after every static, so it runs first, and the lock it keeps  *)
(* waits for the hashes under way and lets no other one in.  And a caller  *)
(* is given no hash by a build that failed the vectors (build_and_check).  *)
(***************************************************************************)
THEOREM TablesOutliveHashes == HashSpec => []NoHashOnFreedTables
<1>1. HashInv => NoHashOnFreedTables
  BY DEF HashInv, OnlyGoodBuilds, StopsFirst, NoHashOnFreedTables, Readers
<1> QED
  BY <1>1, HashStarts, HashKeeps, PTL DEF HashSpec

=============================================================================
