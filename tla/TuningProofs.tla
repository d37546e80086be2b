---------------------------- MODULE TuningProofs ----------------------------
(***************************************************************************)
(* Proofs about the tuning of a card: what it keeps is faster, what it     *)
(* says is what it mines at, and a bigger window that fails costs nothing, *)
(* for any windows, speeds, lengths of the phases and depth of the queue,  *)
(* and any number of reopens and restarts.                                 *)
(***************************************************************************)
EXTENDS CardTuning, FiniteSetTheorems, SequenceTheorems, WellFoundedInduction, TLAPS

Phases == StartPhases \cup TargetPhases \cup {"Return", "Recalled"}

Running ==
    [phase : Phases, target : Tried, fallback : Seq(Tried), ready : BOOLEAN, mined : Nat, hashes : Nat,
     before : Nat, tried : Nat, remember : BOOLEAN]

\* The phases that a switch leads to.
SwitchPhases == {"Settle", "SettleBack", "Return", "Recalled"}

Gains(sp, w) == sp[w] > sp[StartWindow]

\* A tuner wants the window its phase is about ...
WantsItsWindow(t, w) ==
    /\ t.phase \in StartPhases => w = StartWindow
    /\ t.phase \in {"Settle", "MeasureTarget", "Return"} => w = t.target
    /\ t.phase = "Recalled" => w \in {StartWindow, t.target}

\* ... and, as long as nothing disturbed a launch, has measured what the
\* speeds sp say.
MeasuredRight(t, sp) ==
    /\ t.phase \in {"MeasureStart", "MeasureBack"} => t.hashes = t.mined * sp[StartWindow]
    /\ t.phase = "MeasureTarget" => t.hashes = t.mined * sp[t.target]
    /\ t.phase \in {"Settle", "MeasureTarget", "SettleBack", "MeasureBack"} => t.before = Measure * sp[StartWindow]
    /\ t.phase \in {"SettleBack", "MeasureBack"} => t.tried = Measure * sp[t.target]
    /\ t.phase \in {"Return", "Recalled"} => Gains(sp, t.target)

TunerOK(t, w, sp, calm) ==
    /\ t \in Running
    /\ t.phase \in Measuring => t.mined < Measure
    /\ WantsItsWindow(t, w)
    /\ calm => MeasuredRight(t, sp)

\* Before Tune::begin there is nothing to switch to, and between switches no
\* window but the one that is wanted is mined at.
StartsAtStart == ~begun => tuner = NoTuner /\ want = StartWindow

SwitchIsWanted ==
    switchTo # NoWindow =>
        /\ switchTo = want /\ at # want /\ pc # "begin"
        /\ tuner # NoTuner /\ tuner.phase \in SwitchPhases /\ (tuner.phase = "Recalled" => want = tuner.target)

MinesAtWanted == pc \in {"begin", "mine"} => at \in Windows /\ (switchTo = NoWindow => at = want)

TunerIsRight ==
    tuner # NoTuner =>
        /\ begun /\ TunerOK(tuner, want, speed, ~disturbed)
        /\ preparing /\ tuner.phase = "Recalled" => want = StartWindow /\ switchTo = NoWindow

SaysWhatItWants == begun /\ tuner = NoTuner => told = Event(want, FALSE)

Kept ==
    ~disturbed =>
        /\ tuner = NoTuner /\ want \in Tried => Gains(speed, want)
        /\ file \in Tried => Gains(speed, file)

\* A device that was never reopened has the window it wants, or can start anew.
FailsSoftly ==
    /\ gone = 0 /\ switchTo = NoWindow => at = want \/ want = StartWindow
    /\ pc = "gone" => gone > 0
    /\ BiggerWindowFailsSoftly

TuningInv ==
    /\ TypeOK /\ StartsAtStart /\ SwitchIsWanted /\ MinesAtWanted /\ TunerIsRight
    /\ SaysWhatItWants /\ Kept /\ FailsSoftly

-----------------------------------------------------------------------------
\* The least-number principle, of sets.
LEMMA LeastNatural ==
    ASSUME NEW T, T \subseteq Nat, T # {}
    PROVE  \E i \in T : \A j \in T : i <= j
<1>1. PICK i \in T : \A j \in T : ~(<<j, i>> \in OpToRel(<, Nat))
  BY WFMin, NatLessThanWellFounded, Zenon
<1>2. ASSUME NEW j \in T PROVE i <= j
  <2>1. i \in Nat /\ j \in Nat
    OBVIOUS
  <2>2. ~(<<j, i>> \in {ss \in Nat \X Nat : ss[1] < ss[2]})
    BY <1>1, Zenon DEF OpToRel
  <2> QED
    BY <2>1, <2>2
<1> QED
  BY <1>2

(***************************************************************************)
(* The windows.                                                            *)
(***************************************************************************)
LEMMA WindowFacts ==
    /\ StartWindow \in Nat \ {0} /\ StartWindow \notin Tried /\ StartWindow \in Windows
    /\ \A w \in Tried : w \in Nat /\ w > StartWindow /\ w # NoWindow /\ w \in Windows
    /\ NoWindow \notin Windows
<1>1. DOMAIN Bigger = 1 .. Len(Bigger) /\ \A i \in DOMAIN Bigger : Bigger[i] \in Nat
  BY TunerAssumption
<1>2. \A w \in Tried : w \in Nat /\ w > StartWindow
  BY <1>1, TunerAssumption DEF Tried
<1> QED
  BY <1>2, TunerAssumption DEF Windows, NoWindow

\* What largest_fitting finds is one of the windows.
LEMMA FittingIsTried == \A fitting \in Fitting : fitting \in Tried \cup {NoWindow}
<1> SUFFICES ASSUME NEW free PROVE LargestFitting(free) \in Tried \cup {NoWindow}
  BY DEF Fitting
<1> DEFINE fits == {i \in DOMAIN Bigger : TableSize(Bigger[i]) + VramSpare <= free}
<1>1. fits \subseteq Nat /\ fits \subseteq DOMAIN Bigger
  BY TunerAssumption
<1>2. LargestFitting(free) = IF fits = {} THEN NoWindow ELSE Bigger[CHOOSE i \in fits : \A j \in fits : i <= j]
  BY DEF LargestFitting, Min
<1> HIDE DEF fits
<1>3. CASE fits # {}
  <2>2. \E i \in fits : \A j \in fits : i <= j
    BY <1>1, <1>3, LeastNatural
  <2>3. (CHOOSE i \in fits : \A j \in fits : i <= j) \in fits
    BY <2>2
  <2> QED
    BY <1>1, <1>2, <1>3, <2>3 DEF Tried
<1> QED
  BY <1>2, <1>3

LEMMA BelowIsTried == \A w : Below(w) \in Seq(Tried)
<1> SUFFICES ASSUME NEW w PROVE Below(w) \in Seq(Tried)
  OBVIOUS
<1> DEFINE more == {i \in DOMAIN Bigger : Bigger[i] >= w}
<1>1. Bigger \in Seq(Tried) /\ DOMAIN Bigger = 1 .. Len(Bigger) /\ Len(Bigger) \in Nat
  <2>1. Bigger \in Seq(Nat) /\ DOMAIN Bigger = 1 .. Len(Bigger) /\ Len(Bigger) \in Nat
    BY TunerAssumption
  <2>2. \A i \in 1 .. Len(Bigger) : Bigger[i] \in Tried
    BY <2>1 DEF Tried
  <2> QED
    BY <2>1, <2>2, SeqDef
<1>2. IsFiniteSet(more) /\ Cardinality(more) \in Nat
  <2>1. IsFiniteSet(1 .. Len(Bigger)) /\ more \subseteq 1 .. Len(Bigger)
    BY <1>1, FS_Interval
  <2> HIDE DEF more
  <2>2. IsFiniteSet(more)
    BY <2>1, FS_Subset
  <2> QED
    BY <2>2, FS_CardinalityType
<1> HIDE DEF more
<1>3. Cardinality(more) + 1 \in 1 .. Cardinality(more) + 1 /\ Cardinality(more) + 1 \in Nat
  BY <1>2
<1>4. Below(w) = SubSeq(Bigger, Cardinality(more) + 1, Len(Bigger))
  BY DEF Below, more
<1>5. \A i \in Cardinality(more) + 1 .. Len(Bigger) : i \in 1 .. Len(Bigger)
  BY <1>1, <1>2
<1> QED
  BY <1>1, <1>3, <1>4, <1>5

-----------------------------------------------------------------------------
(***************************************************************************)
(* The tuner.                                                              *)
(***************************************************************************)
LEMMA RunningFacts ==
    ASSUME NEW t \in Running
    PROVE  /\ t # NoTuner /\ t.phase \in Phases /\ t.phase # "Finished" /\ t.target \in Tried
           /\ t.fallback \in Seq(Tried) /\ t.ready \in BOOLEAN /\ t.remember \in BOOLEAN
           /\ t.mined \in Nat /\ t.hashes \in Nat /\ t.before \in Nat /\ t.tried \in Nat
<1>1. /\ t.phase \in Phases /\ t.target \in Tried
      /\ t.fallback \in Seq(Tried) /\ t.ready \in BOOLEAN /\ t.remember \in BOOLEAN
      /\ t.mined \in Nat /\ t.hashes \in Nat /\ t.before \in Nat /\ t.tried \in Nat
  BY DEF Running
<1>2. t.phase # "Finished"
  BY <1>1 DEF Phases, StartPhases, TargetPhases
<1>3. NoTuner.phase = "Finished"
  BY DEF NoTuner
<1> QED
  BY <1>1, <1>2, <1>3

LEMMA TunersAre == Tuners = {NoTuner} \cup Running
  BY DEF Tuners, Running, Phases

\* m measurements of a are more than as many of b only if a is more than b.
LEMMA ProductsCompare ==
    ASSUME NEW m \in Nat \ {0}, NEW a \in Nat, NEW b \in Nat,
           Faster(m * b, m * a, m * b)
    PROVE  a > b
<1>1. 2000 * (m * a) > (m * b + m * b) * 1005
  BY DEF Faster, MinGain
<1>2. m * a \in Nat /\ m * b \in Nat
  OBVIOUS
<1>3. m * a > m * b
  BY <1>1, <1>2
<1> QED
  BY <1>3

LEMMA OneMoreLaunch == ASSUME NEW m \in Nat, NEW s \in Nat PROVE (m + 1) * s = m * s + s
  OBVIOUS

\* What a tuner may answer when the worker wants window w: wait, switch to
\* another window, or be done, with a gain if it is a bigger one that is kept.
ResultOK(r, w, sp, calm) ==
    \/ r.action = Wait /\ TunerOK(r.tuner, w, sp, calm)
    \/ \E v \in Windows :
          /\ r.action = Switch(v) /\ v # w
          /\ TunerOK(r.tuner, v, sp, calm) /\ r.tuner.phase \in SwitchPhases
          /\ r.tuner.phase = "Recalled" => v = r.tuner.target
    \/ \E v \in Windows, b \in BOOLEAN :
          /\ r.action = Done(v, b) /\ r.tuner = NoTuner
          /\ calm => (w \in Tried => Gains(sp, w)) /\ (b /\ v \in Tried => Gains(sp, v))

\* The end of a phase.
LEMMA PhaseEnds ==
    ASSUME NEW w \in Windows, NEW sp \in [Windows -> Nat], NEW calm \in BOOLEAN, NEW n \in Running,
           n.phase \in StartPhases \cup TargetPhases, n.phase \in Measuring => n.mined = Measure,
           WantsItsWindow(n, w), calm => MeasuredRight(n, sp)
    PROVE  ResultOK(PhaseOver(n), w, sp, calm)
<1> DEFINE next(phase) == [n EXCEPT !.phase = phase, !.mined = 0, !.hashes = 0]
<1>1. /\ n.target \in Tried /\ n.mined \in Nat /\ n.hashes \in Nat /\ n.before \in Nat /\ n.tried \in Nat
      /\ n.remember \in BOOLEAN
      /\ n.target \in Windows /\ StartWindow \in Windows /\ StartWindow \notin Tried
      /\ sp[StartWindow] \in Nat /\ sp[n.target] \in Nat /\ Measure \in Nat \ {0}
  BY RunningFacts, WindowFacts, TunerAssumption
<1>2. ASSUME NEW p \in Phases
      PROVE  /\ next(p) \in Running /\ next(p).phase = p /\ next(p).target = n.target
             /\ next(p).mined = 0 /\ next(p).hashes = 0 /\ next(p).before = n.before /\ next(p).tried = n.tried
  BY <1>1 DEF Running
<1>3. Measuring \subseteq StartPhases \cup TargetPhases /\ 0 < Measure /\ \A s \in Nat : 0 * s = 0
  BY <1>1 DEF Measuring, StartPhases, TargetPhases
<1>4. CASE n.phase = "WarmUp"
  <2>1. PhaseOver(n) = Result(next("MeasureStart"), Wait)
    BY <1>4 DEF PhaseOver
  <2>2. TunerOK(next("MeasureStart"), w, sp, calm)
    <3>1. "MeasureStart" \in Phases
      BY DEF Phases, StartPhases
    <3> HIDE DEF next
    <3> QED
      BY <1>1, <1>2, <1>3, <1>4, <3>1 DEF TunerOK, WantsItsWindow, MeasuredRight, StartPhases
  <2> HIDE DEF next
  <2> QED
    BY <2>1, <2>2 DEF ResultOK, Result
<1>5. CASE n.phase = "MeasureStart"
  <2> DEFINE t == [next("Settle") EXCEPT !.before = n.hashes]
  <2>1. PhaseOver(n) = Result(t, Switch(n.target))
    BY <1>5 DEF PhaseOver
  <2>2. "Settle" \in Phases /\ "Settle" \notin Measuring /\ "Settle" \notin StartPhases /\ n.phase \in Measuring
    BY <1>5 DEF Phases, TargetPhases, Measuring, StartPhases
  <2>3. next("Settle") \in Running /\ next("Settle").phase = "Settle" /\ next("Settle").target = n.target
    BY <1>2, <2>2
  <2> HIDE DEF next
  <2>4. t \in Running /\ t.phase = "Settle" /\ t.target = n.target /\ t.before = n.hashes
    BY <1>1, <2>3 DEF Running
  <2> HIDE DEF t
  <2>5. calm => n.hashes = Measure * sp[StartWindow]
    BY <1>5, <2>2 DEF MeasuredRight
  <2>6. TunerOK(t, n.target, sp, calm)
    BY <2>2, <2>4, <2>5 DEF TunerOK, WantsItsWindow, MeasuredRight
  <2>7. n.target # w
    BY <1>1, <1>5 DEF WantsItsWindow, StartPhases
  <2> QED
    BY <1>1, <2>1, <2>4, <2>6, <2>7 DEF ResultOK, Result, SwitchPhases
<1>6. CASE n.phase = "Settle"
  <2>1. PhaseOver(n) = Result(next("MeasureTarget"), Wait)
    BY <1>6 DEF PhaseOver
  <2>2. TunerOK(next("MeasureTarget"), w, sp, calm)
    <3>1. "MeasureTarget" \in Phases /\ "MeasureTarget" \notin StartPhases
      BY DEF Phases, StartPhases, TargetPhases
    <3> HIDE DEF next
    <3> QED
      BY <1>1, <1>2, <1>3, <1>6, <3>1 DEF TunerOK, WantsItsWindow, MeasuredRight
  <2> HIDE DEF next
  <2> QED
    BY <2>1, <2>2 DEF ResultOK, Result
<1>7. CASE n.phase = "MeasureTarget"
  <2> DEFINE t == [next("SettleBack") EXCEPT !.tried = n.hashes]
  <2>1. PhaseOver(n) = Result(t, Switch(StartWindow))
    BY <1>7 DEF PhaseOver
  <2>2. "SettleBack" \in Phases /\ "SettleBack" \notin Measuring /\ n.phase \in Measuring
    BY <1>7 DEF Phases, Measuring, StartPhases
  <2>3. next("SettleBack") \in Running /\ next("SettleBack").phase = "SettleBack" /\ next("SettleBack").target = n.target
        /\ next("SettleBack").before = n.before
    BY <1>2, <2>2
  <2> HIDE DEF next
  <2>4. t \in Running /\ t.phase = "SettleBack" /\ t.target = n.target /\ t.before = n.before /\ t.tried = n.hashes
    BY <1>1, <2>3 DEF Running
  <2> HIDE DEF t
  <2>5. calm => n.hashes = Measure * sp[n.target] /\ n.before = Measure * sp[StartWindow]
    BY <1>7, <2>2 DEF MeasuredRight
  <2>6. TunerOK(t, StartWindow, sp, calm)
    BY <2>2, <2>4, <2>5 DEF TunerOK, WantsItsWindow, MeasuredRight
  <2>7. StartWindow # w
    BY <1>1, <1>7 DEF WantsItsWindow
  <2> QED
    BY <1>1, <2>1, <2>4, <2>6, <2>7 DEF ResultOK, Result, SwitchPhases
<1>8. CASE n.phase = "SettleBack"
  <2>1. PhaseOver(n) = Result(next("MeasureBack"), Wait)
    BY <1>8 DEF PhaseOver
  <2>2. TunerOK(next("MeasureBack"), w, sp, calm)
    <3>1. "MeasureBack" \in Phases /\ "SettleBack" \in StartPhases
      BY DEF Phases, StartPhases
    <3> HIDE DEF next
    <3> QED
      BY <1>1, <1>2, <1>3, <1>8, <3>1 DEF TunerOK, WantsItsWindow, MeasuredRight
  <2> HIDE DEF next
  <2> QED
    BY <2>1, <2>2 DEF ResultOK, Result
<1>9. CASE n.phase = "MeasureBack"
  <2> DEFINE keep == Faster(n.before, n.tried, n.hashes)
             t == [next("Return") EXCEPT !.remember = Steady(n.before, n.hashes)]
  <2>1. n.phase \in Measuring /\ n.phase \in StartPhases /\ w = StartWindow
    BY <1>9 DEF Measuring, StartPhases, WantsItsWindow
  <2>2. CASE keep
    <3>1. PhaseOver(n) = Result(t, Switch(n.target))
      BY <1>9, <2>2 DEF PhaseOver
    <3>2. "Return" \in Phases /\ "Return" \notin Measuring /\ "Return" \notin StartPhases
      BY DEF Phases, Measuring, StartPhases
    <3>3. next("Return") \in Running /\ next("Return").phase = "Return" /\ next("Return").target = n.target
      BY <1>2, <3>2
    <3>4. Steady(n.before, n.hashes) \in BOOLEAN
      BY DEF Steady
    <3> HIDE DEF next
    <3>5. t \in Running /\ t.phase = "Return" /\ t.target = n.target
      BY <3>3, <3>4 DEF Running
    <3> HIDE DEF t
    <3>6. calm => Gains(sp, n.target)
      <4> SUFFICES ASSUME calm PROVE sp[n.target] > sp[StartWindow]
        BY DEF Gains
      <4>1. /\ n.hashes = Measure * sp[StartWindow] /\ n.before = Measure * sp[StartWindow]
            /\ n.tried = Measure * sp[n.target]
        BY <1>9, <2>1 DEF MeasuredRight
      <4> QED
        BY <1>1, <2>2, <4>1, ProductsCompare
    <3>7. TunerOK(t, n.target, sp, calm)
      BY <3>2, <3>5, <3>6 DEF TunerOK, WantsItsWindow, MeasuredRight
    <3>8. n.target # w
      BY <1>1, <2>1
    <3> QED
      BY <1>1, <3>1, <3>5, <3>7, <3>8 DEF ResultOK, Result, SwitchPhases
  <2>3. CASE ~keep
    <3>1. PhaseOver(n) = Result(NoTuner, Done(StartWindow, Steady(n.before, n.hashes)))
      BY <1>9, <2>3 DEF PhaseOver
    <3>2. Steady(n.before, n.hashes) \in BOOLEAN
      BY DEF Steady
    <3> QED
      BY <1>1, <2>1, <3>1, <3>2 DEF ResultOK, Result
  <2> QED
    BY <2>2, <2>3
<1> QED
  BY <1>4, <1>5, <1>6, <1>7, <1>8, <1>9 DEF StartPhases, TargetPhases

\* A launch that does not count changes nothing; one that does moves the
\* phase's clock, or ends the phase.
LEMMA LaunchCounts ==
    ASSUME NEW w \in Windows, NEW sp \in [Windows -> Nat], NEW h \in Nat, NEW calm \in BOOLEAN, NEW calmer \in BOOLEAN,
           NEW v \in Windows, NEW t, TunerOK(t, w, sp, calm), calmer => calm /\ h = sp[v], Counts(t, v)
    PROVE  ResultOK(TunerLaunched(t, v, h), w, sp, calmer) /\ v = w
<1> DEFINE hh == IF t.phase \in Measuring THEN t.hashes + h ELSE 0
           n == [t EXCEPT !.mined = @ + 1, !.hashes = hh]
<1>1. t \in Running /\ WantsItsWindow(t, w) /\ (t.phase \in Measuring => t.mined < Measure) /\ (calm => MeasuredRight(t, sp))
  BY DEF TunerOK
<1>2. /\ t.phase \in Phases /\ t.target \in Tried /\ t.mined \in Nat /\ t.hashes \in Nat /\ t.before \in Nat /\ t.tried \in Nat
      /\ t.target \in Windows /\ StartWindow \in Windows /\ t.target # StartWindow
      /\ sp[StartWindow] \in Nat /\ sp[t.target] \in Nat
  BY <1>1, RunningFacts, WindowFacts
<1>3. /\ v = w
      /\ t.phase \in StartPhases => v = StartWindow
      /\ t.phase \in TargetPhases => v = t.target
      /\ t.phase \in StartPhases \cup TargetPhases
  BY <1>1 DEF Counts, WantsItsWindow, StartPhases, TargetPhases
<1>4. /\ n \in Running /\ n.phase = t.phase /\ n.target = t.target /\ n.mined = t.mined + 1
      /\ n.hashes = hh /\ n.before = t.before /\ n.tried = t.tried
  <2>1. hh \in Nat /\ t.mined + 1 \in Nat
    BY <1>2
  <2> HIDE DEF hh
  <2> QED
    BY <1>1, <2>1 DEF Running
<1>5. calmer => MeasuredRight(n, sp)
  <2> SUFFICES ASSUME calmer PROVE MeasuredRight(n, sp)
    OBVIOUS
  <2>1. MeasuredRight(t, sp) /\ h = sp[v]
    BY <1>1
  <2>2. t.phase \in {"MeasureStart", "MeasureBack"} => n.hashes = n.mined * sp[StartWindow]
    <3> SUFFICES ASSUME t.phase \in {"MeasureStart", "MeasureBack"} PROVE n.hashes = n.mined * sp[StartWindow]
      OBVIOUS
    <3>1. t.hashes = t.mined * sp[StartWindow] /\ h = sp[StartWindow] /\ t.phase \in Measuring
      BY <1>3, <2>1 DEF MeasuredRight, StartPhases, Measuring
    <3>2. hh = t.hashes + h
      BY <3>1
    <3> HIDE DEF hh, n
    <3> QED
      BY <1>2, <1>4, <3>1, <3>2, OneMoreLaunch
  <2>3. t.phase = "MeasureTarget" => n.hashes = n.mined * sp[n.target]
    <3> SUFFICES ASSUME t.phase = "MeasureTarget" PROVE n.hashes = n.mined * sp[n.target]
      OBVIOUS
    <3>1. t.hashes = t.mined * sp[t.target] /\ h = sp[t.target] /\ t.phase \in Measuring
      BY <1>3, <2>1 DEF MeasuredRight, TargetPhases, Measuring
    <3>2. hh = t.hashes + h
      BY <3>1
    <3> HIDE DEF hh, n
    <3> QED
      BY <1>2, <1>4, <3>1, <3>2, OneMoreLaunch
  <2> QED
    BY <1>4, <2>1, <2>2, <2>3 DEF MeasuredRight
<1>6. WantsItsWindow(n, w)
  BY <1>1, <1>4 DEF WantsItsWindow
<1> HIDE DEF n
<1>7. TunerLaunched(t, v, h) = IF n.mined < Length(t.phase) THEN Result(n, Wait) ELSE PhaseOver(n)
  BY DEF TunerLaunched, n, hh
<1>8. CASE n.mined < Length(t.phase)
  <2>1. n.phase \in Measuring => n.mined < Measure
    BY <1>4, <1>8 DEF Length, Measuring
  <2>2. TunerOK(n, w, sp, calmer)
    BY <1>4, <1>5, <1>6, <2>1 DEF TunerOK
  <2> QED
    BY <1>3, <1>7, <1>8, <2>2 DEF ResultOK, Result
<1>9. CASE ~(n.mined < Length(t.phase))
  <2>1. t.phase \in Measuring => n.mined = Measure
    <3> SUFFICES ASSUME t.phase \in Measuring PROVE n.mined = Measure
      OBVIOUS
    <3>1. Length(t.phase) = Measure
      BY DEF Length, Measuring
    <3>2. Measure \in Nat /\ t.mined \in Nat /\ t.mined < Measure /\ n.mined = t.mined + 1 /\ ~(n.mined < Measure)
      BY <1>1, <1>2, <1>4, <1>9, <3>1, TunerAssumption
    <3> QED
      BY <3>2
  <2>2. n \in Running /\ n.phase \in StartPhases \cup TargetPhases /\ (n.phase \in Measuring => n.mined = Measure)
    BY <1>3, <1>4, <2>1
  <2>3. ResultOK(PhaseOver(n), w, sp, calmer)
    BY <1>5, <1>6, <2>2, PhaseEnds
  <2> QED
    BY <1>3, <1>7, <1>9, <2>3
<1> QED
  BY <1>8, <1>9


LEMMA NeverRecalled ==
    ASSUME NEW n \in Running, n.phase \in StartPhases \cup TargetPhases
    PROVE  PhaseOver(n).tuner.phase # "Recalled"
<1> DEFINE next(phase) == [n EXCEPT !.phase = phase, !.mined = 0, !.hashes = 0]
<1> DEFINE settle == [next("Settle") EXCEPT !.before = n.hashes]
           settleBack == [next("SettleBack") EXCEPT !.tried = n.hashes]
           return == [next("Return") EXCEPT !.remember = Steady(n.before, n.hashes)]
<1>1. /\ \A p : next(p).phase = p
      /\ settle.phase = "Settle" /\ settleBack.phase = "SettleBack" /\ return.phase = "Return"
  BY DEF Running
<1>2. NoTuner.phase = "Finished"
  BY DEF NoTuner
<1> DEFINE t == PhaseOver(n).tuner
<1>3. \/ \E p \in {"MeasureStart", "MeasureTarget", "MeasureBack"} : t = next(p)
      \/ t \in {settle, settleBack, return}
      \/ t = NoTuner
  BY DEF PhaseOver, Result, StartPhases, TargetPhases
<1> HIDE DEF next, settle, settleBack, return, t
<1>4. t.phase # "Recalled"
  BY <1>1, <1>2, <1>3
<1> QED
  BY <1>4 DEF t

LEMMA LaunchIsRight ==
    ASSUME NEW w \in Windows, NEW sp \in [Windows -> Nat], NEW h \in Nat, NEW calm \in BOOLEAN, NEW calmer \in BOOLEAN,
           NEW v \in Windows, NEW t, TunerOK(t, w, sp, calm), calmer => calm /\ h = sp[v]
    PROVE  /\ ResultOK(TunerLaunched(t, v, h), w, sp, calmer)
           /\ v # w \/ t.phase = "Recalled" => TunerLaunched(t, v, h) = Result(t, Wait)
           /\ t.phase # "Recalled" => TunerLaunched(t, v, h).tuner.phase # "Recalled"
<1>1. CASE Counts(t, v)
  <2>1. ResultOK(TunerLaunched(t, v, h), w, sp, calmer) /\ v = w
    BY <1>1, LaunchCounts
  <2>2. t.phase \in StartPhases \cup TargetPhases
    BY <1>1 DEF Counts
  <2>3. t.phase # "Recalled"
    BY <2>2 DEF StartPhases, TargetPhases
  <2> DEFINE n == [t EXCEPT !.mined = @ + 1, !.hashes = IF t.phase \in Measuring THEN @ + h ELSE 0]
  <2>4. TunerLaunched(t, v, h) = IF n.mined < Length(t.phase) THEN Result(n, Wait) ELSE PhaseOver(n)
    BY <1>1 DEF TunerLaunched
  <2>5. t \in Running /\ t.mined \in Nat /\ t.hashes \in Nat
    BY RunningFacts DEF TunerOK
  <2>6. n.phase = t.phase /\ n \in Running
    <3>1. (IF t.phase \in Measuring THEN t.hashes + h ELSE 0) \in Nat /\ t.mined + 1 \in Nat
      BY <2>5
    <3> QED
      BY <2>5, <3>1 DEF Running
  <2> HIDE DEF n
  <2>7. PhaseOver(n).tuner.phase # "Recalled"
    BY <2>2, <2>6, NeverRecalled
  <2>8. TunerLaunched(t, v, h).tuner.phase # "Recalled"
    BY <2>3, <2>4, <2>6, <2>7 DEF Result
  <2> QED
    BY <2>1, <2>3, <2>8
<1>2. CASE ~Counts(t, v)
  <2>1. TunerLaunched(t, v, h) = Result(t, Wait)
    BY <1>2 DEF TunerLaunched
  <2>2. TunerOK(t, w, sp, calmer)
    BY DEF TunerOK
  <2> QED
    BY <2>1, <2>2 DEF ResultOK, Result
<1> QED
  BY <1>1, <1>2

\* What is ready is switched to if it was recalled; else it is waited for.
LEMMA ReadyIsRight ==
    ASSUME NEW w \in Windows, NEW sp \in [Windows -> Nat], NEW calm \in BOOLEAN, NEW t, TunerOK(t, w, sp, calm),
           t.phase = "Recalled" => w = StartWindow
    PROVE  /\ TunerReady(t).tuner.phase = t.phase
           /\ t.phase = "Recalled" => ResultOK(TunerReady(t), w, sp, calm) /\ TunerReady(t).action # Wait
           /\ t.phase # "Recalled" => TunerOK(TunerReady(t).tuner, w, sp, calm) /\ TunerReady(t).action = Wait
<1> DEFINE n == [t EXCEPT !.ready = TRUE]
<1>1. t \in Running /\ WantsItsWindow(t, w) /\ (t.phase \in Measuring => t.mined < Measure) /\ (calm => MeasuredRight(t, sp))
  BY DEF TunerOK
<1>2. /\ n \in Running /\ n.phase = t.phase /\ n.target = t.target /\ n.mined = t.mined /\ n.hashes = t.hashes
      /\ n.before = t.before /\ n.tried = t.tried
  BY <1>1 DEF Running
<1>3. TunerReady(t) = Result(n, IF t.phase = "Recalled" THEN Switch(t.target) ELSE Wait)
  BY DEF TunerReady
<1> HIDE DEF n
<1>4. calm => MeasuredRight(n, sp)
  BY <1>1, <1>2 DEF MeasuredRight
<1>5. CASE t.phase # "Recalled"
  <2>1. TunerOK(n, w, sp, calm)
    BY <1>1, <1>2, <1>4 DEF TunerOK, WantsItsWindow
  <2> QED
    BY <1>2, <1>3, <1>5, <2>1 DEF Result
<1>6. CASE t.phase = "Recalled"
  <2>1. t.target \in Tried /\ t.target \in Windows /\ t.target # StartWindow
    BY <1>1, RunningFacts, WindowFacts
  <2>2. "Recalled" \notin Measuring /\ "Recalled" \notin StartPhases
    BY DEF Measuring, StartPhases
  <2>3. TunerOK(n, t.target, sp, calm)
    BY <1>2, <1>4, <1>6, <2>2 DEF TunerOK, WantsItsWindow
  <2>4. TunerReady(t) = Result(n, Switch(t.target)) /\ t.target # w
    BY <1>3, <1>6, <2>1
  <2>5. Switch(t.target) # Wait
    <3>1. Switch(t.target).do = "Switch" /\ Wait.do = "Wait"
      BY DEF Switch, Wait
    <3> QED
      BY <3>1
  <2> QED
    BY <1>2, <1>6, <2>1, <2>3, <2>4, <2>5 DEF Result, ResultOK, SwitchPhases
<1> QED
  BY <1>5, <1>6

\* The answer to a switch to v, which the worker wanted: after a failure, what
\* it wants is the start window.
LEMMA SwitchedIsRight ==
    ASSUME NEW v \in Windows, NEW sp \in [Windows -> Nat], NEW calm \in BOOLEAN, NEW ok \in BOOLEAN, NEW t,
           TunerOK(t, v, sp, calm), t.phase \in SwitchPhases, t.phase = "Recalled" => v = t.target
    PROVE  /\ ok => ResultOK(TunerSwitched(t, v, ok), v, sp, calm) /\ TunerSwitched(t, v, ok).action.do # "Switch"
           /\ ~ok => ResultOK(TunerSwitched(t, v, ok), StartWindow, sp, calm) /\ TunerSwitched(t, v, ok).action.do # "Wait"
           /\ TunerSwitched(t, v, ok).tuner # NoTuner => t.phase # "Recalled" /\ TunerSwitched(t, v, ok).tuner.phase = t.phase
<1>1. t \in Running /\ WantsItsWindow(t, v) /\ (t.phase \in Measuring => t.mined < Measure) /\ (calm => MeasuredRight(t, sp))
  BY DEF TunerOK
<1>2. t.target \in Tried /\ t.target \in Windows /\ t.fallback \in Seq(Tried) /\ t.remember \in BOOLEAN
      /\ StartWindow \in Windows /\ StartWindow \notin Tried /\ t # NoTuner
  BY <1>1, RunningFacts, WindowFacts
<1>3. Wait.do = "Wait" /\ \A x, b : Switch(x).do = "Switch" /\ Done(x, b).do = "Done"
  BY DEF Wait, Switch, Done
<1>4. CASE ok /\ t.phase = "Return"
  <2>1. v = t.target /\ (calm => Gains(sp, v))
    BY <1>1, <1>4 DEF WantsItsWindow, MeasuredRight
  <2>2. TunerSwitched(t, v, ok) = Result(NoTuner, Done(v, t.remember))
    BY <1>4, <2>1 DEF TunerSwitched
  <2>3. ResultOK(TunerSwitched(t, v, ok), v, sp, calm)
    BY <1>2, <2>1, <2>2 DEF Result, ResultOK
  <2>4. TunerSwitched(t, v, ok).action.do = "Done" /\ TunerSwitched(t, v, ok).tuner = NoTuner
    BY <1>3, <2>2 DEF Result
  <2> QED
    BY <1>4, <2>3, <2>4
<1>5. CASE ok /\ t.phase = "Recalled"
  <2>1. calm => Gains(sp, v)
    BY <1>1, <1>5 DEF MeasuredRight
  <2>2. TunerSwitched(t, v, ok) = Result(NoTuner, Done(v, FALSE))
    BY <1>5 DEF TunerSwitched
  <2>3. PICK b \in BOOLEAN : TunerSwitched(t, v, ok) = Result(NoTuner, Done(v, b))
    BY <2>2
  <2>4. ResultOK(TunerSwitched(t, v, ok), v, sp, calm)
    BY <2>1, <2>3 DEF Result, ResultOK
  <2>5. TunerSwitched(t, v, ok).action.do = "Done" /\ TunerSwitched(t, v, ok).tuner = NoTuner
    BY <1>3, <2>3 DEF Result
  <2> QED
    BY <1>5, <2>4, <2>5
<1>6. CASE ok /\ t.phase \notin {"Return", "Recalled"}
  <2>1. TunerSwitched(t, v, ok) = Result(t, Wait)
    BY <1>6 DEF TunerSwitched
  <2>2. ResultOK(TunerSwitched(t, v, ok), v, sp, calm)
    BY <2>1 DEF Result, ResultOK
  <2>3. TunerSwitched(t, v, ok).action.do = "Wait" /\ TunerSwitched(t, v, ok).tuner = t
    BY <1>3, <2>1 DEF Result
  <2> QED
    BY <1>6, <2>2, <2>3
<1>7. CASE ~ok /\ FallsBack(t, v)
  <2> DEFINE x == Head(t.fallback)
             n == [t EXCEPT !.target = x, !.fallback = Tail(@), !.mined = 0]
  <2>1. t.phase = "Settle" /\ t.fallback # <<>>
    BY <1>7 DEF FallsBack
  <2>2. x \in Tried /\ Tail(t.fallback) \in Seq(Tried)
    BY <1>2, <2>1
  <2>3. TunerSwitched(t, v, ok) = Result(n, Switch(x))
    BY <1>7 DEF TunerSwitched
  <2> HIDE DEF x
  <2>4. n \in Running /\ n.phase = "Settle" /\ n.target = x /\ n.before = t.before
    BY <1>1, <2>1, <2>2 DEF Running
  <2> HIDE DEF n
  <2>5. calm => MeasuredRight(n, sp)
    BY <1>1, <2>1, <2>4 DEF MeasuredRight
  <2>6. TunerOK(n, x, sp, calm)
    BY <2>4, <2>5 DEF TunerOK, WantsItsWindow, Measuring, StartPhases
  <2>7. x \in Windows /\ x # StartWindow
    BY <1>2, <2>2, WindowFacts
  <2>8. ResultOK(TunerSwitched(t, v, ok), StartWindow, sp, calm)
    BY <2>3, <2>4, <2>6, <2>7 DEF Result, ResultOK, SwitchPhases
  <2>9. TunerSwitched(t, v, ok).action.do = "Switch" /\ TunerSwitched(t, v, ok).tuner = n
    BY <1>3, <2>3 DEF Result
  <2> QED
    BY <1>7, <2>1, <2>4, <2>8, <2>9
<1>8. CASE ~ok /\ ~FallsBack(t, v)
  <2>1. TunerSwitched(t, v, ok) = Result(NoTuner, Done(StartWindow, v # StartWindow))
    BY <1>8 DEF TunerSwitched
  <2>2. PICK b \in BOOLEAN : TunerSwitched(t, v, ok) = Result(NoTuner, Done(StartWindow, b))
    BY <2>1
  <2>3. ResultOK(TunerSwitched(t, v, ok), StartWindow, sp, calm)
    BY <1>2, <2>2 DEF Result, ResultOK
  <2>4. TunerSwitched(t, v, ok).action.do = "Done" /\ TunerSwitched(t, v, ok).tuner = NoTuner
    BY <1>3, <2>2 DEF Result
  <2> QED
    BY <1>8, <2>3, <2>4
<1> QED
  BY <1>4, <1>5, <1>6, <1>7, <1>8

\* A tuning starts at the start window; a window that is recalled is a gain.
LEMMA StartIsRight ==
    ASSUME NEW fitting \in Tried \cup {NoWindow}, NEW recalled \in Windows \cup {NoWindow},
           NEW sp \in [Windows -> Nat], NEW calm \in BOOLEAN, calm /\ recalled \in Tried => Gains(sp, recalled)
    PROVE  \/ TunerStart(fitting, recalled) = NoTuner
           \/ TunerOK(TunerStart(fitting, recalled), StartWindow, sp, calm)
<1> DEFINE t == TunerStart(fitting, recalled)
<1>1. CASE recalled # NoWindow /\ t # NoTuner
  <2>1. t = NewTuner("Recalled", recalled, <<>>) /\ recalled > StartWindow
    BY <1>1 DEF TunerStart
  <2>2. recalled \in Tried
    BY <1>1, <2>1, WindowFacts DEF Windows
  <2>3. <<>> \in Seq(Tried)
    BY EmptySeq
  <2>4. "Recalled" \in Phases /\ "Recalled" \notin Measuring /\ "Recalled" \notin StartPhases
    BY DEF Phases, Measuring, StartPhases
  <2>5. t.phase = "Recalled" /\ t.target = recalled
    BY <2>1 DEF NewTuner
  <2>6. t \in Running
    BY <2>1, <2>2, <2>3, <2>4 DEF NewTuner, Running
  <2>7. calm => MeasuredRight(t, sp)
    BY <2>2, <2>5 DEF MeasuredRight
  <2> HIDE DEF t
  <2> QED
    BY <2>4, <2>5, <2>6, <2>7 DEF TunerOK, WantsItsWindow, t
<1>2. CASE recalled = NoWindow /\ t # NoTuner
  <2>1. t = NewTuner("WarmUp", fitting, Below(fitting)) /\ fitting # NoWindow
    BY <1>2 DEF TunerStart
  <2>2. fitting \in Tried /\ Below(fitting) \in Seq(Tried)
    BY <2>1, BelowIsTried
  <2>3. "WarmUp" \in Phases /\ "WarmUp" \notin Measuring
    BY DEF Phases, Measuring, StartPhases
  <2>4. t.phase = "WarmUp"
    BY <2>1 DEF NewTuner
  <2>5. t \in Running
    BY <2>1, <2>2, <2>3 DEF NewTuner, Running
  <2> HIDE DEF t
  <2>6. TunerOK(t, StartWindow, sp, calm)
    BY <2>3, <2>4, <2>5 DEF TunerOK, WantsItsWindow, MeasuredRight
  <2> QED
    BY <2>6 DEF t
<1> QED
  BY <1>1, <1>2


-----------------------------------------------------------------------------
(***************************************************************************)
(* The worker.                                                             *)
(***************************************************************************)
LEMMA StateFacts ==
    ASSUME TypeOK
    PROVE  /\ speed \in [Windows -> Nat] /\ speed \in [Windows -> Speeds]
           /\ file \in Windows \cup {NoWindow} /\ at \in Windows \cup {NoWindow}
           /\ failed \in Windows \cup {NoWindow} /\ switchTo \in Windows \cup {NoWindow}
           /\ want \in Windows /\ pc \in {"loop", "begin", "mine", "gone", "dead"}
           /\ inflight \in 0 .. QueueDepth /\ (tuner # NoTuner => tuner \in Running)
           /\ begun \in BOOLEAN /\ preparing \in BOOLEAN /\ jit \in BOOLEAN /\ disturbed \in BOOLEAN
           /\ told \in [window : Windows \cup {NoWindow}, tuning : BOOLEAN]
           /\ gone \in 0 .. MaxGone /\ restarts \in 0 .. MaxRestarts
<1>1. tuner # NoTuner => tuner \in Running
  BY TunersAre DEF TypeOK
<1>2. speed \in [Windows -> Nat]
  BY CardAssumption DEF TypeOK
<1> QED
  BY <1>1, <1>2 DEF TypeOK

LEMMA EventType ==
    ASSUME NEW w \in Windows \cup {NoWindow}, NEW b \in BOOLEAN
    PROVE  Event(w, b) \in [window : Windows \cup {NoWindow}, tuning : BOOLEAN]
  BY DEF Event

\* What Tune::act makes of an answer that is right: it waits, has a switch to
\* make, or is over.
Acted(r, wanted, pending, prep, calm) ==
    /\ want' \in Windows /\ switchTo' \in Windows \cup {NoWindow} /\ tuner' \in Tuners
    /\ preparing' \in BOOLEAN /\ jit' \in BOOLEAN /\ file' \in Windows \cup {NoWindow}
    /\ told' \in [window : Windows \cup {NoWindow}, tuning : BOOLEAN]
    /\ calm => (file' \in Tried => Gains(speed, file'))
    /\ preparing' => prep
    /\ \/ /\ r.action.do = "Wait"
          /\ tuner' = r.tuner /\ TunerOK(tuner', want', speed, calm)
          /\ want' = wanted /\ switchTo' = pending /\ told' = told
       \/ /\ r.action.do = "Switch"
          /\ tuner' = r.tuner /\ TunerOK(tuner', want', speed, calm)
          /\ want' # wanted /\ switchTo' = want'
          /\ tuner'.phase \in SwitchPhases /\ (tuner'.phase = "Recalled" => want' = tuner'.target)
       \/ /\ r.action.do = "Done"
          /\ tuner' = NoTuner /\ want' = wanted /\ switchTo' = pending /\ told' = Event(want', FALSE)
          /\ calm => (want' \in Tried => Gains(speed, want'))

LEMMA ActIsRight ==
    ASSUME NEW wanted \in Windows, NEW pending \in Windows \cup {NoWindow}, NEW prep \in BOOLEAN, NEW calm \in BOOLEAN,
           TypeOK, NEW r, ResultOK(r, wanted, speed, calm), Act(r, wanted, pending, prep),
           calm => (file \in Tried => Gains(speed, file))
    PROVE  Acted(r, wanted, pending, prep, calm)
<1>1. /\ file \in Windows \cup {NoWindow} /\ told \in [window : Windows \cup {NoWindow}, tuning : BOOLEAN]
      /\ jit \in BOOLEAN
  BY StateFacts
<1>2. Wait.do = "Wait" /\ \A x, b : /\ Switch(x).do = "Switch" /\ Switch(x).window = x
                                    /\ Done(x, b).do = "Done" /\ Done(x, b).window = x /\ Done(x, b).remember = b
  BY DEF Wait, Switch, Done
<1>3. \A t \in Running : t \in Tuners
  BY TunersAre
<1>4. preparing' \in BOOLEAN /\ jit' \in BOOLEAN /\ (preparing' => prep)
  <2>1. preparing' = (prep /\ ~(r.action.do = "Done")) /\ jit' = (jit /\ preparing')
    BY DEF Act
  <2> QED
    BY <2>1
<1>5. CASE r.action = Wait /\ TunerOK(r.tuner, wanted, speed, calm)
  <2>1. r.action.do = "Wait"
    BY <1>2, <1>5
  <2>2. tuner' = r.tuner /\ want' = wanted /\ switchTo' = pending /\ told' = told /\ file' = file
    BY <2>1 DEF Act, Wanted, Tell
  <2>3. r.tuner \in Tuners
    BY <1>3, <1>5 DEF TunerOK
  <2> QED
    BY <1>1, <1>4, <1>5, <2>1, <2>2, <2>3 DEF Acted
<1>6. CASE \E v \in Windows : /\ r.action = Switch(v) /\ v # wanted
                              /\ TunerOK(r.tuner, v, speed, calm) /\ r.tuner.phase \in SwitchPhases
                              /\ r.tuner.phase = "Recalled" => v = r.tuner.target
  <2>1. PICK v \in Windows : /\ r.action = Switch(v) /\ v # wanted
                             /\ TunerOK(r.tuner, v, speed, calm) /\ r.tuner.phase \in SwitchPhases
                             /\ r.tuner.phase = "Recalled" => v = r.tuner.target
    BY <1>6
  <2>2. r.action.do = "Switch" /\ r.action.window = v
    BY <1>2, <2>1
  <2>3. tuner' = r.tuner /\ want' = v /\ switchTo' = v /\ told' = told /\ file' = file
    BY <2>2 DEF Act, Wanted, Tell
  <2>4. r.tuner \in Tuners
    BY <1>3, <2>1 DEF TunerOK
  <2> QED
    BY <1>1, <1>4, <2>1, <2>2, <2>3, <2>4 DEF Acted
<1>7. CASE \E v \in Windows, b \in BOOLEAN :
              /\ r.action = Done(v, b) /\ r.tuner = NoTuner
              /\ calm => (wanted \in Tried => Gains(speed, wanted)) /\ (b /\ v \in Tried => Gains(speed, v))
  <2>1. PICK v \in Windows, b \in BOOLEAN :
              /\ r.action = Done(v, b) /\ r.tuner = NoTuner
              /\ calm => (wanted \in Tried => Gains(speed, wanted)) /\ (b /\ v \in Tried => Gains(speed, v))
    BY <1>7
  <2>2. r.action.do = "Done" /\ r.action.window = v /\ r.action.remember = b
    BY <1>2, <2>1
  <2>3. tuner' = NoTuner /\ want' = wanted /\ switchTo' = pending /\ told' = Event(wanted, FALSE)
    BY <2>1, <2>2 DEF Act, Wanted, Tell
  <2>4. (b /\ file' = v) \/ file' = file
    <3>1. Remember(v, b)
      BY <2>2 DEF Act
    <3> QED
      BY <3>1 DEF Remember
  <2>5. told' \in [window : Windows \cup {NoWindow}, tuning : BOOLEAN]
    BY <2>3, EventType
  <2>6. NoTuner \in Tuners
    BY TunersAre
  <2>7. file' \in Windows \cup {NoWindow} /\ (calm => (file' \in Tried => Gains(speed, file')))
    BY <1>1, <2>1, <2>4
  <2> QED
    BY <1>4, <2>1, <2>2, <2>3, <2>5, <2>6, <2>7 DEF Acted
<1> QED
  BY <1>5, <1>6, <1>7 DEF ResultOK

LEMMA TuningStarts == Init => TuningInv
<1> SUFFICES ASSUME Init PROVE TuningInv
  OBVIOUS
<1>1. Untold \in [window : Windows \cup {NoWindow}, tuning : BOOLEAN]
  BY EventType DEF Untold
<1>2. /\ StartWindow \in Windows /\ StartWindow \notin Tried /\ NoWindow \notin Windows /\ NoWindow \notin Tried
      /\ NoTuner \in Tuners
  BY WindowFacts, TunersAre
<1>3. 0 \in 0 .. QueueDepth /\ 0 \in 0 .. MaxGone /\ 0 \in 0 .. MaxRestarts
  BY CardAssumption
<1>4. TypeOK
  BY <1>1, <1>2, <1>3 DEF Init, TypeOK
<1>5. StartsAtStart /\ SwitchIsWanted /\ MinesAtWanted /\ TunerIsRight /\ SaysWhatItWants
  BY DEF Init, StartsAtStart, SwitchIsWanted, MinesAtWanted, TunerIsRight, SaysWhatItWants
<1>6. Kept /\ FailsSoftly
  BY <1>2 DEF Init, Kept, FailsSoftly, BiggerWindowFailsSoftly
<1> QED
  BY <1>4, <1>5, <1>6 DEF TuningInv

\* MakeSwitch: the card is where it is wanted, or is asked for another window.
LEMMA SwitchKeeps ==
    ASSUME NEW ok \in BOOLEAN, TuningInv, MakeSwitch(ok)
    PROVE  TuningInv'
<1> DEFINE r == TunerSwitched(tuner, switchTo, ok)
<1> USE DEF TuningInv
<1>1. /\ pc = "loop" /\ switchTo # NoWindow /\ failed' = failed
      /\ at' = (IF ok THEN switchTo ELSE NoWindow)
      /\ Act(r, WantAfter(ok), NoWindow, preparing)
      /\ UNCHANGED <<speed, pc, inflight, begun, disturbed, bounds>>
  BY DEF MakeSwitch, FailedAfter
<1>2. /\ switchTo = want /\ at # want /\ tuner # NoTuner /\ tuner.phase \in SwitchPhases
      /\ tuner.phase = "Recalled" => want = tuner.target
  BY <1>1 DEF SwitchIsWanted
<1> PICK calm \in BOOLEAN : calm <=> ~disturbed
  OBVIOUS
<1>3. begun /\ TunerOK(tuner, want, speed, calm)
  BY <1>2 DEF TunerIsRight, TunerOK
<1>4. /\ speed \in [Windows -> Nat] /\ want \in Windows /\ calm \in BOOLEAN /\ preparing \in BOOLEAN
      /\ StartWindow \in Windows /\ NoWindow \notin Windows /\ NoWindow \notin Tried /\ StartWindow \notin Tried
  BY StateFacts, WindowFacts
<1>5. /\ ok => ResultOK(r, want, speed, calm) /\ r.action.do # "Switch"
      /\ ~ok => ResultOK(r, StartWindow, speed, calm) /\ r.action.do # "Wait"
      /\ r.tuner # NoTuner => tuner.phase # "Recalled" /\ r.tuner.phase = tuner.phase
  <2>1. want \in Windows /\ TunerOK(tuner, want, speed, calm) /\ speed \in [Windows -> Nat] /\ calm \in BOOLEAN
    BY <1>3, <1>4
  <2>2. tuner.phase \in SwitchPhases /\ (tuner.phase = "Recalled" => want = tuner.target) /\ switchTo = want
    BY <1>2
  <2> QED
    BY <2>1, <2>2, SwitchedIsRight
<1> HIDE DEF r
<1>6. ResultOK(r, WantAfter(ok), speed, calm) /\ WantAfter(ok) \in Windows
  <2>1. CASE ok
    <3>1. WantAfter(ok) = want
      BY <2>1 DEF WantAfter
    <3> QED
      BY <1>4, <1>5, <2>1, <3>1
  <2>2. CASE ~ok
    <3>1. WantAfter(ok) = StartWindow
      BY <2>2 DEF WantAfter
    <3> QED
      BY <1>4, <1>5, <2>2, <3>1
  <2> QED
    BY <2>1, <2>2
<1>7. calm => (file \in Tried => Gains(speed, file))
  BY DEF Kept
<1> DEFINE A == WantAfter(ok)
<1>8. Acted(r, A, NoWindow, preparing, calm)
  <2>1. TypeOK /\ A \in Windows /\ NoWindow \in Windows \cup {NoWindow} /\ preparing \in BOOLEAN /\ calm \in BOOLEAN
    BY <1>4, <1>6
  <2>2. ResultOK(r, A, speed, calm) /\ Act(r, A, NoWindow, preparing) /\ (calm => (file \in Tried => Gains(speed, file)))
    BY <1>1, <1>6, <1>7
  <2> HIDE DEF A, TuningInv
  <2> QED
    BY ONLY <2>1, <2>2, ActIsRight
<1>9. TypeOK'
  <2>1. at' \in Windows \cup {NoWindow}
    BY <1>1, <1>2, <1>4
  <2> QED
    BY <1>1, <1>8, <2>1 DEF TypeOK, bounds, Acted
<1>10. StartsAtStart'
  BY <1>1, <1>3 DEF StartsAtStart
<1>11. SwitchIsWanted' /\ MinesAtWanted'
  <2>1. r.action.do = "Switch" => at' # want'
    BY <1>1, <1>4, <1>5, <1>8 DEF Acted
  <2>2. switchTo' # NoWindow => r.action.do = "Switch" /\ tuner' # NoTuner
    BY <1>8, RunningFacts DEF TunerOK, Acted
  <2> QED
    BY <1>1, <1>8, <2>1, <2>2 DEF SwitchIsWanted, MinesAtWanted, Acted
<1>12. TunerIsRight'
  <2>1. tuner' # NoTuner => TunerOK(tuner', want', speed', ~disturbed')
    BY <1>1, <1>8 DEF TunerOK, Acted
  <2>2. tuner' # NoTuner => tuner'.phase # "Recalled"
    BY <1>5, <1>8 DEF Acted
  <2> QED
    BY <1>1, <1>3, <2>1, <2>2 DEF TunerIsRight
<1>13. SaysWhatItWants' /\ Kept'
  <2>1. tuner' = NoTuner => r.action.do = "Done"
    BY <1>8, RunningFacts DEF TunerOK, Acted
  <2>2. r.action.do = "Done" => told' = Event(want', FALSE) /\ (calm => (want' \in Tried => Gains(speed, want')))
    BY <1>8 DEF Acted
  <2> QED
    BY <1>1, <1>8, <2>1, <2>2 DEF SaysWhatItWants, Kept, Acted
<1>14. FailsSoftly'
  <2>1. switchTo' = NoWindow => at' = want' \/ want' = StartWindow
    <3>1. CASE ok
      BY <1>1, <1>2, <1>4, <1>5, <1>8, <3>1 DEF WantAfter, Acted
    <3>2. CASE ~ok
      BY <1>4, <1>8, <3>2 DEF WantAfter, Acted
    <3> QED
      BY <3>1, <3>2
  <2> QED
    BY <1>1, <2>1 DEF FailsSoftly, BiggerWindowFailsSoftly, bounds
<1> QED
  BY <1>9, <1>10, <1>11, <1>12, <1>13, <1>14


\* prepare_bc3: a kernel that is there, or one that is loaded now.
LEMMA KernelThereKeeps == TuningInv /\ KernelThere => TuningInv'
<1> SUFFICES ASSUME TuningInv, KernelThere PROVE TuningInv'
  OBVIOUS
<1> USE DEF TuningInv
<1>1. /\ pc = "loop" /\ switchTo = NoWindow /\ at = want /\ pc' = "begin"
      /\ UNCHANGED <<speed, file, at, failed, inflight, want, tuner, begun, preparing, jit, switchTo, told, disturbed, gone, restarts>>
  BY DEF KernelThere, tuneVars, bounds
<1>2. want \in Windows
  BY StateFacts
<1>3. TypeOK'
  BY <1>1 DEF TypeOK
<1>4. StartsAtStart' /\ SwitchIsWanted' /\ MinesAtWanted'
  BY <1>1, <1>2 DEF StartsAtStart, SwitchIsWanted, MinesAtWanted
<1>5. TunerIsRight' /\ SaysWhatItWants' /\ Kept'
  BY <1>1 DEF TunerIsRight, SaysWhatItWants, Kept
<1>6. FailsSoftly'
  BY <1>1 DEF FailsSoftly, BiggerWindowFailsSoftly
<1> QED
  BY <1>3, <1>4, <1>5, <1>6

LEMMA LoadKernelKeeps == ASSUME NEW ok \in BOOLEAN, TuningInv, LoadKernel(ok) PROVE TuningInv'
<1> USE DEF TuningInv
<1>1. /\ pc = "loop" /\ switchTo = NoWindow /\ at # want
      /\ at' = (IF ok THEN want ELSE NoWindow)
      /\ failed' = (IF ok THEN NoWindow ELSE want)
      /\ pc' = (IF ok THEN "begin" ELSE "loop")
      /\ UNCHANGED <<speed, file, inflight, want, tuner, begun, preparing, jit, switchTo, told, disturbed, gone, restarts>>
  BY DEF LoadKernel, tuneVars, bounds
<1>2. want \in Windows /\ StartWindow \notin Tried /\ NoWindow \notin Tried /\ gone \in Nat
  BY StateFacts, WindowFacts, CardAssumption
<1>3. TypeOK'
  <2>1. at' \in Windows \cup {NoWindow} /\ failed' \in Windows \cup {NoWindow} /\ pc' \in {"begin", "loop"}
    BY <1>1, <1>2
  <2> QED
    BY <1>1, <2>1 DEF TypeOK
<1>4. StartsAtStart' /\ SwitchIsWanted' /\ MinesAtWanted'
  BY <1>1, <1>2 DEF StartsAtStart, SwitchIsWanted, MinesAtWanted
<1>5. TunerIsRight' /\ SaysWhatItWants' /\ Kept'
  BY <1>1 DEF TunerIsRight, SaysWhatItWants, Kept
<1>6. FailsSoftly'
  <2>1. gone = 0 => want = StartWindow
    BY <1>1 DEF FailsSoftly
  <2>2. failed' \in Tried => gone' > 0
    BY <1>1, <1>2, <2>1
  <2>3. pc' # "gone" /\ (gone' = 0 /\ switchTo' = NoWindow => at' = want' \/ want' = StartWindow)
    BY <1>1, <2>1
  <2> QED
    BY <2>2, <2>3 DEF FailsSoftly, BiggerWindowFailsSoftly
<1> QED
  BY <1>3, <1>4, <1>5, <1>6

\* Tune::begin.
LEMMA BeginKeeps ==
    ASSUME NEW fitting \in Fitting, NEW compiles \in BOOLEAN, TuningInv, Begin(fitting, compiles)
    PROVE  TuningInv'
<1> USE DEF TuningInv
<1>1. /\ pc = "begin" /\ pc' = "mine" /\ inflight' = QueueDepth
      /\ UNCHANGED <<speed, file, at, failed, want, switchTo, disturbed, gone, restarts>>
  BY DEF Begin, tuneVars, bounds
<1>2. switchTo = NoWindow /\ at = want /\ at \in Windows
  BY <1>1 DEF SwitchIsWanted, MinesAtWanted
<1>3. QueueDepth \in 0 .. QueueDepth
  BY CardAssumption
<1>4. SwitchIsWanted' /\ MinesAtWanted' /\ FailsSoftly'
  BY <1>1, <1>2 DEF SwitchIsWanted, MinesAtWanted, FailsSoftly, BiggerWindowFailsSoftly
<1>5. CASE begun \/ at # StartWindow
  <2>1. UNCHANGED <<want, tuner, begun, preparing, jit, switchTo, told>>
    BY <1>5 DEF Begin, tuneVars
  <2>2. TypeOK'
    BY <1>1, <1>3, <2>1 DEF TypeOK
  <2>3. StartsAtStart' /\ TunerIsRight' /\ SaysWhatItWants' /\ Kept'
    BY <1>1, <2>1 DEF StartsAtStart, TunerIsRight, SaysWhatItWants, Kept
  <2> QED
    BY <1>4, <2>2, <2>3
<1>6. CASE ~(begun \/ at # StartWindow)
  <2> PICK calm \in BOOLEAN : calm <=> ~disturbed
    OBVIOUS
  <2>1. /\ begun' = TRUE /\ tuner' = TunerStart(fitting, file)
        /\ told' = Event(want, tuner'.phase = "WarmUp")
        /\ preparing' = (tuner' # NoTuner)
        /\ jit' = (tuner' # NoTuner /\ compiles)
    BY <1>6 DEF Begin
  <2>2. want = StartWindow /\ at = StartWindow /\ StartWindow \notin Tried /\ StartWindow \in Windows
    BY <1>2, <1>6, WindowFacts
  <2>3. fitting \in Tried \cup {NoWindow} /\ file \in Windows \cup {NoWindow} /\ speed \in [Windows -> Nat]
    BY FittingIsTried, StateFacts
  <2>4. calm /\ file \in Tried => Gains(speed, file)
    BY DEF Kept
  <2>5. tuner' = NoTuner \/ TunerOK(tuner', StartWindow, speed, calm)
    BY <2>1, <2>3, <2>4, StartIsRight
  <2>6. tuner' \in Tuners
    BY <2>5, TunersAre DEF TunerOK
  <2>7. /\ told' \in [window : Windows \cup {NoWindow}, tuning : BOOLEAN]
        /\ begun' \in BOOLEAN /\ preparing' \in BOOLEAN /\ jit' \in BOOLEAN
    <3>1. told' \in [window : Windows \cup {NoWindow}, tuning : BOOLEAN]
      BY <2>1, <2>2, EventType
    <3>2. begun' \in BOOLEAN /\ preparing' \in BOOLEAN /\ jit' \in BOOLEAN
      BY <2>1
    <3> QED
      BY <3>1, <3>2
  <2>8. TypeOK'
    BY <1>1, <1>3, <2>6, <2>7 DEF TypeOK
  <2>9. tuner' = NoTuner => told' = Event(want', FALSE)
    <3> SUFFICES ASSUME tuner' = NoTuner PROVE told' = Event(want, FALSE)
      BY <1>1
    <3>1. (tuner'.phase = "WarmUp") = FALSE
      BY DEF NoTuner
    <3> QED
      BY <2>1, <3>1
  <2>10. tuner' # NoTuner => TunerOK(tuner', want', speed', ~disturbed')
    BY <1>1, <2>2, <2>5 DEF TunerOK
  <2>11. StartsAtStart' /\ TunerIsRight' /\ SaysWhatItWants'
    BY <1>1, <1>2, <2>1, <2>2, <2>9, <2>10 DEF StartsAtStart, TunerIsRight, SaysWhatItWants
  <2>12. Kept'
    BY <1>1, <2>2 DEF Kept
  <2> QED
    BY <1>4, <2>8, <2>11, <2>12
<1> QED
  BY <1>5, <1>6

\* The compile ahead is over; the launches are done; the device stops
\* answering, is opened again or given up; the miner is started again.
LEMMA CompiledAheadKeeps == TuningInv /\ CompiledAhead => TuningInv'
<1> SUFFICES ASSUME TuningInv, CompiledAhead PROVE TuningInv'
  OBVIOUS
<1> USE DEF TuningInv
<1>1. /\ jit' = FALSE
      /\ UNCHANGED <<speed, file, pc, at, failed, inflight, want, tuner, begun, preparing, switchTo, told, disturbed, gone, restarts>>
  BY DEF CompiledAhead, loopVars, bounds
<1>2. TypeOK'
  BY <1>1 DEF TypeOK
<1>3. StartsAtStart' /\ SwitchIsWanted' /\ MinesAtWanted' /\ SaysWhatItWants' /\ Kept'
  BY <1>1 DEF StartsAtStart, SwitchIsWanted, MinesAtWanted, SaysWhatItWants, Kept
<1>4. TunerIsRight' /\ FailsSoftly'
  BY <1>1 DEF TunerIsRight, FailsSoftly, BiggerWindowFailsSoftly
<1> QED
  BY <1>2, <1>3, <1>4

LEMMA RunEndsKeeps == TuningInv /\ RunEnds => TuningInv'
<1> SUFFICES ASSUME TuningInv, RunEnds PROVE TuningInv'
  OBVIOUS
<1> USE DEF TuningInv
<1>1. /\ pc' = "loop"
      /\ UNCHANGED <<speed, file, at, failed, inflight, want, tuner, begun, preparing, jit, switchTo, told, disturbed, gone, restarts>>
  BY DEF RunEnds, tuneVars, bounds
<1>2. TypeOK'
  BY <1>1 DEF TypeOK
<1>3. StartsAtStart' /\ SwitchIsWanted' /\ MinesAtWanted' /\ SaysWhatItWants' /\ Kept'
  BY <1>1 DEF StartsAtStart, SwitchIsWanted, MinesAtWanted, SaysWhatItWants, Kept
<1>4. TunerIsRight' /\ FailsSoftly'
  BY <1>1 DEF TunerIsRight, FailsSoftly, BiggerWindowFailsSoftly
<1> QED
  BY <1>2, <1>3, <1>4

LEMMA DeviceGoneKeeps == TuningInv /\ DeviceGone => TuningInv'
<1> SUFFICES ASSUME TuningInv, DeviceGone PROVE TuningInv'
  OBVIOUS
<1> USE DEF TuningInv
<1>1. /\ pc' = "gone" /\ inflight' = 0 /\ gone < MaxGone /\ gone' = gone + 1
      /\ UNCHANGED <<speed, file, at, failed, want, tuner, begun, preparing, jit, switchTo, told, disturbed, restarts>>
  BY DEF DeviceGone, tuneVars
<1>2. gone' \in 0 .. MaxGone /\ gone' > 0 /\ 0 \in 0 .. QueueDepth
  BY <1>1, StateFacts, CardAssumption
<1>3. TypeOK'
  BY <1>1, <1>2 DEF TypeOK
<1>4. StartsAtStart' /\ SwitchIsWanted' /\ MinesAtWanted' /\ SaysWhatItWants' /\ Kept'
  BY <1>1 DEF StartsAtStart, SwitchIsWanted, MinesAtWanted, SaysWhatItWants, Kept
<1>5. TunerIsRight'
  BY <1>1 DEF TunerIsRight
<1>6. FailsSoftly'
  BY <1>2 DEF FailsSoftly, BiggerWindowFailsSoftly
<1> QED
  BY <1>3, <1>4, <1>5, <1>6

LEMMA ReopenKeeps == ASSUME NEW ok \in BOOLEAN, TuningInv, Reopen(ok) PROVE TuningInv'
<1> USE DEF TuningInv
<1>1. /\ pc = "gone" /\ pc' = (IF ok THEN "loop" ELSE "dead") /\ at' = NoWindow
      /\ failed' = (IF ok THEN NoWindow ELSE failed)
      /\ UNCHANGED <<speed, file, inflight, want, tuner, begun, preparing, jit, switchTo, told, disturbed, gone, restarts>>
  BY DEF Reopen, tuneVars, bounds
<1>2. want \in Windows /\ NoWindow \notin Windows /\ failed \in Windows \cup {NoWindow} /\ gone > 0 /\ gone \in Nat
  BY <1>1, StateFacts, WindowFacts, CardAssumption DEF FailsSoftly
<1>3. TypeOK'
  <2>1. failed' \in Windows \cup {NoWindow} /\ pc' \in {"loop", "dead"}
    BY <1>1, <1>2
  <2> QED
    BY <1>1, <2>1 DEF TypeOK
<1>4. StartsAtStart' /\ SwitchIsWanted' /\ MinesAtWanted' /\ SaysWhatItWants' /\ Kept'
  BY <1>1, <1>2 DEF StartsAtStart, SwitchIsWanted, MinesAtWanted, SaysWhatItWants, Kept
<1>5. TunerIsRight'
  BY <1>1 DEF TunerIsRight
<1>6. FailsSoftly'
  BY <1>1, <1>2 DEF FailsSoftly, BiggerWindowFailsSoftly
<1> QED
  BY <1>3, <1>4, <1>5, <1>6

LEMMA RestartKeeps == TuningInv /\ Restart => TuningInv'
<1> SUFFICES ASSUME TuningInv, Restart PROVE TuningInv'
  OBVIOUS
<1> USE DEF TuningInv
<1>1. /\ restarts < MaxRestarts /\ restarts' = restarts + 1
      /\ pc' = "loop" /\ at' = NoWindow /\ failed' = NoWindow /\ inflight' = 0
      /\ want' = StartWindow /\ tuner' = NoTuner /\ begun' = FALSE
      /\ preparing' = FALSE /\ jit' = FALSE /\ switchTo' = NoWindow /\ told' = Untold
      /\ UNCHANGED <<speed, file, disturbed, gone>>
  BY DEF Restart
<1>2. /\ restarts' \in 0 .. MaxRestarts /\ 0 \in 0 .. QueueDepth
      /\ StartWindow \in Windows /\ StartWindow \notin Tried /\ NoWindow \notin Tried /\ NoTuner \in Tuners
      /\ Untold \in [window : Windows \cup {NoWindow}, tuning : BOOLEAN]
  <2>1. restarts' \in 0 .. MaxRestarts /\ 0 \in 0 .. QueueDepth
    BY <1>1, StateFacts, CardAssumption
  <2>2. Untold \in [window : Windows \cup {NoWindow}, tuning : BOOLEAN]
    BY EventType DEF Untold
  <2> QED
    BY <2>1, <2>2, WindowFacts, TunersAre
<1>3. TypeOK'
  BY <1>1, <1>2 DEF TypeOK
<1>4. StartsAtStart' /\ SwitchIsWanted' /\ MinesAtWanted' /\ SaysWhatItWants' /\ TunerIsRight'
  BY <1>1 DEF StartsAtStart, SwitchIsWanted, MinesAtWanted, SaysWhatItWants, TunerIsRight
<1>5. Kept' /\ FailsSoftly'
  BY <1>1, <1>2 DEF Kept, FailsSoftly, BiggerWindowFailsSoftly
<1> QED
  BY <1>3, <1>4, <1>5


-----------------------------------------------------------------------------
\* What the tuner answers when a launch is back (Tune::launched).
Answer(h) ==
    LET ready == preparing /\ ~jit
        r == TunerReady(tuner)
    IN  CASE ready /\ r.action # Wait -> r
          [] ready /\ r.action = Wait -> TunerLaunched(r.tuner, at, h)
          [] ~ready -> TunerLaunched(tuner, at, h)

\* It is right, and changes no phase while a switch is to be made.
LEMMA AnswerIsRight ==
    ASSUME NEW h \in Nat, NEW calm \in BOOLEAN, TuningInv, pc = "mine", tuner # NoTuner,
           calm => ~disturbed /\ h = speed[at]
    PROVE  /\ ResultOK(Answer(h), want, speed, calm)
           /\ at # want => Answer(h).action.do = "Wait" /\ Answer(h).tuner.phase = tuner.phase /\ Answer(h).tuner.target = tuner.target
           /\ preparing /\ ~(preparing /\ ~jit) /\ tuner.phase = "Recalled" => Answer(h) = Result(tuner, Wait)
           /\ tuner.phase # "Recalled" => Answer(h).tuner.phase # "Recalled"
<1> USE DEF TuningInv
<1>1. at \in Windows /\ (switchTo = NoWindow => at = want)
  BY DEF MinesAtWanted
<1>2. PICK quiet \in BOOLEAN : quiet <=> ~disturbed
  OBVIOUS
<1>3. TunerOK(tuner, want, speed, quiet) /\ (preparing /\ tuner.phase = "Recalled" => want = StartWindow /\ at = want)
  BY <1>1, <1>2 DEF TunerIsRight, TunerOK
<1>4. speed \in [Windows -> Nat] /\ want \in Windows /\ preparing \in BOOLEAN /\ jit \in BOOLEAN /\ tuner \in Running
  BY StateFacts
<1>5. TunerOK(tuner, want, speed, calm)
  BY <1>2, <1>3 DEF TunerOK
<1>6. calm => quiet /\ h = speed[at]
  BY <1>2
<1>7. Result(tuner, Wait).action.do = "Wait" /\ Result(tuner, Wait).tuner = tuner
  BY DEF Result, Wait
<1>8. CASE ~(preparing /\ ~jit)
  <2>1. Answer(h) = TunerLaunched(tuner, at, h)
    BY <1>8 DEF Answer
  <2>2. /\ ResultOK(TunerLaunched(tuner, at, h), want, speed, calm)
        /\ at # want \/ tuner.phase = "Recalled" => TunerLaunched(tuner, at, h) = Result(tuner, Wait)
        /\ tuner.phase # "Recalled" => TunerLaunched(tuner, at, h).tuner.phase # "Recalled"
    BY <1>1, <1>3, <1>4, <1>6, LaunchIsRight
  <2> QED
    BY <1>7, <2>1, <2>2
<1>9. CASE preparing /\ ~jit
  <2> DEFINE r == TunerReady(tuner)
  <2>1. /\ r.tuner.phase = tuner.phase
        /\ tuner.phase = "Recalled" => ResultOK(r, want, speed, calm) /\ r.action # Wait
        /\ tuner.phase # "Recalled" => TunerOK(r.tuner, want, speed, calm) /\ r.action = Wait
    BY <1>3, <1>4, <1>5, <1>9, ReadyIsRight
  <2>2. Answer(h) = IF r.action # Wait THEN r ELSE TunerLaunched(r.tuner, at, h)
    BY <1>9 DEF Answer
  <2>3. r.tuner.target = tuner.target
    BY <1>4 DEF TunerReady, Result, Running
  <2> HIDE DEF r
  <2>4. CASE tuner.phase = "Recalled"
    BY <1>3, <1>9, <2>1, <2>2, <2>4
  <2>5. CASE tuner.phase # "Recalled"
    <3>1. Answer(h) = TunerLaunched(r.tuner, at, h)
      BY <2>1, <2>2, <2>5
    <3>2. /\ ResultOK(TunerLaunched(r.tuner, at, h), want, speed, calm)
          /\ at # want \/ r.tuner.phase = "Recalled" => TunerLaunched(r.tuner, at, h) = Result(r.tuner, Wait)
          /\ r.tuner.phase # "Recalled" => TunerLaunched(r.tuner, at, h).tuner.phase # "Recalled"
      <4>1. TunerOK(r.tuner, want, speed, calm) /\ (calm => calm /\ h = speed[at])
        BY <1>6, <2>1, <2>5
      <4> QED
        BY <1>1, <1>4, <4>1, LaunchIsRight
    <3>3. Result(r.tuner, Wait).action.do = "Wait" /\ Result(r.tuner, Wait).tuner = r.tuner
      BY DEF Result, Wait
    <3> QED
      BY <1>9, <2>1, <2>3, <2>5, <3>1, <3>2, <3>3
  <2> QED
    BY <2>4, <2>5
<1> QED
  BY <1>8, <1>9

\* pump: a launch is back.
LEMMA LaunchKeeps ==
    ASSUME NEW dip \in BOOLEAN, NEW more \in BOOLEAN, TuningInv, LaunchBack(dip, more)
    PROVE  TuningInv'
<1> DEFINE h == speed[at] - (IF dip THEN Dip ELSE 0)
           R == Answer(h)
           prep == preparing /\ ~(preparing /\ ~jit)
<1> USE DEF TuningInv
<1>1. /\ pc = "mine" /\ inflight > 0 /\ Launched(h)
      /\ disturbed' = (disturbed \/ dip)
      /\ UNCHANGED <<speed, pc, at, failed, gone, restarts>>
  BY DEF LaunchBack, bounds
<1>2. inflight' \in 0 .. QueueDepth /\ disturbed' \in BOOLEAN
  <2>1. inflight' \in {QueueDepth, inflight - 1}
    BY DEF LaunchBack
  <2>2. inflight \in 0 .. QueueDepth /\ QueueDepth \in Nat /\ disturbed \in BOOLEAN
    BY StateFacts, CardAssumption
  <2>3. inflight' \in 0 .. QueueDepth
    BY <1>1, <2>1, <2>2
  <2>4. disturbed' \in BOOLEAN
    BY <1>1
  <2> QED
    BY <2>3, <2>4
<1>3. at \in Windows /\ (switchTo = NoWindow => at = want)
  BY <1>1 DEF MinesAtWanted
<1>4. /\ speed \in [Windows -> Nat] /\ want \in Windows /\ switchTo \in Windows \cup {NoWindow}
      /\ preparing \in BOOLEAN /\ jit \in BOOLEAN /\ disturbed \in BOOLEAN /\ begun \in BOOLEAN
  BY StateFacts
<1>5. h \in Nat /\ (~dip => h = speed[at])
  <2>1. speed[at] \in Nat /\ Dip \in Nat /\ Dip <= speed[at]
    BY <1>3, StateFacts, CardAssumption
  <2>2. CASE dip
    BY <2>1, <2>2
  <2>3. CASE ~dip
    BY <2>1, <2>3
  <2> QED
    BY <2>2, <2>3
<1> HIDE DEF h
<1>6. CASE tuner = NoTuner
  <2>1. UNCHANGED <<want, tuner, begun, preparing, jit, switchTo, told, file>>
    BY <1>1, <1>6 DEF Launched, tuneVars
  <2>2. TypeOK'
    BY <1>1, <1>2, <2>1 DEF TypeOK
  <2>3. StartsAtStart' /\ SwitchIsWanted' /\ MinesAtWanted' /\ SaysWhatItWants' /\ TunerIsRight'
    BY <1>1, <1>6, <2>1 DEF StartsAtStart, SwitchIsWanted, MinesAtWanted, SaysWhatItWants, TunerIsRight
  <2>4. Kept' /\ FailsSoftly'
    BY <1>1, <2>1 DEF Kept, FailsSoftly, BiggerWindowFailsSoftly
  <2> QED
    BY <2>2, <2>3, <2>4
<1>7. CASE tuner # NoTuner
  <2>1. Act(R, want, switchTo, prep) /\ begun' = begun
    BY <1>1, <1>7 DEF Launched, Answer
  <2> PICK calm \in BOOLEAN : calm <=> ~disturbed'
    OBVIOUS
  <2>2. calm => ~disturbed /\ h = speed[at]
    BY <1>1, <1>5
  <2>3. /\ ResultOK(R, want, speed, calm)
        /\ at # want => R.action.do = "Wait" /\ R.tuner.phase = tuner.phase /\ R.tuner.target = tuner.target
        /\ prep /\ tuner.phase = "Recalled" => R = Result(tuner, Wait)
        /\ tuner.phase # "Recalled" => R.tuner.phase # "Recalled"
    BY <1>1, <1>5, <1>7, <2>2, AnswerIsRight
  <2>4. prep \in BOOLEAN
    OBVIOUS
  <2>5. prep => preparing
    OBVIOUS
  <2> HIDE DEF R, prep
  <2>6. Acted(R, want, switchTo, prep, calm)
    <3>1. TypeOK /\ want \in Windows /\ switchTo \in Windows \cup {NoWindow} /\ prep \in BOOLEAN /\ calm \in BOOLEAN
      BY <1>4, <2>4
    <3>2. ResultOK(R, want, speed, calm) /\ Act(R, want, switchTo, prep) /\ (calm => (file \in Tried => Gains(speed, file)))
      BY <2>1, <2>2, <2>3 DEF Kept
    <3> HIDE DEF TuningInv
    <3> QED
      BY ONLY <3>1, <3>2, ActIsRight
  <2>7. begun /\ (preparing /\ tuner.phase = "Recalled" => want = StartWindow /\ switchTo = NoWindow)
    BY <1>7 DEF TunerIsRight
  <2>8. switchTo # NoWindow => /\ switchTo = want /\ at # want /\ tuner.phase \in SwitchPhases
                               /\ tuner.phase = "Recalled" => want = tuner.target
    BY DEF SwitchIsWanted
  <2>9. TypeOK'
    BY <1>1, <1>2, <2>1, <2>6 DEF TypeOK, Acted
  <2>10. StartsAtStart'
    BY <2>1, <2>7 DEF StartsAtStart
  <2>11. tuner' # NoTuner => TunerOK(tuner', want', speed', ~disturbed')
    BY <1>1, <2>6 DEF Acted, TunerOK
  <2>12. tuner' = NoTuner => R.action.do = "Done"
    BY <2>6, RunningFacts DEF Acted, TunerOK
  <2>13. R.action.do # "Wait" => at = want /\ switchTo = NoWindow
    BY <1>3, <2>3, <2>8
  <2>14. SwitchIsWanted' /\ MinesAtWanted'
    <3>1. CASE R.action.do = "Wait"
      <4>1. want' = want /\ switchTo' = switchTo /\ tuner' = R.tuner /\ tuner' # NoTuner
        BY <2>6, <2>12, <3>1 DEF Acted
      <4>2. MinesAtWanted'
        BY <1>1, <1>3, <4>1 DEF MinesAtWanted
      <4>3. SwitchIsWanted'
        BY <1>1, <2>3, <2>8, <4>1 DEF SwitchIsWanted
      <4> QED
        BY <4>2, <4>3
    <3>2. CASE R.action.do = "Switch"
      <4>1. /\ want' # want /\ switchTo' = want' /\ tuner' # NoTuner /\ want' \in Windows
            /\ tuner'.phase \in SwitchPhases /\ (tuner'.phase = "Recalled" => want' = tuner'.target)
        BY <2>6, <2>12, <3>2 DEF Acted
      <4>2. switchTo' # NoWindow
        BY <4>1, WindowFacts
      <4> QED
        BY <1>1, <1>3, <2>13, <3>2, <4>1, <4>2 DEF SwitchIsWanted, MinesAtWanted
    <3>3. CASE R.action.do = "Done"
      <4>1. want' = want /\ switchTo' = NoWindow
        BY <2>6, <2>13, <3>3 DEF Acted
      <4> QED
        BY <1>1, <1>3, <2>13, <3>3, <4>1 DEF SwitchIsWanted, MinesAtWanted
    <3> QED
      BY <2>6, <3>1, <3>2, <3>3 DEF Acted
  <2>15. TunerIsRight'
    <3>1. ASSUME tuner' # NoTuner, preparing', tuner'.phase = "Recalled"
          PROVE  want' = StartWindow /\ switchTo' = NoWindow
      <4>1. prep /\ preparing /\ tuner' = R.tuner
        BY <2>5, <2>6, <3>1 DEF Acted
      <4>2. tuner.phase = "Recalled"
        BY <2>3, <3>1, <4>1
      <4>3. R.action.do = "Wait"
        <5>1. R = Result(tuner, Wait)
          BY <2>3, <4>1, <4>2
        <5> QED
          BY <5>1 DEF Result, Wait
      <4>4. want' = want /\ switchTo' = switchTo
        BY <2>6, <4>3 DEF Acted
      <4> QED
        BY <2>7, <4>1, <4>2, <4>4
    <3> QED
      BY <2>1, <2>7, <2>11, <3>1 DEF TunerIsRight
  <2>16. SaysWhatItWants' /\ Kept'
    <3>1. tuner' = NoTuner => told' = Event(want', FALSE) /\ (calm => (want' \in Tried => Gains(speed, want')))
      BY <2>6, <2>12 DEF Acted
    <3>2. calm => (file' \in Tried => Gains(speed, file'))
      BY <2>6 DEF Acted
    <3> QED
      BY <1>1, <3>1, <3>2 DEF SaysWhatItWants, Kept
  <2>17. FailsSoftly'
    <3>1. switchTo' = NoWindow => want' = want /\ switchTo = NoWindow
      <4>1. R.action.do = "Switch" => switchTo' # NoWindow
        BY <2>6, WindowFacts DEF Acted
      <4> QED
        BY <2>6, <4>1 DEF Acted
    <3> QED
      BY <1>1, <3>1 DEF FailsSoftly, BiggerWindowFailsSoftly
  <2> QED
    BY <2>9, <2>10, <2>14, <2>15, <2>16, <2>17
<1> QED
  BY <1>6, <1>7

LEMMA TuningStutters == TuningInv /\ UNCHANGED vars => TuningInv'
<1> SUFFICES ASSUME TuningInv, UNCHANGED vars PROVE TuningInv'
  OBVIOUS
<1>1. UNCHANGED <<speed, file, pc, at, failed, inflight, want, tuner, begun, preparing, jit, switchTo, told, disturbed, gone, restarts>>
  BY DEF vars, loopVars, tuneVars, bounds
<1>2. TypeOK'
  BY <1>1 DEF TuningInv, TypeOK
<1>3. StartsAtStart' /\ SwitchIsWanted' /\ MinesAtWanted' /\ SaysWhatItWants' /\ Kept'
  BY <1>1 DEF TuningInv, StartsAtStart, SwitchIsWanted, MinesAtWanted, SaysWhatItWants, Kept
<1>4. TunerIsRight' /\ FailsSoftly'
  BY <1>1 DEF TuningInv, TunerIsRight, FailsSoftly, BiggerWindowFailsSoftly
<1> QED
  BY <1>2, <1>3, <1>4 DEF TuningInv

LEMMA TuningKeeps == TuningInv /\ [Next]_vars => TuningInv'
<1> SUFFICES ASSUME TuningInv, [Next]_vars PROVE TuningInv'
  OBVIOUS
<1>1. CASE KernelThere \/ CompiledAhead \/ RunEnds \/ DeviceGone \/ Restart
  BY <1>1, KernelThereKeeps, CompiledAheadKeeps, RunEndsKeeps, DeviceGoneKeeps, RestartKeeps
<1>2. CASE DriverReturns
  BY <1>2, SwitchKeeps, LoadKernelKeeps, ReopenKeeps DEF DriverReturns
<1>3. CASE Begins
  BY <1>3, BeginKeeps DEF Begins
<1>4. CASE ALaunchBack
  BY <1>4, LaunchKeeps DEF ALaunchBack
<1>5. CASE UNCHANGED vars
  BY <1>5, TuningStutters
<1> QED
  BY <1>1, <1>2, <1>3, <1>4, <1>5 DEF Next

\* The inductive invariant of the tuning: switches, measurements and what is
\* told agree, in every state of Tune and of run_gpu_worker's loop.
THEOREM TuningIsRight == Spec => []TuningInv
<1>1. TuningInv /\ [Next]_vars => TuningInv'
  BY TuningKeeps
<1> QED
  BY TuningStarts, <1>1, PTL DEF Spec

\* The state of Tune, of the worker's loop and of the file keeps its type.
THEOREM TuningTypeCorrect == Spec => []TypeOK
<1>1. TuningInv => TypeOK
  BY DEF TuningInv
<1> QED
  BY TuningIsRight, <1>1, PTL

\* Tuner::launched and Tuner::switched keep a bigger window, and
\* tuning::remember writes one, only if the card is faster with it, unless
\* something disturbed a launch.
THEOREM WhatIsKeptIsFaster == Spec => []KeptIsFaster
<1>1. TuningInv => KeptIsFaster
  <2> SUFFICES ASSUME TuningInv PROVE KeptIsFaster
    OBVIOUS
  <2>1. want # StartWindow => want \in Tried
    BY StateFacts DEF TuningInv, Windows
  <2> QED
    BY <2>1 DEF TuningInv, Kept, KeptIsFaster, Gains
<1> QED
  BY TuningIsRight, <1>1, PTL

\* Once a tuning is over, the window of the last Event::Tables (Tune::act) is
\* the one pump's launches hash at.
THEOREM WhatIsToldIsMined == Spec => []ToldWindowIsMined
<1>1. TuningInv => ToldWindowIsMined
  BY DEF TuningInv, ToldWindowIsMined, SaysWhatItWants, SwitchIsWanted, MinesAtWanted
<1> QED
  BY TuningIsRight, <1>1, PTL

\* On a device that was not reopened, switch_bc3 and prepare_bc3 never set
\* bc3_failed to a bigger window.
THEOREM FailureIsSoft == Spec => []BiggerWindowFailsSoftly
<1>1. TuningInv => BiggerWindowFailsSoftly
  BY DEF TuningInv, FailsSoftly
<1> QED
  BY TuningIsRight, <1>1, PTL
=============================================================================
