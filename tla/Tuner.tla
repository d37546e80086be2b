------------------------------- MODULE Tuner -------------------------------
(***************************************************************************)
(* The decision which BC3Hash table window a card mines at                 *)
(* (src/src/tuning.rs: Tuner): measure the start window, the largest that  *)
(* fits and the start window again, and keep the bigger one only if it is  *)
(* faster.  Pure: each operator takes a tuner and an event and returns the *)
(* tuner after it with what the worker has to do.                          *)
(*                                                                         *)
(* GPU time is counted in launches, and a rate is the hashes of one        *)
(* measurement, all of which are equally long.                             *)
(***************************************************************************)
EXTENDS Naturals, FiniteSets, SequencesExt

CONSTANTS
    StartWindow,    \* START_WINDOW
    Bigger,         \* BIGGER, largest first
    WarmUp,         \* WARM_UP,
    SettleTime,     \* SETTLE and
    Measure         \* MEASURE, in launches

Tried == {Bigger[i] : i \in DOMAIN Bigger}

ASSUME TunerAssumption ==
    /\ StartWindow \in Nat \ {0}
    /\ Bigger \in Seq(Nat)
    /\ \A i \in DOMAIN Bigger : Bigger[i] > StartWindow
    /\ \A i, j \in DOMAIN Bigger : i < j => Bigger[i] > Bigger[j]
    /\ WarmUp \in Nat \ {0} /\ SettleTime \in Nat \ {0} /\ Measure \in Nat \ {0}

NoWindow == 0       \* None, for an Option<u32> of windows
NoTuner == [phase |-> "Finished"]

\* MIN_GAIN and MAX_DRIFT, in thousandths.
MinGain == 5
MaxDrift == 50

-----------------------------------------------------------------------------
(***************************************************************************)
(* What a window's tables take on the card, in units of 256 bytes: the     *)
(* four curves' points, 64 bytes each, for one place in the table.         *)
(***************************************************************************)
MiB == 4096
VramSpare == 1024 * MiB
PowerTables == 1344

\* The widths of the digits a 256-bit scalar is cut into; 22 and 24 are mixed.
Digits(window) ==
    CASE window \in 2..20 -> [i \in 1..((255 + window) \div window) |-> window]
      [] window = 22 -> [i \in 1..12 |-> IF i <= 8 THEN 21 ELSE 22]
      [] window = 24 -> [i \in 1..11 |-> IF i <= 8 THEN 23 ELSE 24]
      [] OTHER -> <<>>

\* A row per digit, of 2^width - 1 places, filled or not.
Places(window) == FoldSeq(LAMBDA width, sum : sum + 2 ^ width - 1, 0, Digits(window))

TableSize(window) == IF Digits(window) = <<>> THEN 0 ELSE PowerTables + Places(window)

\* The first window of Bigger that fits with room to spare, or NoWindow.
LargestFitting(free) ==
    LET fits == {i \in DOMAIN Bigger : TableSize(Bigger[i]) + VramSpare <= free}
    IN  IF fits = {} THEN NoWindow ELSE Bigger[Min(fits)]

-----------------------------------------------------------------------------
\* Mined and hashed at the start window, or at the target.
StartPhases == {"WarmUp", "MeasureStart", "SettleBack", "MeasureBack"}
TargetPhases == {"Settle", "MeasureTarget"}
Measuring == {"MeasureStart", "MeasureTarget", "MeasureBack"}

Length(phase) ==
    CASE phase = "WarmUp" -> WarmUp
      [] phase \in {"Settle", "SettleBack"} -> SettleTime
      [] OTHER -> Measure

-----------------------------------------------------------------------------
\* What the worker should do next.
Wait == [do |-> "Wait"]
Switch(w) == [do |-> "Switch", window |-> w]
Done(w, remember) == [do |-> "Done", window |-> w, remember |-> remember]

Result(t, action) == [tuner |-> t, action |-> action]

NewTuner(phase, target, fallback) ==
    [phase |-> phase, target |-> target, fallback |-> fallback, ready |-> FALSE,
     mined |-> 0, hashes |-> 0, before |-> 0, tried |-> 0, remember |-> FALSE]

\* What is smaller than w: as Bigger descends, its end.
Below(w) == SubSeq(Bigger, Cardinality({i \in DOMAIN Bigger : Bigger[i] >= w}) + 1, Len(Bigger))

\* Tuner::start; its first action is always to get the target ready.  A
\* remembered window still has to fit, and has no fallback.
TunerStart(fitting, recalled) ==
    CASE fitting = NoWindow -> NoTuner
      [] fitting # NoWindow /\ recalled # NoWindow ->
            IF recalled > StartWindow /\ recalled <= fitting
            THEN NewTuner("Recalled", recalled, <<>>) ELSE NoTuner
      [] OTHER -> NewTuner("WarmUp", fitting, Below(fitting))

-----------------------------------------------------------------------------
\* Only launches at the window the phase expects count.
Counts(t, w) ==
    \/ t.phase \in StartPhases /\ w = StartWindow /\ (t.phase = "WarmUp" => t.ready)
    \/ t.phase \in TargetPhases /\ w = t.target

\* The target against the mean of the two measurements of the start window.
Faster(before, tried, after) == 2000 * tried > (before + after) * (1000 + MinGain)

Drift(before, after) == IF before > after THEN before - after ELSE after - before

Steady(before, after) == 2000 * Drift(before, after) <= (before + after) * MaxDrift

\* The phase's time is up.
PhaseOver(n) ==
    LET next(phase) == [n EXCEPT !.phase = phase, !.mined = 0, !.hashes = 0]
        keep == Faster(n.before, n.tried, n.hashes)
        remember == Steady(n.before, n.hashes)
    IN  CASE n.phase = "WarmUp" -> Result(next("MeasureStart"), Wait)
          [] n.phase = "MeasureStart" -> Result([next("Settle") EXCEPT !.before = n.hashes], Switch(n.target))
          [] n.phase = "Settle" -> Result(next("MeasureTarget"), Wait)
          [] n.phase = "MeasureTarget" -> Result([next("SettleBack") EXCEPT !.tried = n.hashes], Switch(StartWindow))
          [] n.phase = "SettleBack" -> Result(next("MeasureBack"), Wait)
          [] n.phase = "MeasureBack" /\ keep -> Result([next("Return") EXCEPT !.remember = remember], Switch(n.target))
          [] n.phase = "MeasureBack" /\ ~keep -> Result(NoTuner, Done(StartWindow, remember))

\* Tuner::launched: a launch of h hashes came back at window w.
TunerLaunched(t, w, h) ==
    IF ~Counts(t, w) THEN Result(t, Wait)
    ELSE LET n == [t EXCEPT !.mined = @ + 1, !.hashes = IF t.phase \in Measuring THEN @ + h ELSE 0]
         IN  IF n.mined < Length(t.phase) THEN Result(n, Wait) ELSE PhaseOver(n)

\* Mutant: what is ready is not noted.
ReadyForgotten(t) == Result(t, IF t.phase = "Recalled" THEN Switch(t.target) ELSE Wait)

\* Tuner::ready.
TunerReady(t) ==
    Result([t EXCEPT !.ready = TRUE], IF t.phase = "Recalled" THEN Switch(t.target) ELSE Wait)

\* Mutant: any switch to the target that fails does.
FallsBackAnytime(t, w) == w = t.target /\ t.fallback # <<>>

\* A first switch to the target that fails makes way for a smaller window.
FallsBack(t, w) == t.phase = "Settle" /\ w = t.target /\ t.fallback # <<>>

\* Tuner::switched: the card switched to w, or could not.
TunerSwitched(t, w, ok) ==
    CASE ok /\ t.phase = "Return" /\ w = t.target -> Result(NoTuner, Done(w, t.remember))
      [] ok /\ t.phase = "Recalled" -> Result(NoTuner, Done(w, FALSE))
      [] ok /\ ~(t.phase = "Return" /\ w = t.target) /\ t.phase # "Recalled" -> Result(t, Wait)
      [] ~ok /\ FallsBack(t, w) ->
            Result([t EXCEPT !.target = Head(t.fallback), !.fallback = Tail(@), !.mined = 0], Switch(Head(t.fallback)))
      [] ~ok /\ ~FallsBack(t, w) -> Result(NoTuner, Done(StartWindow, w # StartWindow))

=============================================================================
