---------------------------- MODULE CardTuning -----------------------------
(***************************************************************************)
(* The tuning as a card's worker drives it (src/src/gpu_worker.rs: Tune,   *)
(* switch_bc3, prepare_bc3, and the parts of run_gpu_worker and pump that  *)
(* call them), with the file the choice is kept in across restarts.  The   *)
(* pool sends BC3Hash jobs throughout.                                     *)
(***************************************************************************)
EXTENDS Tuner

CONSTANTS
    Speeds,         \* hashes of one launch, of an undisturbed card
    Dip,            \* how much fewer, when something disturbs it
    FreeMiB,        \* memory that may be free while the card mines
    QueueDepth,     \* launches queued at once
    MaxGone,        \* bound: how often the device stops answering
    MaxRestarts     \* bound: how often the miner is started again

ASSUME CardAssumption ==
    /\ Speeds \subseteq Nat /\ FreeMiB \subseteq Nat
    /\ Dip \in Nat /\ \A s \in Speeds : Dip <= s
    /\ QueueDepth \in Nat \ {0} /\ MaxGone \in Nat /\ MaxRestarts \in Nat

VARIABLES
    speed,          \* how fast the card is at each window (external)
    file,           \* the remembered window, or NoWindow
    pc,             \* "loop", "begin", "mine", "gone" or "dead"
    at,             \* the window loaded on the card: backend.bc3hash_window()
    failed,         \* bc3_failed
    inflight,       \* launches queued
    want, tuner, begun, preparing, jit, switchTo,       \* Tune
    told,           \* the last Event::Tables: a window and whether it is tuning
    disturbed,      \* history: something slowed a launch down
    gone, restarts

tuneVars == <<want, tuner, begun, preparing, jit, switchTo, told>>
loopVars == <<pc, at, failed, inflight>>
bounds == <<gone, restarts>>
vars == <<speed, file, loopVars, tuneVars, disturbed, bounds>>

Windows == Tried \cup {StartWindow}
Event(window, tuning) == [window |-> window, tuning |-> tuning]
Untold == Event(NoWindow, FALSE)

Init ==
    /\ pc = "loop" /\ at = NoWindow /\ failed = NoWindow /\ inflight = 0
    /\ want = StartWindow /\ tuner = NoTuner /\ begun = FALSE
    /\ preparing = FALSE /\ jit = FALSE /\ switchTo = NoWindow
    /\ told = Untold
    /\ speed \in [Windows -> Speeds]
    /\ file = NoWindow
    /\ disturbed = FALSE
    /\ gone = 0 /\ restarts = 0

-----------------------------------------------------------------------------
\* tuning::remember; the write may fail.
Remember(w, remember) ==
    \/ file' = IF remember THEN w ELSE file
    \/ remember /\ UNCHANGED file

\* The window to be at after the tuner's answer,
Wanted(r, wanted) == IF r.action.do = "Switch" THEN r.action.window ELSE wanted

\* Mutant: nobody is told that the tuning is over.
NotTold(r, wanted) == told

\* and what the GUI hears of it.
Tell(r, wanted) == IF r.action.do = "Done" THEN Event(wanted, FALSE) ELSE told

\* Tune::act, on what the tuner answered; the arguments are what `want',
\* `switch_to' and `preparing' hold by then.
Act(r, wanted, pending, prep) ==
    LET done == r.action.do = "Done"
    IN  /\ tuner' = r.tuner
        /\ want' = Wanted(r, wanted)
        /\ switchTo' = IF r.action.do = "Switch" THEN r.action.window ELSE pending
        /\ preparing' = (prep /\ ~done)
        /\ jit' = (jit /\ preparing')
        /\ told' = Tell(r, wanted)
        /\ IF done THEN Remember(r.action.window, r.action.remember) ELSE UNCHANGED file

WantAfter(ok) == IF ok THEN want ELSE StartWindow

\* Mutant: a switch that fails counts as a kernel that does not load.
MarksFailed(ok) == IF ok THEN failed ELSE switchTo

\* A failed switch is not held against the card.
FailedAfter(ok) == failed

\* One round of `while let Some(window) = switch_to.take()': switch_bc3,
\* which drops the old kernel before it loads the new one, and Tune::switched.
MakeSwitch(ok) ==
    /\ pc = "loop" /\ switchTo # NoWindow
    /\ at = switchTo => ok
    /\ at' = IF ok THEN switchTo ELSE NoWindow
    /\ failed' = FailedAfter(ok)
    /\ Act(TunerSwitched(tuner, switchTo, ok), WantAfter(ok), NoWindow, preparing)
    /\ UNCHANGED <<speed, pc, inflight, begun, disturbed, bounds>>

\* prepare_bc3, for a job taken after the switches.
KernelThere ==
    /\ pc = "loop" /\ switchTo = NoWindow
    /\ at = want
    /\ pc' = "begin"
    /\ UNCHANGED <<speed, file, at, failed, inflight, tuneVars, disturbed, bounds>>

LoadKernel(ok) ==
    /\ pc = "loop" /\ switchTo = NoWindow
    /\ at # want /\ failed # want
    /\ at' = IF ok THEN want ELSE NoWindow
    /\ failed' = IF ok THEN NoWindow ELSE want
    /\ pc' = IF ok THEN "begin" ELSE "loop"
    /\ UNCHANGED <<speed, file, inflight, tuneVars, disturbed, bounds>>

\* Tune::begin and the start of mine_job, whose launches hash at `at'.
\* Memory that is unknown fits nothing (`fitting' is NoWindow); the compile
\* ahead may not be needed.
Begin(fitting, compiles) ==
    /\ pc = "begin"
    /\ pc' = "mine" /\ inflight' = QueueDepth
    /\ IF begun \/ at # StartWindow
       THEN UNCHANGED tuneVars
       ELSE /\ begun' = TRUE
            /\ tuner' = TunerStart(fitting, file)
            /\ told' = Event(want, tuner'.phase = "WarmUp")
            /\ preparing' = (tuner' # NoTuner)
            /\ jit' = (tuner' # NoTuner /\ compiles)
            /\ UNCHANGED <<want, switchTo>>
    /\ UNCHANGED <<speed, file, at, failed, disturbed, bounds>>

\* The thread of compile_bc3hash_ahead is over, however it went.
CompiledAhead ==
    /\ jit
    /\ jit' = FALSE
    /\ UNCHANGED <<speed, file, loopVars, want, tuner, begun, preparing, switchTo, told, disturbed, bounds>>

-----------------------------------------------------------------------------
\* Tune::launched.
Launched(h) ==
    LET ready == preparing /\ ~jit
        r == TunerReady(tuner)
    IN  IF tuner = NoTuner THEN UNCHANGED <<tuneVars, file>>
        ELSE /\ Act(CASE ready /\ r.action # Wait -> r
                      [] ready /\ r.action = Wait -> TunerLaunched(r.tuner, at, h)
                      [] ~ready -> TunerLaunched(tuner, at, h),
                    want, switchTo, preparing /\ ~ready)
             /\ UNCHANGED begun

\* pump: a launch comes back and is finished.  top_up refills the queue before
\* (if it is deeper than one) and after, unless the job changed or a switch is
\* to be made.
LaunchBack(dip, more) ==
    LET refill(n, pending) == IF more /\ pending = NoWindow THEN QueueDepth ELSE n
    IN  /\ pc = "mine" /\ inflight > 0
        /\ Launched(speed[at] - (IF dip THEN Dip ELSE 0))
        /\ inflight' = refill(IF QueueDepth > 1 THEN refill(inflight - 1, switchTo) ELSE inflight - 1, switchTo')
        /\ disturbed' = (disturbed \/ dip)
        /\ UNCHANGED <<speed, pc, at, failed, bounds>>

\* Nothing is in flight any more: the job changed, or a switch is to be made.
RunEnds ==
    /\ pc = "mine" /\ inflight = 0
    /\ pc' = "loop"
    /\ UNCHANGED <<speed, file, at, failed, inflight, tuneVars, disturbed, bounds>>

\* Too many launches in a row failed.
DeviceGone ==
    /\ pc = "mine" /\ gone < MaxGone
    /\ gone' = gone + 1
    /\ pc' = "gone" /\ inflight' = 0
    /\ UNCHANGED <<speed, file, at, failed, tuneVars, disturbed, restarts>>

\* The worker opens the device again, without a kernel, or stops.
Reopen(ok) ==
    /\ pc = "gone"
    /\ pc' = IF ok THEN "loop" ELSE "dead"
    /\ at' = NoWindow
    /\ failed' = IF ok THEN NoWindow ELSE failed
    /\ UNCHANGED <<speed, file, inflight, tuneVars, disturbed, bounds>>

\* The miner ends, at any moment, and is started again; the card and the file
\* are what is left.
Restart ==
    /\ restarts < MaxRestarts
    /\ restarts' = restarts + 1
    /\ pc' = "loop" /\ at' = NoWindow /\ failed' = NoWindow /\ inflight' = 0
    /\ want' = StartWindow /\ tuner' = NoTuner /\ begun' = FALSE
    /\ preparing' = FALSE /\ jit' = FALSE /\ switchTo' = NoWindow
    /\ told' = Untold
    /\ UNCHANGED <<speed, file, disturbed, gone>>

DriverReturns == \E ok \in BOOLEAN : MakeSwitch(ok) \/ LoadKernel(ok) \/ Reopen(ok)

\* The free memory of the moment; the start window's tables go before the
\* bigger ones come.
Fitting == {LargestFitting(free * MiB + TableSize(StartWindow)) : free \in FreeMiB} \cup {NoWindow}
Begins == \E fitting \in Fitting, compiles \in BOOLEAN : Begin(fitting, compiles)
ALaunchBack == \E dip, more \in BOOLEAN : LaunchBack(dip, more)

Next ==
    \/ KernelThere \/ CompiledAhead \/ RunEnds \/ DeviceGone \/ Restart
    \/ DriverReturns \/ Begins \/ ALaunchBack

Spec == Init /\ [][Next]_vars

\* Driver calls return, the worker goes on, and launches keep coming back
\* however often the job changes.
FairSpec ==
    /\ Spec
    /\ WF_vars(KernelThere) /\ WF_vars(CompiledAhead) /\ WF_vars(RunEnds)
    /\ WF_vars(DriverReturns) /\ WF_vars(Begins)
    /\ SF_vars(ALaunchBack)

-----------------------------------------------------------------------------
Tuners ==
    {NoTuner} \cup
    [phase : StartPhases \cup TargetPhases \cup {"Return", "Recalled"}, target : Tried,
     fallback : Seq(Tried), ready : BOOLEAN, mined : Nat, hashes : Nat, before : Nat,
     tried : Nat, remember : BOOLEAN]

TypeOK ==
    /\ speed \in [Windows -> Speeds]
    /\ {file, at, failed, switchTo} \subseteq Windows \cup {NoWindow}
    /\ want \in Windows
    /\ pc \in {"loop", "begin", "mine", "gone", "dead"}
    /\ inflight \in 0..QueueDepth
    /\ tuner \in Tuners
    /\ {begun, preparing, jit, disturbed} \subseteq BOOLEAN
    /\ told \in [window : Windows \cup {NoWindow}, tuning : BOOLEAN]
    /\ gone \in 0..MaxGone /\ restarts \in 0..MaxRestarts

\* On a card that nothing disturbs, a bigger window is kept, or remembered for
\* the next start, only if the card is faster with it - with launches in
\* flight across every switch, failed switches, reopens and restarts.
KeptIsFaster ==
    ~disturbed =>
        /\ begun /\ tuner = NoTuner /\ want # StartWindow => speed[want] > speed[StartWindow]
        /\ file \in Tried => speed[file] > speed[StartWindow]

\* Once the tuning is over, the window the GUI was told is the one the card
\* mines at.
ToldWindowIsMined ==
    pc = "mine" /\ begun /\ tuner = NoTuner => told = Event(at, FALSE)

\* README.md: "a bigger window that fails leaves the card at a smaller one, or
\* at 16": on a device that was not reopened bc3_failed, which keeps a card from
\* mining, is never a bigger window.  (After a reopen there is no switch to
\* make: prepare_bc3 loads the tuned window, and its failure is final.)
BiggerWindowFailsSoftly == failed \in Tried => gone > 0

\* A tuning that has begun ends, unless the card is given up or cannot load
\* the window it wants.
TuningEnds == begun ~> (tuner = NoTuner \/ pc = "dead" \/ failed # NoWindow)

=============================================================================
