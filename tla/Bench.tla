------------------------------- MODULE Bench -------------------------------
(***************************************************************************)
(* --benchmark's comparison of table windows (src/bench.rs run, wait_ready *)
(* and measure; internal.rs run): the windows up and back down, each run   *)
(* with the cards switched to its window before it is measured.            *)
(*                                                                         *)
(* The benchmark and the cards' workers (gpu_worker.rs prepare_bc3) talk   *)
(* through shared atomics only: the window asked for, one word per slot    *)
(* with the window the card has ready or FAILED, and new jobs, which wake  *)
(* the workers.  A job is that news; the shares' check is left out.  A     *)
(* card's device may stop answering: its worker opens it again, or ends.   *)
(***************************************************************************)
EXTENDS Naturals, Sequences, FiniteSets, SequencesExt

CONSTANTS
    BenchGpus,      \* the cards with a BC3Hash kernel
    BenchWindows,   \* the windows to compare, in order (BC3_WINDOWS, or one of them)
    BenchReopens,   \* MAX_REOPENS
    BenchFaults     \* bound: how often devices stop answering

NoWindow == 0
Failed == 1      \* BC3_SLOT_FAILED, which is no window

ASSUME BenchAssumption ==
    /\ IsFiniteSet(BenchGpus) /\ BenchReopens \in Nat /\ BenchFaults \in Nat
    /\ BenchWindows \in Seq(Nat \ {NoWindow, Failed}) /\ BenchWindows # <<>>
    /\ \A i, j \in 1 .. Len(BenchWindows) : i # j => BenchWindows[i] # BenchWindows[j]

VARIABLES
    stage,      \* "reset", "ask", "block", "wait", "measure" or "done"
    left,       \* the runs still to come, this one first
    asked,      \* shared.bc3_window
    slotBc3,    \* gpu_slot_bc3: NoWindow, a window, or Failed
    news,       \* cards a job was published for that they have not taken
    work,       \* each worker: "idle", "asked", "loads", "mines", "reopens" or "ended"
    want,       \* the window its prepare_bc3 was called with
    kernel,     \* the window of the kernel it has, or NoWindow
    badAt,      \* the window that last failed on it
    holds,      \* whether it claims BC3Hash
    reopened,   \* how often it was opened again without a launch coming back
    flags,      \* this run's failed flags
    late,       \* whether this run's wait timed out
    missed,     \* history: cards that a wait that timed out was still waiting for
    went,       \* history: cards whose device stopped answering in this run
    faults

cardVars  == <<work, want, kernel, badAt, holds, reopened, faults>>
askVars   == <<stage, left, asked, flags, late, missed>>
benchVars == <<cardVars, askVars, slotBc3, news, went>>

\* Up and back down; a single window runs once.
Schedule ==
    IF Len(BenchWindows) > 1 THEN BenchWindows \o Reverse(BenchWindows) ELSE BenchWindows

Unflagged == [g \in BenchGpus |-> FALSE]

\* A worker that could not open its card has ended already.
BenchInit ==
    /\ stage = "reset" /\ left = Schedule /\ asked = NoWindow
    /\ slotBc3 = [g \in BenchGpus |-> NoWindow]
    /\ news = {}
    /\ work \in [BenchGpus -> {"idle", "ended"}]
    /\ want = [g \in BenchGpus |-> NoWindow]
    /\ kernel = [g \in BenchGpus |-> NoWindow]
    /\ badAt = [g \in BenchGpus |-> NoWindow]
    /\ holds = [g \in BenchGpus |-> work[g] = "idle"]
    /\ flags = Unflagged
    /\ reopened = [g \in BenchGpus |-> 0]
    /\ late = FALSE /\ missed = {} /\ went = {} /\ faults = 0

(***************************************************************************)
(* A card's worker.                                                        *)
(***************************************************************************)
\* A new job, or the same one again: the window is read before anything else.
TakeJob(g) ==
    /\ work[g] \in {"idle", "mines"} /\ g \in news
    /\ news' = news \ {g}
    /\ work' = [work EXCEPT ![g] = "asked"]
    /\ want' = [want EXCEPT ![g] = asked]
    /\ UNCHANGED <<slotBc3, kernel, badAt, holds, reopened, went, faults>> /\ UNCHANGED askVars

\* Mutant: what is known is not said again.
SayNothing(g) ==
    /\ work[g] = "asked" /\ want[g] \in {kernel[g], badAt[g]}
    /\ work' = [work EXCEPT ![g] = IF kernel[g] = want[g] THEN "mines" ELSE "idle"]
    /\ want' = [want EXCEPT ![g] = NoWindow]
    /\ UNCHANGED <<slotBc3, news, kernel, badAt, holds, reopened, went, faults>>
    /\ UNCHANGED askVars

\* prepare_bc3, known already: said again, for a benchmark that reset the slot.
SayAgain(g) ==
    /\ work[g] = "asked" /\ want[g] \in {kernel[g], badAt[g]}
    /\ slotBc3' = [slotBc3 EXCEPT ![g] = IF kernel[g] = want[g] THEN want[g] ELSE Failed]
    /\ work' = [work EXCEPT ![g] = IF kernel[g] = want[g] THEN "mines" ELSE "idle"]
    /\ want' = [want EXCEPT ![g] = NoWindow]
    /\ UNCHANGED <<news, kernel, badAt, holds, reopened, went, faults>> /\ UNCHANGED askVars

\* prepare_bc3, not known: the old kernel goes, and loading takes its time.
StartLoading(g) ==
    /\ work[g] = "asked" /\ want[g] \notin {kernel[g], badAt[g]}
    /\ slotBc3' = [slotBc3 EXCEPT ![g] = NoWindow]
    /\ work' = [work EXCEPT ![g] = "loads"]
    /\ kernel' = [kernel EXCEPT ![g] = NoWindow]
    /\ UNCHANGED <<news, want, badAt, holds, reopened, went, faults>> /\ UNCHANGED askVars

\* A claim that changes wakes every worker with the job it has.
Claims(g, claim) ==
    /\ holds' = [holds EXCEPT ![g] = claim]
    /\ news' = IF holds[g] = claim THEN news ELSE BenchGpus

\* Loaded and self-tested, or not: the slot says which.
EndLoading(g, ok) ==
    /\ work[g] = "loads"
    /\ kernel' = [kernel EXCEPT ![g] = IF ok THEN want[g] ELSE NoWindow]
    /\ badAt' = [badAt EXCEPT ![g] = IF ok THEN NoWindow ELSE want[g]]
    /\ slotBc3' = [slotBc3 EXCEPT ![g] = IF ok THEN want[g] ELSE Failed]
    /\ Claims(g, ok)
    /\ work' = [work EXCEPT ![g] = IF ok THEN "mines" ELSE "idle"]
    /\ want' = [want EXCEPT ![g] = NoWindow]
    /\ UNCHANGED <<reopened, went, faults>> /\ UNCHANGED askVars

\* mine_job ends with the device gone, its kernel with it, and the claim is given
\* up: to open it again, if launches came back meanwhile or MAX_REOPENS allows
\* it, or for good.  The slot keeps its word.
DeviceGone(g, cameBack) ==
    LET n == IF cameBack THEN 1 ELSE reopened[g] + 1 IN
    /\ work[g] = "mines"
    /\ faults < BenchFaults /\ faults' = faults + 1
    /\ IF n > BenchReopens
       THEN /\ work' = [work EXCEPT ![g] = "ended"] /\ UNCHANGED reopened
       ELSE /\ work' = [work EXCEPT ![g] = "reopens"] /\ reopened' = [reopened EXCEPT ![g] = n]
    /\ kernel' = [kernel EXCEPT ![g] = NoWindow]
    /\ Claims(g, FALSE)
    /\ went' = went \cup {g}
    /\ UNCHANGED <<slotBc3, want, badAt>> /\ UNCHANGED askVars

\* A fresh context: what failed may be tried again, and the slot says nothing.
\* The worker takes the job there is at once: its claim is news to it, too.
Reopens(g) ==
    /\ work[g] = "reopens"
    /\ badAt' = [badAt EXCEPT ![g] = NoWindow]
    /\ slotBc3' = [slotBc3 EXCEPT ![g] = NoWindow]
    /\ Claims(g, TRUE)
    /\ work' = [work EXCEPT ![g] = "idle"]
    /\ UNCHANGED <<want, kernel, reopened, went, faults>> /\ UNCHANGED askVars

CannotReopen(g) ==
    /\ work[g] = "reopens"
    /\ work' = [work EXCEPT ![g] = "ended"]
    /\ UNCHANGED <<slotBc3, news, want, kernel, badAt, holds, reopened, went, faults>>
    /\ UNCHANGED askVars

(***************************************************************************)
(* The benchmark.                                                          *)
(***************************************************************************)
Window == Head(left)

ResetSlots ==
    /\ stage = "reset"
    /\ slotBc3' = [g \in BenchGpus |-> NoWindow]
    /\ stage' = "ask"
    /\ went' = {}
    /\ UNCHANGED <<left, asked, news, flags, late, missed>> /\ UNCHANGED cardVars

SetWindow ==
    /\ stage = "ask"
    /\ asked' = Window
    /\ stage' = "block"
    /\ UNCHANGED <<left, slotBc3, news, flags, late, missed, went>> /\ UNCHANGED cardVars

\* The job after it, which makes the workers read the window.
NewBlock ==
    /\ stage = "block"
    /\ news' = BenchGpus
    /\ stage' = "wait"
    /\ UNCHANGED <<left, asked, slotBc3, flags, late, missed, went>> /\ UNCHANGED cardVars

\* tick: a new block every NEW_BLOCK_EVERY, or a retarget, meanwhile.
AnotherJob ==
    /\ stage \in {"wait", "measure"}
    /\ news' = BenchGpus
    /\ UNCHANGED <<slotBc3, went>> /\ UNCHANGED cardVars /\ UNCHANGED askVars

\* Mutant: any window will do.
AnyWindow == {g \in BenchGpus : slotBc3[g] = NoWindow}

Pending == {g \in BenchGpus : slotBc3[g] \notin {Window, Failed}}

\* wait_ready: every card has the window ready, or has failed it.
WaitReady ==
    /\ stage = "wait" /\ Pending = {}
    /\ flags' = [g \in BenchGpus |-> slotBc3[g] = Failed]
    /\ late' = FALSE
    /\ stage' = "measure"
    /\ UNCHANGED <<left, asked, slotBc3, news, missed, went>>
    /\ UNCHANGED cardVars

\* READY_TIMEOUT: the flags are those of the cards still pending.
GiveUp ==
    /\ stage = "wait" /\ Pending # {}
    /\ missed' = missed \cup Pending
    /\ flags' = [g \in BenchGpus |-> g \in Pending]
    /\ late' = TRUE
    /\ stage' = "measure"
    /\ UNCHANGED <<left, asked, slotBc3, news, went>> /\ UNCHANGED cardVars

\* measure is over: the run counts towards its window's line, which average
\* calls failed for a card that failed any of its runs.
EndMeasure ==
    /\ stage = "measure"
    /\ left' = Tail(left)
    /\ flags' = Unflagged /\ late' = FALSE
    /\ stage' = IF Tail(left) = <<>> THEN "done" ELSE "reset"
    /\ UNCHANGED <<asked, slotBc3, news, missed, went>> /\ UNCHANGED cardVars

CardStep(g) ==
    \/ TakeJob(g) \/ SayAgain(g) \/ StartLoading(g) \/ \E ok \in BOOLEAN : EndLoading(g, ok)
    \/ Reopens(g) \/ CannotReopen(g)
RunStep == ResetSlots \/ SetWindow \/ NewBlock \/ WaitReady \/ EndMeasure

\* A worker has ended, and only READY_TIMEOUT ends a wait for its card.
GivesUpOnEnded == GiveUp /\ \E g \in BenchGpus : work[g] = "ended"

BenchNext ==
    \/ RunStep \/ AnotherJob \/ GiveUp
    \/ \E g \in BenchGpus : CardStep(g) \/ \E cameBack \in BOOLEAN : DeviceGone(g, cameBack)

\* Every thread runs, and a driver answers in the end.  The timeout comes where a
\* worker has ended; elsewhere nothing is assumed of it, nor of further jobs.
BenchFairness ==
    /\ WF_benchVars(RunStep) /\ WF_benchVars(GivesUpOnEnded)
    /\ \A g \in BenchGpus : WF_benchVars(CardStep(g))

BenchSpec == BenchInit /\ [][BenchNext]_benchVars /\ BenchFairness

(***************************************************************************)
(* Properties.                                                             *)
(***************************************************************************)
BenchTypeOK ==
    /\ stage \in {"reset", "ask", "block", "wait", "measure", "done"}
    /\ \A g \in BenchGpus :
          /\ slotBc3[g] \in ToSet(BenchWindows) \cup {NoWindow, Failed}
          /\ work[g] \in {"idle", "asked", "loads", "mines", "reopens", "ended"}
          /\ reopened[g] \in 0 .. BenchReopens
    /\ news \subseteq BenchGpus /\ went \subseteq BenchGpus /\ faults \in 0 .. BenchFaults

\* What is measured for a window is that window: from the moment the wait is over,
\* whatever jobs come meanwhile, a card that is not flagged hashes at this run's
\* window - on the way down, too, where a card's word may be of the run before.
\* (Not after a wait that timed out, whose flags are of the cards still pending.
\* Nor for a card that some wait gave up on: runs behind, it may answer for an
\* earlier run of this window and only then switch to the one asked for between.
\* Nor for one whose device stopped answering in this run: its word may stay as it
\* was, and nothing flags it once the wait is over.)
RowsAreOfTheirWindow ==
    stage = "measure" /\ ~late =>
        \A g \in BenchGpus \ (missed \cup went) : flags[g] \/ kernel[g] = Window

\* "Publish a job after this": a wait ends without another block, because the job
\* after set_bc3_window has every card say, again if need be, what it has - a card
\* that was opened again in the middle, too, once devices stop failing - and
\* without its timeout unless a worker has ended, which never answers.
CardsAnswer == stage = "wait" ~> stage = "measure"
=============================================================================
