----------------------------- MODULE StatusFeed -----------------------------
(***************************************************************************)
(* What the user is told about where the jobs are hashed                   *)
(* (src/src/shared.rs: announce, status, devices_for, gpu_opened,          *)
(* capability_changed, note_pow; src/src/main.rs: plan_cpu).  The stratum  *)
(* thread, every GPU worker and the stall guard announce, each on its own: *)
(* an announcement reads the state, prints, and then emits two events, the *)
(* first of which reads the state again.                                   *)
(***************************************************************************)
EXTENDS Naturals, FiniteSets

CONSTANTS
    FeedGpus,       \* GPU workers main started
    Cores,          \* available_parallelism
    MaxMoves        \* bound: how often the jobs' proof of work moves, and a claim
                    \*   or a stall mark after the start

ASSUME FeedAssumption ==
    /\ IsFiniteSet(FeedGpus) /\ Cores \in Nat \ {0} /\ MaxMoves \in Nat
    /\ FeedGpus \cap {"stratum", "guard"} = {}

VARIABLES
    cpuThreads, standIns,   \* MiningPlan
    gpuKernel,              \* gpu_kernel[BC3Hash]: the cards have one
    reference,              \* FALSE: the build failed its vectors (cpu_may_support);
                            \*   taken as known from the start
    currentPow,             \* PowState.algo
    feedClaims,             \* gpu_capable, and whose claims they are
    aside,                  \* the claims the stall guard has set aside
    gpusOpened,
    opening,                \* each GPU worker: "open", "claimed", "counted", "runs"
    gone,                   \* ... those that could not open their card
    says,                   \* each thread: "no", "checks" in capability_changed, in
                            \*   announce "due", "looked", "printed"
    about, word,            \* ... the proof of work, and the status it has read
    shownPow, shownStatus,  \* the last event of each kind the window got
    talkedOver,             \* history: the last announcements were not one by one
    moves

planVars == <<cpuThreads, standIns, gpuKernel, reference>>
feedVars == <<planVars, currentPow, feedClaims, aside, gpusOpened, opening, gone,
              says, about, word, shownPow, shownStatus, talkedOver, moves>>

Speakers == FeedGpus \cup {"stratum", "guard"}

\* plan_cpu: how many CPU threads, and whether they only stand in for the GPUs.
PlanCpu(auto, gpus, threads) ==
    CASE threads = "none" /\ gpus = 0           -> <<Cores, FALSE>>
      [] threads = "none" /\ gpus > 0 /\ auto   -> <<Cores, TRUE>>
      [] threads = "none" /\ gpus > 0 /\ ~auto  -> <<0, FALSE>>
      [] threads = "all" /\ gpus = 0            -> <<Cores, FALSE>>
      [] threads = "all" /\ gpus > 0            -> <<IF Cores > gpus + 2 THEN Cores - gpus - 1 ELSE 1, FALSE>>
      [] threads = "one"                        -> <<1, FALSE>>

FeedInit ==
    /\ \E auto \in BOOLEAN, threads \in {"none", "all", "one"} :
          LET plan == PlanCpu(auto, Cardinality(FeedGpus), threads)
          IN  /\ cpuThreads = IF plan[2] THEN 0 ELSE plan[1]
              /\ standIns = IF plan[2] THEN plan[1] ELSE 0
    /\ gpuKernel \in BOOLEAN /\ reference \in BOOLEAN
    /\ currentPow = "none" /\ feedClaims = {} /\ aside = {} /\ gpusOpened = 0
    /\ opening = [g \in FeedGpus |-> "open"] /\ gone = {}
    /\ says = [t \in Speakers |-> "no"]
    /\ about = [t \in Speakers |-> "none"] /\ word = [t \in Speakers |-> "none"]
    /\ shownPow = <<"none", "none">> /\ shownStatus = <<"none", "none">>
    /\ talkedOver = FALSE /\ moves = 0

-----------------------------------------------------------------------------
CpuMayHash(algo) == algo = "bc3" /\ reference

\* gpus_mine; there is no kernel for another proof of work.
GpusTake(algo) == algo = "bc3" /\ feedClaims \ aside # {}

GpusStarting == gpusOpened < Cardinality(FeedGpus)

CpuTakes(algo, gpu) == CpuMayHash(algo) /\ (cpuThreads > 0 \/ (standIns > 0 /\ ~gpu))

\* devices_for(..).label()
Label(algo) ==
    LET gpu == GpusTake(algo)
        cpu == CpuTakes(algo, gpu)
    IN  CASE gpu /\ cpu -> "gpu+cpu" [] gpu /\ ~cpu -> "gpu" [] ~gpu /\ cpu -> "cpu" [] OTHER -> "none"

\* MiningPlan::status
PlanStatus(algo) ==
    CASE Label(algo) # "cpu" /\ Label(algo) # "none"  -> Label(algo)
      [] Label(algo) = "cpu" /\ algo = "bc3" /\ gpuKernel -> "cpu: gpu not ready or failed"
      [] Label(algo) = "cpu" /\ ~(algo = "bc3" /\ gpuKernel) -> "cpu"
      [] Label(algo) = "none" /\ ~CpuMayHash(algo)    -> "NOT mining: no hash"
      [] Label(algo) = "none" /\ CpuMayHash(algo)     -> "NOT mining: no threads"

\* Shared::status
FeedStatus(algo) ==
    IF ~GpusTake(algo) /\ algo = "bc3" /\ gpuKernel /\ GpusStarting
    THEN IF CpuTakes(algo, FALSE) THEN "cpu until the gpu is ready" ELSE "waiting for the gpu"
    ELSE PlanStatus(algo)

-----------------------------------------------------------------------------
\* Thread t begins announce(algo).
Speaks(t, algo) ==
    /\ says' = [says EXCEPT ![t] = "due"]
    /\ about' = [about EXCEPT ![t] = algo]
    /\ talkedOver' = (\E u \in Speakers \ {t} : says[u] \in {"due", "looked", "printed"})

Silent == UNCHANGED <<says, about, talkedOver>>

\* announce: status is read; the Pow event reads the devices; the Status event follows.
Looks(t) ==
    /\ says[t] = "due"
    /\ says' = [says EXCEPT ![t] = "looked"]
    /\ word' = [word EXCEPT ![t] = FeedStatus(about[t])]
    /\ UNCHANGED <<planVars, currentPow, feedClaims, aside, gpusOpened, opening, gone, about,
                   shownPow, shownStatus, talkedOver, moves>>

EmitsPow(t) ==
    /\ says[t] = "looked"
    /\ says' = [says EXCEPT ![t] = "printed"]
    /\ shownPow' = <<about[t], Label(about[t])>>
    /\ UNCHANGED <<planVars, currentPow, feedClaims, aside, gpusOpened, opening, gone, about, word,
                   shownStatus, talkedOver, moves>>

EmitsStatus(t) ==
    /\ says[t] = "printed"
    /\ says' = [says EXCEPT ![t] = "no"]
    /\ shownStatus' = <<about[t], word[t]>>
    /\ about' = [about EXCEPT ![t] = "none"] /\ word' = [word EXCEPT ![t] = "none"]
    /\ UNCHANGED <<planVars, currentPow, feedClaims, aside, gpusOpened, opening, gone, shownPow, talkedOver, moves>>

\* note_pow: the pool's jobs move to another proof of work.
PowMoves(algo) ==
    /\ says["stratum"] = "no" /\ moves < MaxMoves /\ moves' = moves + 1
    /\ algo # currentPow
    /\ currentPow' = algo
    /\ Speaks("stratum", algo)
    /\ UNCHANGED <<planVars, feedClaims, aside, gpusOpened, opening, gone, word, shownPow, shownStatus>>

\* capability_changed(BC3Hash) follows the change of a claim.
Changes(t) ==
    /\ says' = [says EXCEPT ![t] = "checks"]
    /\ UNCHANGED <<about, talkedOver>>

\* Mutant: a change is said at the next job.
SaysLater(t) == says' = [says EXCEPT ![t] = "no"] /\ UNCHANGED <<about, talkedOver>>

CapabilityChanged(t) ==
    IF currentPow = "bc3" THEN Speaks(t, "bc3")
    ELSE says' = [says EXCEPT ![t] = "no"] /\ UNCHANGED <<about, talkedOver>>

Checks(t) ==
    /\ says[t] = "checks"
    /\ CapabilityChanged(t)
    /\ UNCHANGED <<planVars, currentPow, feedClaims, aside, gpusOpened, opening, gone, word,
                   shownPow, shownStatus, moves>>

\* The card opens and claims what it has a kernel and a reference for, or does not open.
CardOpens(g) ==
    /\ opening[g] = "open"
    /\ opening' = [opening EXCEPT ![g] = "claimed"]
    /\ \/ gone' = gone \cup {g} /\ UNCHANGED feedClaims /\ Silent
       \/ UNCHANGED gone /\ gpuKernel /\ reference /\ feedClaims' = feedClaims \cup {g} /\ Changes(g)
       \/ UNCHANGED gone /\ ~(gpuKernel /\ reference) /\ UNCHANGED feedClaims /\ Silent
    /\ UNCHANGED <<planVars, currentPow, aside, gpusOpened, word, shownPow, shownStatus, moves>>

\* gpu_opened: counted, ...
Counts(g) ==
    /\ opening[g] = "claimed" /\ says[g] = "no"
    /\ opening' = [opening EXCEPT ![g] = "counted"]
    /\ gpusOpened' = gpusOpened + 1
    /\ UNCHANGED <<planVars, currentPow, feedClaims, aside, gone, says, about, word,
                   shownPow, shownStatus, talkedOver, moves>>

\* ... and, if the GPUs do not take the current proof of work, said.
TellsIfIdle(g) ==
    IF currentPow # "none" /\ ~GpusTake(currentPow) THEN Speaks(g, currentPow) ELSE Silent

Tells(g) ==
    /\ opening[g] = "counted"
    /\ opening' = [opening EXCEPT ![g] = "runs"]
    /\ TellsIfIdle(g)
    /\ UNCHANGED <<planVars, currentPow, feedClaims, aside, gpusOpened, gone, word, shownPow, shownStatus, moves>>

\* A kernel fails, or loads; the worker leaves.
ClaimMoves(g) ==
    /\ opening[g] = "runs" /\ g \notin gone /\ says[g] = "no" /\ gpuKernel /\ reference
    /\ moves < MaxMoves /\ moves' = moves + 1
    /\ feedClaims' = IF g \in feedClaims THEN feedClaims \ {g} ELSE feedClaims \cup {g}
    /\ Changes(g)
    /\ UNCHANGED <<planVars, currentPow, aside, gpusOpened, opening, gone, word, shownPow, shownStatus>>

\* check_gpu_stalls sets a claim aside, or takes it back, and says so.
StallMoves(g) ==
    /\ says["guard"] = "no" /\ currentPow = "bc3"
    /\ moves < MaxMoves /\ moves' = moves + 1
    /\ \/ g \in feedClaims \ aside /\ aside' = aside \cup {g}
       \/ g \in feedClaims \cap aside /\ aside' = aside \ {g}
    /\ Changes("guard")
    /\ UNCHANGED <<planVars, currentPow, feedClaims, gpusOpened, opening, gone, word, shownPow, shownStatus>>

FeedNext ==
    \/ \E t \in Speakers : Checks(t) \/ Looks(t) \/ EmitsPow(t) \/ EmitsStatus(t)
    \/ \E algo \in {"bc3", "other"} : PowMoves(algo)
    \/ \E g \in FeedGpus : CardOpens(g) \/ Counts(g) \/ Tells(g) \/ ClaimMoves(g) \/ StallMoves(g)

FeedSpec == FeedInit /\ [][FeedNext]_feedVars

-----------------------------------------------------------------------------
FeedTypeOK ==
    /\ cpuThreads \in 0..Cores /\ standIns \in 0..Cores
    /\ feedClaims \subseteq FeedGpus /\ aside \subseteq FeedGpus
    /\ gpusOpened \in 0..Cardinality(FeedGpus)
    /\ opening \in [FeedGpus -> {"open", "claimed", "counted", "runs"}]
    /\ says \in [Speakers -> {"no", "checks", "due", "looked", "printed"}]
    /\ about \in [Speakers -> {"none", "bc3", "other"}]

FeedQuiet == (\A t \in Speakers : says[t] = "no") /\ (\A g \in FeedGpus : opening[g] # "counted")

\* No change goes unsaid: once every thread is done announcing, the window's last
\* word on the proof of work and on the status is true - unless the last announcements
\* ran into each other, when an older reading may be the last to be emitted.
LastWordIsTrue ==
    FeedQuiet /\ currentPow # "none" /\ ~talkedOver =>
        /\ shownStatus = <<currentPow, FeedStatus(currentPow)>>
        /\ shownPow = <<currentPow, Label(currentPow)>>

=============================================================================
