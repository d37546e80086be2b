------------------------------ MODULE Dispatch ------------------------------
(***************************************************************************)
(* The miner's threads around the shared job slot: the stratum thread, CPU *)
(* threads (CpuLoop), GPU workers (GpuLoop), the stall guard, the watchdog *)
(* and the BC3Hash table builder, interleaved at every shared access.      *)
(***************************************************************************)
EXTENDS CpuLoop, GpuLoop

Exited == watchPc = "exit"

vars == <<boardVars, bc3, claimVars, alive, gpc, then, guardVars, watchVars, cpuVars, gpuVars>>
outsideBoard == <<bc3, claimVars, alive, gpc, then, guardVars, watchVars, cpuVars, gpuVars>>

Init == BoardInit /\ ClaimsInit /\ CpuInit /\ GpuInit

PoolSends == \E j \in Jobs : NotePow(j) /\ UNCHANGED outsideBoard
StratumPublishes == PublishJob /\ UNCHANGED outsideBoard
SessionEnds == ClearSlot /\ UNCHANGED outsideBoard
StratumBumps == ClearBump /\ UNCHANGED outsideBoard

CpuSteps(c) == CpuStep(c) /\ UNCHANGED gpuVars
GpuSteps(g) == GpuStep(g) /\ UNCHANGED cpuVars
SetSteps(g) == (SetCount(g) \/ SetCheck(g) \/ SetNudge(g)) /\ UNCHANGED <<cpuVars, gpuVars>>

GuardSteps ==
    /\ \/ GuardStart \/ GuardFinish \/ GuardCheck \/ GuardNudge
       \/ \E g \in Gpus : GuardRead(g) \/ GuardAct(g)
    /\ UNCHANGED <<cpuVars, gpuVars>>

WatchSteps == (WatchAlive \/ WatchReadsAlgo \/ WatchDevices) /\ UNCHANGED <<cpuVars, gpuVars>>

TablesBuilt == \E r \in {"ok", "failed"} : Bc3Initialized(r) /\ UNCHANGED <<cpuVars, gpuVars>>

TimePasses(g) == Ages(g) /\ UNCHANGED outsideBoard

Running ==
    \/ PoolSends \/ StratumPublishes \/ SessionEnds \/ StratumBumps
    \/ \E c \in Cpus : CpuSteps(c)
    \/ \E g \in Gpus : GpuSteps(g) \/ SetSteps(g) \/ TimePasses(g)
    \/ GuardSteps \/ WatchSteps \/ TablesBuilt

Gone == Exited /\ UNCHANGED vars

Next == (~Exited /\ Running) \/ Gone

Spec == Init /\ [][Next]_vars

(***************************************************************************)
(* Threads the code never blocks run on: the stratum thread inside a call, *)
(* CPU threads, a GPU worker inside GpuCapability::set, the supervisors    *)
(* with their timers, the table build, and the clock.  The pool, and the   *)
(* drivers behind open, load and launch, promise nothing.                  *)
(***************************************************************************)
Fairness ==
    /\ WF_vars(~Exited /\ (StratumPublishes \/ StratumBumps))
    /\ \A c \in Cpus : WF_vars(~Exited /\ CpuProgress(c) /\ UNCHANGED gpuVars)
    /\ \A g \in Gpus : WF_vars(~Exited /\ SetSteps(g))
    /\ \A g \in Gpus : WF_vars(~Exited /\ TimePasses(g))
    /\ WF_vars(~Exited /\ GuardSteps)
    /\ WF_vars(~Exited /\ WatchSteps)
    /\ WF_vars(~Exited /\ TablesBuilt)

FairSpec == Spec /\ Fairness

-----------------------------------------------------------------------------
TypeOK == BoardTypeOK /\ ClaimsTypeOK /\ CpuTypeOK /\ GpuTypeOK

\* A change of the claims whose nudge, or the job that replaces it, is still to come.
SetPending(g) == gpc[g] \in {"count", "check", "nudge"}
GuardPending == guardChanges # {} /\ guardAlgo = "bc3"
ChangePending == incoming # NoJob \/ GuardPending \/ \E g \in Gpus : SetPending(g)

(***************************************************************************)
(* One generation names one job: a worker whose generation is current      *)
(* works on the very job in the slot, and once clear_job has returned      *)
(* nobody works on the cleared one.                                        *)
(***************************************************************************)
OneJobPerGeneration ==
    \A w \in fresh \ sat :
        \/ holding[w] = job
        \/ job = NoJob /\ stratum = "clear"

(***************************************************************************)
(* A stand-in that left the current job to the GPUs does so while a GPU    *)
(* mines it, or is about to be woken: no release, failed self-test or      *)
(* stall leaves the CPU asleep with nothing mining.                        *)
(***************************************************************************)
DeferralStands ==
    \A c \in deferred :
        (c \in fresh /\ job # NoJob) => (GpusMine \/ ChangePending)

(***************************************************************************)
(* Nobody sleeps through a job: a worker asleep on the condition variable  *)
(* has no job to take.                                                     *)
(***************************************************************************)
NoLostWakeup == \A w \in asleep : ~CanTake(w)

(***************************************************************************)
(* gpu_capable counts the workers whose claim bit is set, apart from those *)
(* between the bit and the counter.                                        *)
(***************************************************************************)
CountedClaims == {g \in Gpus : (g \in claims) = (gpc[g] # "count")}
CounterMatchesClaims == gpuCapable = Cardinality(CountedClaims)

(***************************************************************************)
(* A stand-in mines the current job only while no GPU takes it.  (Violated *)
(* when the stall guard drops a mark it read as holding nothing while the  *)
(* worker claims again: nobody is told, and the CPU mines on beside it.)   *)
(***************************************************************************)
StandInsStandAside ==
    \A c \in Cpus :
        (StandIn /\ cpc[c] = "mine" /\ c \in fresh /\ job # NoJob)
            => (~GpusMine \/ ChangePending)

(***************************************************************************)
(* The watchdog ends the process only when nothing could mine: every GPU   *)
(* worker is gone and no CPU thread could take the proof of work it read.  *)
(***************************************************************************)
WatchdogSparesMiners ==
    Exited =>
        /\ \A g \in Gpus : gpc[g] = "dead"
        /\ Cpus = {} \/ watchAlgo = "other" \/ bc3 = "failed"

(***************************************************************************)
(* A BC3Hash job that stays is mined: again and again some CPU thread is   *)
(* on it or some card has finished a launch within the stall limit, unless *)
(* the CPU build is broken or a thread has searched its whole share of the *)
(* job.  In particular a card whose driver never answers cannot keep the   *)
(* stand-ins asleep for good.                                              *)
(***************************************************************************)
Hashing ==
    \/ \E c \in Cpus : cpc[c] = "mine"
    \/ \E g \in Gpus : gpc[g] = "mine" /\ g \notin idle
JobIsBc3 == job \in Bc3Jobs /\ pow = "bc3"
SearchedOut == \E c \in sat : c \in fresh /\ c \in Cpus /\ c \notin deferred
SomeoneMines ==
    <>[](JobIsBc3 /\ bc3 = "ok" /\ ~Exited) => []<>(Hashing \/ SearchedOut)

-----------------------------------------------------------------------------
(***************************************************************************)
(* The inductive invariant behind the safety properties.                   *)
(***************************************************************************)
\* The noted proof of work is the slot's, unless a job is on its way in.
PowMatches ==
    /\ (job # NoJob /\ incoming = NoJob) => pow = AlgoOf(job)
    /\ incoming # NoJob => pow = AlgoOf(incoming) /\ stratum = "idle"
    /\ stratum = "clear" => job = NoJob

\* Only a waiting worker sleeps or has a generation to sit out.
WaitersWait ==
    /\ \A c \in Cpus : c \in asleep \cup sat \cup deferred => cpc[c] = "wait"
    /\ \A g \in Gpus : g \in asleep \cup sat => gpc[g] = "wait"

\* A worker outside its mining loop and not on its way back holds nothing.
ClaimFree(g) ==
    \/ gpc[g] \in {"open", "closed", "leaving", "dead"}
    \/ SetPending(g) /\ then[g] \in {"closed", "leaving"}
ClaimsReleased ==
    \A g \in Gpus :
        /\ SetPending(g) => then[g] # "open"
        /\ ClaimFree(g) => g \notin claims

Living == {g \in Gpus : gpc[g] # "dead"}
AliveCounts == alive = Cardinality(Living)
WatchSawNoneAlive == watchPc # "rest" => \A g \in Gpus : gpc[g] = "dead"

\* The guard sets slots aside only in a check that began on BC3Hash.
GuardSound ==
    /\ guardDue # {} => guardAlgo = "bc3"
    /\ guardVerdict = "stall" => guardAlgo = "bc3"
    /\ guardPc # "act" => guardVerdict = "keep"
    /\ guardPc = "rest" => guardChanges = {}

\* What a thread has read so far is still so, unless a nudge is to come.
ReadsStand ==
    \A c \in Cpus : cpc[c] = "slots" =>
        /\ holding[c] \notin Bc3Jobs => capRead[c] = 0
        /\ (c \in fresh /\ job # NoJob /\ holding[c] \in Bc3Jobs /\ ~ChangePending) =>
               /\ capRead[c] = gpuCapable
               /\ ((Gpus \ toRead[c]) \cap stalled \cap claims) \subseteq aside[c]

DeferredJobIsBc3 == \A c \in deferred : (c \in fresh /\ job # NoJob) => job \in Bc3Jobs

Inductive ==
    /\ TypeOK /\ PowMatches /\ WaitersWait /\ OneJobPerGeneration /\ NoLostWakeup
    /\ ClaimsReleased /\ CounterMatchesClaims /\ AliveCounts /\ WatchSawNoneAlive
    /\ WatchdogSparesMiners
    /\ GuardSound /\ ReadsStand /\ DeferredJobIsBc3 /\ DeferralStands

=============================================================================
