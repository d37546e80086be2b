------------------------------- MODULE Search -------------------------------
(***************************************************************************)
(* All workers of the miner on the search space of the pool's jobs: CPU    *)
(* threads (CpuSweep) and GPU workers (LaunchPipeline), each on its own    *)
(* part, while the pool retargets and sends new templates.                 *)
(***************************************************************************)
EXTENDS CpuSweep, LaunchPipeline

vars == <<searchVars, sweeping, pipeVars>>

Init == SearchInit /\ SweepInit /\ PipeInit

PoolSteps == (SameSpaceAgain \/ NewTemplate) /\ UNCHANGED <<sweeping, pipeVars>>
CpuSteps(c) == SweepStep(c) /\ UNCHANGED pipeVars
GpuSteps(g) == LaunchStep(g) /\ UNCHANGED sweeping

Next ==
    \/ PoolSteps
    \/ \E c \in Cpus : CpuSteps(c)
    \/ \E g \in Gpus : GpuSteps(g)

Spec == Init /\ [][Next]_vars

\* Every driver call returns, with a result or an error.
FairSpec == Spec /\ \A g \in Gpus : WF_vars(GpuSteps(g) /\ lpc[g] \in {"fill", "refill"})

-----------------------------------------------------------------------------
TypeOK == SearchTypeOK /\ SweepTypeOK /\ PipeTypeOK

\* Worker w's share of the space.
Part(w) == {h \in Header : h[1] % Stride = Index[w]}

\* Still to do: past the cursor, queued, or collected and not yet submitted.
Ahead(w) == {h \in Part(w) : h[1] > en2[w] \/ (h[1] = en2[w] /\ h[2] >= nonce[w])}
Queued(g) == UNION {Covers(inflight[g][i]) : i \in 1 .. Len(inflight[g])}
InHand(g) == UNION {Covers(hand[g][i]) : i \in 1 .. Len(hand[g])}
Pending(w) == Ahead(w) \cup IF w \in Gpus THEN Queued(w) \cup InHand(w) ELSE {}
Lost(w) == IF w \in Gpus THEN lost[w] ELSE {}

(***************************************************************************)
(* No header is hashed twice, by one worker or by two: nothing that is     *)
(* still to be hashed or submitted has been already, whatever retargets,   *)
(* device errors, reopens and window switches came between.  The pool      *)
(* would reject every share found there as a duplicate.                    *)
(***************************************************************************)
HashedOnce ==
    \A v, w \in Workers : at[v] = at[w] => Pending(w) \cap searched[v] = {}

(***************************************************************************)
(* No header is skipped: all of a worker's share is searched or still to   *)
(* do.  (But for a launch that was collected and waits for its hits to be  *)
(* submitted: DeviceError drops it when the refill behind it fails for     *)
(* good, and the cursor stays past it.)                                    *)
(***************************************************************************)
NothingSkipped == \A w \in Workers : Part(w) \subseteq searched[w] \cup Pending(w) \cup Lost(w)

(***************************************************************************)
(* When every worker calls a job exhausted, every header of it has been    *)
(* hashed and its shares submitted.  (Violated with two launches in flight *)
(* on the last range: an error then gives them up, but the job has already *)
(* been marked as ending, so nothing is queued again.)                     *)
(***************************************************************************)
ExhaustedMeansSearched ==
    (spent = Workers /\ \A w \in Workers : at[w] = space) =>
        Header = UNION {searched[w] : w \in Workers}

(***************************************************************************)
(* The launch loop of a job always returns: a device that keeps failing is *)
(* given up, one that answers runs out of space or notices the new job.    *)
(***************************************************************************)
PumpReturns == \A g \in Gpus : lpc[g] \in {"fill", "refill"} ~> lpc[g] \in {"idle", "gone"}

=============================================================================
