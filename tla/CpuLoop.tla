------------------------------ MODULE CpuLoop ------------------------------
(***************************************************************************)
(* A CPU thread's loop (src/src/worker.rs: run_worker): take a job, decide *)
(* whether it is this thread's or the GPUs', pass the algorithm gate, mine *)
(* until the generation moves.  What it hashes is not modelled here.       *)
(***************************************************************************)
EXTENDS GpuClaims

VARIABLES
    cpc,        \* where each thread is
    capRead,    \* gpu_capable as gpus_mine read it
    toRead,     \* slots stalled_claims has still to look at
    aside,      \* slots it found set aside
    deferred    \* threads that sat out because the GPUs mine (history)

cpuVars == <<cpc, capRead, toRead, aside, deferred>>
notCpu == <<bc3, claimVars, alive, gpc, then, guardVars, watchVars>>

CpuPc == {"wait", "capable", "slots", "gate", "mine"}

CpuTypeOK ==
    /\ cpc \in [Cpus -> CpuPc]
    /\ capRead \in [Cpus -> Int]
    /\ toRead \in [Cpus -> SUBSET Gpus]
    /\ aside \in [Cpus -> SUBSET Gpus]
    /\ deferred \in SUBSET Cpus

CpuInit ==
    /\ cpc = [c \in Cpus |-> "wait"]
    /\ capRead = [c \in Cpus |-> 0]
    /\ toRead = [c \in Cpus |-> {}]
    /\ aside = [c \in Cpus |-> {}]
    /\ deferred = {}

CpuGoes(c, to) == cpc' = [cpc EXCEPT ![c] = to]

-----------------------------------------------------------------------------
CpuTakes(c) ==
    /\ cpc[c] = "wait"
    /\ Take(c) /\ CpuGoes(c, "capable")
    /\ deferred' = deferred \ {c}
    /\ UNCHANGED <<notCpu, capRead, toRead, aside>>

CpuSleeps(c) ==
    /\ cpc[c] = "wait"
    /\ FallAsleep(c) \/ WakeSpuriously(c)
    /\ UNCHANGED <<notCpu, cpuVars>>

(***************************************************************************)
(* Shared::gpus_mine(job.algo): the counter first, then slot by slot the   *)
(* stall mark and the claim.  No other PoW is ever claimed, so for one the *)
(* counter reads 0.                                                        *)
(***************************************************************************)
ReadCapable(c) ==
    /\ cpc[c] = "capable"
    /\ capRead' = [capRead EXCEPT ![c] = IF holding[c] \in Bc3Jobs THEN gpuCapable ELSE 0]
    /\ toRead' = [toRead EXCEPT ![c] = Gpus]
    /\ aside' = [aside EXCEPT ![c] = {}]
    /\ CpuGoes(c, "slots")
    /\ UNCHANGED <<boardVars, notCpu, deferred>>

ReadSlot(c) ==
    /\ cpc[c] = "slots"
    /\ \E g \in toRead[c] :
        /\ toRead' = [toRead EXCEPT ![c] = @ \ {g}]
        /\ aside' = [aside EXCEPT ![c] =
                        IF g \in stalled \cap claims /\ holding[c] \in Bc3Jobs
                        THEN @ \cup {g} ELSE @]
    /\ UNCHANGED <<boardVars, notCpu, cpc, capRead, deferred>>

\* CpuRole::takes on what the thread has read.
Takes(c) == StandIn => ~(capRead[c] > Cardinality(aside[c]))

DecideRole(c) ==
    /\ cpc[c] = "slots" /\ toRead[c] = {}
    /\ IF Takes(c)
       THEN CpuGoes(c, "gate") /\ UNCHANGED <<boardVars, deferred>>
       ELSE CpuGoes(c, "wait") /\ SitOut(c) /\ deferred' = deferred \cup {c}
    /\ capRead' = [capRead EXCEPT ![c] = 0]
    /\ aside' = [aside EXCEPT ![c] = {}]
    /\ UNCHANGED <<notCpu, toRead>>

\* gate.check(cpu_supports): for BC3Hash this waits for the table build.
PassGate(c) ==
    /\ cpc[c] = "gate"
    /\ holding[c] \in Bc3Jobs => bc3 # "building"
    /\ IF holding[c] \in Bc3Jobs /\ bc3 = "ok"
       THEN CpuGoes(c, "mine") /\ UNCHANGED boardVars
       ELSE CpuGoes(c, "wait") /\ SitOut(c)
    /\ UNCHANGED <<notCpu, capRead, toRead, aside, deferred>>

\* mine_job returns because the generation moved ...
CpuJobChanged(c) ==
    /\ cpc[c] = "mine" /\ c \notin fresh
    /\ CpuGoes(c, "wait") /\ LetGo(c)
    /\ UNCHANGED <<notCpu, capRead, toRead, aside, deferred>>

\* ... or because every extranonce2 of this thread has been searched.
CpuExhausted(c) ==
    /\ cpc[c] = "mine"
    /\ CpuGoes(c, "wait") /\ SitOut(c)
    /\ UNCHANGED <<notCpu, capRead, toRead, aside, deferred>>

\* What a thread does without anybody's leave, on its way to the next job.
CpuProgress(c) ==
    \/ CpuTakes(c) \/ ReadCapable(c) \/ ReadSlot(c) \/ DecideRole(c)
    \/ PassGate(c) \/ CpuJobChanged(c)

CpuStep(c) == CpuProgress(c) \/ CpuSleeps(c) \/ CpuExhausted(c)

=============================================================================
