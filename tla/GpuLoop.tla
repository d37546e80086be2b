------------------------------ MODULE GpuLoop ------------------------------
(***************************************************************************)
(* A GPU worker's loop (src/src/gpu_worker.rs: run_gpu_worker): open the   *)
(* device, claim what it can mine, take jobs, load and self-test the       *)
(* BC3Hash kernel, mine, and reopen a device that stopped answering - each *)
(* time through GpuCapability::set, whose steps are in GpuClaims.  The     *)
(* launches themselves are module LaunchPipeline.                          *)
(***************************************************************************)
EXTENDS GpuClaims

CONSTANTS
    MaxReopens      \* MAX_REOPENS

ASSUME ReopenAssumption == MaxReopens \in Nat

VARIABLES
    kernel,         \* BC3Hash on the card: "none", "ready" or "failed" (bc3_failed)
    collected,      \* workers with w.collected > 0
    reopens         \* reopens since a launch last came back

gpuVars == <<kernel, collected, reopens>>
otherGuardVars == <<guardPc, guardAlgo, guardLeft, guardSlot, guardVerdict, guardChanges>>
notGpu == <<bc3, gpuCapable, stalled, otherGuardVars, watchVars>>
restOfBoard == <<job, pow, incoming, stratum, fresh, holding, sat, asleep>>

GpuTypeOK ==
    /\ kernel \in [Gpus -> {"none", "ready", "failed"}]
    /\ collected \in SUBSET Gpus
    /\ reopens \in [Gpus -> 0..MaxReopens]

GpuInit ==
    /\ kernel = [g \in Gpus |-> "none"]
    /\ collected = {}
    /\ reopens = [g \in Gpus |-> 0]

GpuGoes(g, to) == gpc' = [gpc EXCEPT ![g] = to] /\ UNCHANGED <<claims, then, idle, guardDue>>

-----------------------------------------------------------------------------
\* The claim closure: every PoW with a kernel that the CPU may still check.
Claim(g) == CallSet(g, CpuMaySupport, "wait")

OpenDevice(g) ==
    /\ gpc[g] = "open"
    /\ Claim(g) \/ GpuGoes(g, "leaving")       \* opened, or could not be
    /\ UNCHANGED <<restOfBoard, notGpu, ran, alive, gpuVars>>

GpuTakes(g) ==
    /\ gpc[g] = "wait"
    /\ Take(g) /\ GpuGoes(g, "prepare")
    /\ UNCHANGED <<notGpu, ran, alive, gpuVars>>

GpuSleeps(g) ==
    /\ gpc[g] = "wait"
    /\ FallAsleep(g) \/ WakeSpuriously(g)
    /\ UNCHANGED <<notGpu, claims, guardDue, ran, alive, gpc, then, gpuVars>>

-----------------------------------------------------------------------------
(***************************************************************************)
(* prepare_bc3 and the gate behind it, for the job just taken.  Which      *)
(* window is loaded is the tuning's business; here a kernel is loaded and  *)
(* self-tested, is not, or failed at the window the card wants.            *)
(***************************************************************************)
\* Nothing but BC3Hash has a kernel, and a failed kernel is not tried again.
GateRefuses(g) ==
    /\ gpc[g] = "prepare"
    /\ holding[g] \notin Bc3Jobs \/ kernel[g] = "failed"
    /\ SitOut(g) /\ GpuGoes(g, "wait")
    /\ UNCHANGED <<notGpu, ran, alive, gpuVars>>

KernelThere(g) ==
    /\ gpc[g] = "prepare" /\ holding[g] \in Bc3Jobs
    /\ kernel[g] = "ready"
    /\ GpuGoes(g, "mine")
    /\ UNCHANGED <<restOfBoard, notGpu, ran, alive, gpuVars>>

\* switch_bc3 to another window failed, and took the old kernel with it.
SwitchFails(g) ==
    /\ gpc[g] = "prepare" /\ holding[g] \in Bc3Jobs
    /\ kernel[g] = "ready"
    /\ kernel' = [kernel EXCEPT ![g] = "none"]
    /\ UNCHANGED <<restOfBoard, notGpu, claims, idle, guardDue, ran, alive, gpc, then, collected, reopens>>

\* The load waits for the CPU reference the self-test compares with.
LoadKernel(g) ==
    /\ gpc[g] = "prepare" /\ holding[g] \in Bc3Jobs
    /\ kernel[g] = "none" /\ bc3 # "building"
    /\ \/ /\ bc3 = "ok"
          /\ kernel' = [kernel EXCEPT ![g] = "ready"]
          /\ CallSet(g, TRUE, "mine")
       \/ /\ kernel' = [kernel EXCEPT ![g] = "failed"]
          /\ CallSet(g, FALSE, "prepare")
    /\ UNCHANGED <<restOfBoard, notGpu, ran, alive, collected, reopens>>

-----------------------------------------------------------------------------
\* A launch came back: its stamp is written and the card has worked.
FinishLaunch(g) ==
    /\ gpc[g] = "mine"
    /\ NotOverdue(g)
    /\ ran' = IF g \in stalled \/ guardPc # "rest" THEN ran \cup {g} ELSE ran
    /\ collected' = collected \cup {g}
    /\ UNCHANGED <<restOfBoard, notGpu, claims, alive, gpc, then, kernel, reopens>>

\* Every end of mine_job: launches that came back restore the reopen budget.
SpentReopens(g) == IF g \in collected THEN 0 ELSE reopens[g]

\* The generation moved, or a finished launch made the tuning ask for a switch.
GpuJobChanged(g) ==
    /\ gpc[g] = "mine"
    /\ g \notin fresh \/ g \in collected
    /\ reopens' = [reopens EXCEPT ![g] = SpentReopens(g)]
    /\ collected' = collected \ {g}
    /\ LetGo(g) /\ GpuGoes(g, "wait")
    /\ UNCHANGED <<notGpu, ran, alive, kernel>>

GpuExhausted(g) ==
    /\ gpc[g] = "mine"
    /\ reopens' = [reopens EXCEPT ![g] = SpentReopens(g)]
    /\ collected' = collected \ {g}
    /\ SitOut(g) /\ GpuGoes(g, "wait")
    /\ UNCHANGED <<notGpu, ran, alive, kernel>>

OutOfReopens(g) == SpentReopens(g) + 1 > MaxReopens

\* MAX_SCAN_ERRORS device errors in a row: give the claim up and reopen, or
\* give the card up; leaving the function drops the claim as well.
DeviceGone(g) ==
    /\ gpc[g] = "mine"
    /\ collected' = collected \ {g}
    /\ IF OutOfReopens(g)
       THEN /\ CallSet(g, FALSE, "leaving")
            /\ reopens' = [reopens EXCEPT ![g] = SpentReopens(g)]
       ELSE /\ CallSet(g, FALSE, "closed")
            /\ reopens' = [reopens EXCEPT ![g] = SpentReopens(g) + 1]
    /\ LetGo(g)
    /\ UNCHANGED <<notGpu, ran, alive, kernel>>

\* A reopened context has no kernel; the claim is raised before it has one.
Reopen(g) ==
    /\ gpc[g] = "closed"
    /\ \/ Claim(g) /\ kernel' = [kernel EXCEPT ![g] = "none"]
       \/ GpuGoes(g, "leaving") /\ UNCHANGED kernel
    /\ UNCHANGED <<restOfBoard, notGpu, ran, alive, collected, reopens>>

\* `_alive' was declared before the claim, so it is dropped after it.
LeaveAlive(g) ==
    /\ gpc[g] = "leaving"
    /\ alive' = alive - 1
    /\ GpuGoes(g, "dead")
    /\ UNCHANGED <<restOfBoard, notGpu, ran, gpuVars>>

GpuStep(g) ==
    \/ OpenDevice(g) \/ GpuTakes(g) \/ GpuSleeps(g) \/ GateRefuses(g) \/ KernelThere(g) \/ SwitchFails(g)
    \/ LoadKernel(g) \/ FinishLaunch(g) \/ GpuJobChanged(g) \/ GpuExhausted(g)
    \/ DeviceGone(g) \/ Reopen(g) \/ LeaveAlive(g)

=============================================================================
