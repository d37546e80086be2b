----------------------------- MODULE GpuClaims -----------------------------
(***************************************************************************)
(* Which GPUs take BC3Hash (src/src/shared.rs: GpuCapability, gpu_capable, *)
(* the per-slot claims and stall marks) and the two supervisors that read  *)
(* it: the stall guard and the watchdog of src/src/main.rs.                *)
(*                                                                         *)
(* The claim bits, the counter and the stall marks are separate relaxed    *)
(* atomics, so every access is a step of its own.  Time is kept as the     *)
(* answers of the two comparisons the code makes with it: `idle' (module   *)
(* JobBoard) and `ran', the slots where a launch finished after the        *)
(* instant a marked slot carries, or the check now running would put on an *)
(* unmarked one.                                                           *)
(***************************************************************************)
EXTENDS JobBoard

CONSTANTS
    StandIn     \* TRUE: CpuRole::GpuFallback, FALSE: CpuRole::All

ASSUME StandInAssumption == StandIn \in BOOLEAN

VARIABLES
    bc3,          \* bc3hash::initialize: "building", "ok" or "failed"
    claims,       \* slots whose BC3Hash claim bit is set
    gpuCapable,   \* gpu_capable[BC3Hash]
    stalled,      \* slots with a stall mark
    ran,          \* see above
    alive,        \* gpu_workers_alive
    gpc,          \* where each GPU worker is
    then,         \* where it goes on after GpuCapability::set
    guardPc,      \* the stall guard thread ...
    guardAlgo,    \* ... the PoW its check began on
    guardDue,     \* ... the slots that are overdue for this check
    guardLeft,    \* ... the slots still to look at
    guardSlot,    \* ... the slot it has read, if any, and what it will do
    guardVerdict,
    guardChanges, \* ... the slots it has set aside or taken back
    watchPc,      \* the watchdog thread: "exit" when it has ended the process
    watchAlgo     \* ... the PoW it asks about

claimVars == <<claims, gpuCapable, stalled, ran>>
guardVars == <<guardPc, guardAlgo, guardDue, guardLeft, guardSlot, guardVerdict, guardChanges>>
watchVars == <<watchPc, watchAlgo>>

\* cpu_may_support(BC3Hash): true until the build is known to be broken.
CpuMaySupport == bc3 # "failed"

\* A torn read of the two sides is modelled where a thread makes it.
GpusMine == gpuCapable > Cardinality(stalled \cap claims)

GpuPc == {"open", "count", "check", "nudge", "wait", "prepare", "mine",
          "closed", "leaving", "dead"}
CallerPc == {"open", "wait", "prepare", "mine", "closed", "leaving"}
GuardPc == {"rest", "read", "act", "check", "nudge"}
WatchPc == {"rest", "algo", "devices", "exit"}

ClaimsTypeOK ==
    /\ bc3 \in {"building", "ok", "failed"}
    /\ claims \in SUBSET Gpus
    /\ gpuCapable \in Int
    /\ stalled \in SUBSET Gpus
    /\ ran \in SUBSET Gpus
    /\ alive \in Int
    /\ gpc \in [Gpus -> GpuPc]
    /\ then \in [Gpus -> CallerPc]
    /\ guardPc \in GuardPc
    /\ guardAlgo \in {"none", "bc3", "other"}
    /\ guardDue \in SUBSET Gpus
    /\ guardLeft \in SUBSET Gpus
    /\ guardSlot \in SUBSET Gpus
    /\ guardVerdict \in {"keep", "resume", "drop", "stall"}
    /\ guardChanges \in SUBSET Gpus
    /\ watchPc \in WatchPc
    /\ watchAlgo \in {"none", "bc3", "other"}

ClaimsInit ==
    /\ bc3 = "building"
    /\ claims = {}
    /\ gpuCapable = 0
    /\ stalled = {}
    /\ ran = {}
    /\ alive = Cardinality(Gpus)
    /\ gpc = [g \in Gpus |-> "open"]
    /\ then = [g \in Gpus |-> "open"]
    /\ guardPc = "rest"
    /\ guardAlgo = "none"
    /\ guardDue = {}
    /\ guardLeft = {}
    /\ guardSlot = {}
    /\ guardVerdict = "keep"
    /\ guardChanges = {}
    /\ watchPc = "rest"
    /\ watchAlgo = "none"

-----------------------------------------------------------------------------
(***************************************************************************)
(* GpuCapability::set, called by worker g, which goes on at `next'.  A     *)
(* call that changes nothing returns at once.  The claim bit is the first  *)
(* shared effect and belongs to the caller's step; the counter, the look   *)
(* at the current proof of work and the nudge follow one by one.           *)
(***************************************************************************)
\* Slot g has claimed or finished a launch just now.
NotOverdue(g) ==
    /\ idle' = idle \ {g}
    /\ guardDue' = guardDue \ {g}

\* Mutant: set trusts its caller not to repeat itself.
CallSetUnchecked(g, capable, next) ==
    /\ gpc' = [gpc EXCEPT ![g] = "count"]
    /\ then' = [then EXCEPT ![g] = next]
    /\ claims' = IF capable THEN claims \cup {g} ELSE claims \ {g}
    /\ IF capable THEN NotOverdue(g) ELSE UNCHANGED <<idle, guardDue>>

CallSet(g, capable, next) ==
    IF (g \in claims) = capable
    THEN /\ gpc' = [gpc EXCEPT ![g] = next]
         /\ UNCHANGED <<claims, then, idle, guardDue>>
    ELSE /\ gpc' = [gpc EXCEPT ![g] = "count"]
         /\ then' = [then EXCEPT ![g] = next]
         /\ claims' = IF capable THEN claims \cup {g} ELSE claims \ {g}
         /\ IF capable THEN NotOverdue(g) ELSE UNCHANGED <<idle, guardDue>>    \* claimed_at

SetCount(g) ==
    /\ gpc[g] = "count"
    /\ gpuCapable' = IF g \in claims THEN gpuCapable + 1 ELSE gpuCapable - 1
    /\ gpc' = [gpc EXCEPT ![g] = "check"]
    /\ UNCHANGED <<boardVars, bc3, claims, stalled, ran, alive, then, guardVars, watchVars>>

\* set returns to its caller.
Returns(g) ==
    /\ gpc' = [gpc EXCEPT ![g] = then[g]]
    /\ then' = [then EXCEPT ![g] = "open"]

\* capability_changed: only a change to the current proof of work is nudged.
SetCheck(g) ==
    /\ gpc[g] = "check"
    /\ IF pow = "bc3"
       THEN gpc' = [gpc EXCEPT ![g] = "nudge"] /\ UNCHANGED then
       ELSE Returns(g)
    /\ UNCHANGED <<boardVars, bc3, claimVars, alive, guardVars, watchVars>>

SetNudge(g) ==
    /\ gpc[g] = "nudge"
    /\ Nudge
    /\ Returns(g)
    /\ UNCHANGED <<bc3, claimVars, alive, guardVars, watchVars>>

-----------------------------------------------------------------------------
(***************************************************************************)
(* Shared::check_gpu_stalls.  The clock, the proof of work, the presence   *)
(* of a job and job_since are read once at the start; then, slot by slot,  *)
(* claims and stamp are read and the stall mark is written from them.      *)
(* guardDue is the set of slots overdue by what this check has read and   *)
(* will read: a launch or a claim takes its slot out, a run of jobs that   *)
(* starts meanwhile does not.                                              *)
(***************************************************************************)
GuardStart ==
    /\ Gpus # {}
    /\ guardPc = "rest"
    /\ guardPc' = "read"
    /\ guardAlgo' = pow
    /\ guardLeft' = Gpus
    /\ guardDue' = IF job # NoJob /\ pow = "bc3" THEN idle ELSE {}
    /\ ran' = ran \cap stalled       \* a mark set now would carry this instant
    /\ UNCHANGED <<boardVars, bc3, claims, gpuCapable, stalled, alive, gpc, then, watchVars>>
    /\ UNCHANGED <<guardSlot, guardVerdict, guardChanges>>

\* A marked slot is taken back when it hashed since or holds nothing (which
\* is no change worth telling); an unmarked one is set aside when it holds
\* the current PoW and is overdue.  Only this thread writes the marks.
\* Mutant: only a slot that has finished a launch can be found stalled.
VerdictAfterLaunch(g) ==
    IF g \in stalled
    THEN IF g \notin claims THEN "drop" ELSE IF g \in ran THEN "resume" ELSE "keep"
    ELSE IF g \in claims /\ g \in guardDue /\ g \in ran THEN "stall" ELSE "keep"

Verdict(g) ==
    IF g \in stalled
    THEN IF g \notin claims THEN "drop" ELSE IF g \in ran THEN "resume" ELSE "keep"
    ELSE IF g \in claims /\ g \in guardDue THEN "stall" ELSE "keep"

GuardRead(g) ==
    /\ guardPc = "read" /\ g \in guardLeft
    /\ guardPc' = "act"
    /\ guardSlot' = {g}
    /\ guardVerdict' = Verdict(g)
    /\ guardLeft' = guardLeft \ {g}
    /\ guardDue' = guardDue \ {g}
    /\ UNCHANGED <<boardVars, bc3, claimVars, alive, gpc, then, watchVars>>
    /\ UNCHANGED <<guardAlgo, guardChanges>>

GuardAct(g) ==
    /\ guardPc = "act" /\ guardSlot = {g}
    /\ stalled' = IF guardVerdict \in {"resume", "drop"} THEN stalled \ {g}
                  ELSE IF guardVerdict = "stall" THEN stalled \cup {g} ELSE stalled
    /\ guardChanges' = IF guardVerdict \in {"resume", "stall"}
                       THEN guardChanges \cup {g} ELSE guardChanges
    /\ guardPc' = "read"
    /\ guardSlot' = {}
    /\ guardVerdict' = "keep"
    /\ UNCHANGED <<boardVars, bc3, claims, gpuCapable, ran, alive, gpc, then, watchVars>>
    /\ UNCHANGED <<guardAlgo, guardLeft, guardDue>>

\* Back to sleep for five seconds.
GuardRests ==
    /\ guardPc' = "rest"
    /\ guardAlgo' = "none"
    /\ guardDue' = {}
    /\ guardChanges' = {}
    /\ UNCHANGED <<guardLeft, guardSlot, guardVerdict>>

GuardGoes(to) ==
    /\ guardPc' = to
    /\ UNCHANGED <<guardAlgo, guardDue, guardLeft, guardSlot, guardVerdict, guardChanges>>

GuardFinish ==
    /\ guardPc = "read" /\ guardLeft = {}
    /\ IF guardChanges # {} /\ guardAlgo # "none" THEN GuardGoes("check") ELSE GuardRests
    /\ UNCHANGED <<boardVars, bc3, claimVars, alive, gpc, then, watchVars>>

GuardCheck ==
    /\ guardPc = "check"
    /\ IF pow = guardAlgo THEN GuardGoes("nudge") ELSE GuardRests
    /\ UNCHANGED <<boardVars, bc3, claimVars, alive, gpc, then, watchVars>>

GuardNudge ==
    /\ guardPc = "nudge"
    /\ Nudge
    /\ GuardRests
    /\ UNCHANGED <<bc3, claimVars, alive, gpc, then, watchVars>>

-----------------------------------------------------------------------------
(***************************************************************************)
(* The watchdog: with no GPU worker left and no CPU thread on the current  *)
(* proof of work, the process exits so that somebody notices.              *)
(***************************************************************************)
\* plan.devices_for(algo, gpus_mine(algo)).cpu; before the first job, any CPU thread.
\* Mutant: asks cpu_supports, which a running table build answers with no.
CpuMiningNow(algo) ==
    /\ Cpus # {}
    /\ \/ algo = "none"
       \/ algo = "bc3" /\ bc3 = "ok" /\ (~StandIn \/ ~GpusMine)

CpuMining(algo) ==
    /\ Cpus # {}
    /\ \/ algo = "none"
       \/ algo = "bc3" /\ CpuMaySupport /\ (~StandIn \/ ~GpusMine)

WatchAlive ==
    /\ Gpus # {}
    /\ watchPc = "rest" /\ alive = 0
    /\ watchPc' = "algo"
    /\ UNCHANGED <<boardVars, bc3, claimVars, alive, gpc, then, guardVars, watchAlgo>>

WatchReadsAlgo ==
    /\ watchPc = "algo"
    /\ watchPc' = "devices"
    /\ watchAlgo' = pow
    /\ UNCHANGED <<boardVars, bc3, claimVars, alive, gpc, then, guardVars>>

WatchDevices ==
    /\ watchPc = "devices"
    /\ watchPc' = IF CpuMining(watchAlgo) THEN "rest" ELSE "exit"
    /\ watchAlgo' = IF CpuMining(watchAlgo) THEN "none" ELSE watchAlgo
    /\ UNCHANGED <<boardVars, bc3, claimVars, alive, gpc, then, guardVars>>

\* bc3hash-init: the tables are built and self-tested, or are known not to work.
Bc3Initialized(result) ==
    /\ bc3 = "building"
    /\ bc3' = result
    /\ UNCHANGED <<boardVars, claimVars, alive, gpc, then, guardVars, watchVars>>

=============================================================================
