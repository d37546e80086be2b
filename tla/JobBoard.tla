------------------------------ MODULE JobBoard ------------------------------
(***************************************************************************)
(* The job slot every worker thread waits on (src/src/shared.rs: the       *)
(* Mutex<Option<MinerJob>>, its condition variable, the generation counter *)
(* and the proof of work of the latest job), and the stratum thread's use  *)
(* of it: publish_job and clear_job.                                       *)
(*                                                                         *)
(* The generation is a 64-bit counter that the code only ever compares for *)
(* equality with a value read earlier.  The model keeps the outcome of     *)
(* that comparison: `fresh' is the set of workers whose remembered         *)
(* generation is still the current one, so bumping the counter is          *)
(* fresh' = {}.  Nothing needs a bound.                                    *)
(***************************************************************************)
EXTENDS Integers, FiniteSets

CONSTANTS
    Cpus,       \* CPU threads main started
    Gpus,       \* GPU workers main started, one per slot
    Jobs,       \* what the pool may send
    Bc3Jobs,    \* the jobs of Jobs whose version carries BC3Hash's bit
    NoJob       \* the empty job slot

ASSUME BoardAssumption ==
    /\ IsFiniteSet(Cpus) /\ IsFiniteSet(Gpus)
    /\ Cpus \cap Gpus = {}
    /\ Bc3Jobs \subseteq Jobs
    /\ NoJob \notin Jobs

VARIABLES
    job,        \* the slot
    pow,        \* PowState.algo: "none" before the first job
    incoming,   \* the job inside publish_job, between note_pow and the slot
    stratum,    \* "clear" inside clear_job, between the slot and the generation
    idle,       \* GPU slots overdue: see below
    fresh,      \* workers whose remembered generation is the current one
    holding,    \* the job each worker is at; NoJob while it waits for one
    sat,        \* workers with sat_out = Some(their generation)
    asleep      \* workers blocked in job_cv.wait

boardVars == <<job, pow, incoming, stratum, idle, fresh, holding, sat, asleep>>

Workers == Cpus \cup Gpus

\* Only BC3Hash has a kernel or a hash function; Sha256d and Sha3t behave alike.
AlgoOf(j) == IF j \in Bc3Jobs THEN "bc3" ELSE "other"

BoardTypeOK ==
    /\ job \in Jobs \cup {NoJob}
    /\ pow \in {"none", "bc3", "other"}
    /\ incoming \in Jobs \cup {NoJob}
    /\ stratum \in {"idle", "clear"}
    /\ idle \in SUBSET Gpus
    /\ fresh \in SUBSET Workers
    /\ holding \in [Workers -> Jobs \cup {NoJob}]
    /\ sat \in SUBSET Workers
    /\ asleep \in SUBSET Workers

BoardInit ==
    /\ job = NoJob
    /\ pow = "none"
    /\ incoming = NoJob
    /\ stratum = "idle"
    /\ idle = {}
    /\ fresh = {}
    /\ holding = [w \in Workers |-> NoJob]
    /\ sat = {}
    /\ asleep = {}

-----------------------------------------------------------------------------
(***************************************************************************)
(* The waits.  wait_for_job returns as soon as there is a job;             *)
(* wait_for_job_after(seen) also wants another generation than `seen'.     *)
(* Both test and sleep under the slot's lock, so each is one step.         *)
(***************************************************************************)
CanTake(w) == job # NoJob /\ (w \in sat => w \notin fresh)

Take(w) ==
    /\ w \notin asleep
    /\ CanTake(w)
    /\ holding' = [holding EXCEPT ![w] = job]
    /\ fresh' = fresh \cup {w}
    /\ sat' = sat \ {w}
    /\ UNCHANGED <<job, pow, incoming, stratum, idle, asleep>>

FallAsleep(w) ==
    /\ w \notin asleep
    /\ ~CanTake(w)
    /\ asleep' = asleep \cup {w}
    /\ UNCHANGED <<job, pow, incoming, stratum, idle, fresh, holding, sat>>

\* A condition variable may wake a thread nobody notified.
WakeSpuriously(w) ==
    /\ w \in asleep
    /\ asleep' = asleep \ {w}
    /\ UNCHANGED <<job, pow, incoming, stratum, idle, fresh, holding, sat>>

\* `sat_out = Some(generation)': wait for another generation than this one.
SitOut(w) ==
    /\ sat' = sat \cup {w}
    /\ holding' = [holding EXCEPT ![w] = NoJob]
    /\ UNCHANGED <<job, pow, incoming, stratum, idle, fresh, asleep>>

\* Back to wait_for_job: the generation is forgotten.
LetGo(w) ==
    /\ fresh' = fresh \ {w}
    /\ holding' = [holding EXCEPT ![w] = NoJob]
    /\ UNCHANGED <<job, pow, incoming, stratum, idle, sat, asleep>>

-----------------------------------------------------------------------------
(***************************************************************************)
(* nudge: wake everybody with the job they already have.  The generation   *)
(* moves under the lock, so notify_all cannot be slept through and belongs *)
(* to the same step.                                                       *)
(***************************************************************************)
\* Mutant: notify_all without moving the generation.
NudgeWithoutBump ==
    /\ asleep' = IF job = NoJob THEN asleep ELSE {}
    /\ UNCHANGED <<job, pow, incoming, stratum, idle, fresh, holding, sat>>

\* Mutant: the generation moves and nobody is notified.
NudgeSilently ==
    /\ fresh' = IF job = NoJob THEN fresh ELSE {}
    /\ UNCHANGED <<job, pow, incoming, stratum, idle, holding, sat, asleep>>

Nudge ==
    /\ IF job = NoJob
         THEN UNCHANGED <<fresh, asleep>>
         ELSE fresh' = {} /\ asleep' = {}
    /\ UNCHANGED <<job, pow, incoming, stratum, idle, holding, sat>>

-----------------------------------------------------------------------------
(***************************************************************************)
(* The stratum thread.  publish_job notes the proof of work first and sets *)
(* the slot later; clear_job empties the slot under the lock and bumps the *)
(* generation after releasing it, without a notify.                        *)
(***************************************************************************)
StratumIdle == incoming = NoJob /\ stratum = "idle"

NotePow(j) ==
    /\ StratumIdle
    /\ pow' = AlgoOf(j)
    /\ incoming' = j
    /\ UNCHANGED <<job, stratum, idle, fresh, holding, sat, asleep>>

PublishJob ==
    /\ incoming # NoJob
    /\ job' = incoming
    /\ incoming' = NoJob
    /\ idle' = IF job = NoJob THEN {} ELSE idle     \* job_since moves on the first job after none
    /\ fresh' = {}
    /\ asleep' = {}
    /\ UNCHANGED <<pow, stratum, holding, sat>>

ClearSlot ==
    /\ StratumIdle
    /\ job' = NoJob
    /\ stratum' = "clear"
    /\ UNCHANGED <<pow, incoming, idle, fresh, holding, sat, asleep>>

\* Mutant: clear_job leaves the generation alone.
ClearKeepsGeneration ==
    /\ stratum = "clear"
    /\ stratum' = "idle"
    /\ UNCHANGED <<job, pow, incoming, idle, fresh, holding, sat, asleep>>

ClearBump ==
    /\ stratum = "clear"
    /\ stratum' = "idle"
    /\ fresh' = {}
    /\ UNCHANGED <<job, pow, incoming, idle, holding, sat, asleep>>

(***************************************************************************)
(* Time.  Slot g is in `idle' when more than GPU_STALL_SECS have gone by   *)
(* since the latest of its last launch (gpu_slot_stamp), its last claim    *)
(* (gpu_slot_claimed_at) and the start of the run of jobs (job_since).     *)
(***************************************************************************)
Ages(g) ==
    /\ g \notin idle
    /\ idle' = idle \cup {g}
    /\ UNCHANGED <<job, pow, incoming, stratum, fresh, holding, sat, asleep>>

=============================================================================
