---------------------------- MODULE SearchSpace ----------------------------
(***************************************************************************)
(* A job's search space and one worker's way through it (src/src/worker.rs *)
(* and src/src/gpu_worker.rs).  Worker w owns the extranonce2 counters     *)
(* Index[w], Index[w] + Stride, ... that fit the job's extranonce2 size,   *)
(* and within each every nonce.  A job that covers the same space as the   *)
(* one before it (MinerJob::same_search_space) is continued where the      *)
(* worker stopped; any other one starts over.                              *)
(***************************************************************************)
EXTENDS Integers, FiniteSets

CONSTANTS
    Cpus, Gpus,     \* CPU threads and GPU workers
    Index,          \* worker_index: threads first, then GPU slots
    Stride,         \* total_workers
    Nonces,         \* 2^32 in the code
    En2Limit,       \* 2^(8 * extranonce2_size): 256 for a one-byte extranonce2
    MaxTemplates    \* bound: different search spaces the pool sends

Workers == Cpus \cup Gpus

ASSUME SearchAssumption ==
    /\ IsFiniteSet(Cpus) /\ IsFiniteSet(Gpus) /\ Cpus \cap Gpus = {}
    /\ Workers # {} /\ Stride = Cardinality(Workers)
    /\ Nonces \in Nat \ {0} /\ En2Limit \in Nat
    /\ MaxTemplates \in Nat
    /\ Index \in [Workers -> 0 .. Stride - 1]
    /\ \A v, w \in Workers : v # w => Index[v] # Index[w]

VARIABLES
    space,      \* the search space of the job in the slot; 0 before the first job
    fresh,      \* workers whose remembered generation is the current one
    at,         \* the space of each worker's job, or of the last one it mined (prev)
    en2,        \* where it stands: extranonce2 counter ...
    nonce,      \* ... and nonce
    searched,   \* what it has hashed and submitted of space at[w] (history)
    spent       \* workers whose latest job ended as exhausted

searchVars == <<space, fresh, at, en2, nonce, searched, spent>>

Header == (0 .. En2Limit - 1) \X (0 .. Nonces - 1)

SearchTypeOK ==
    /\ space \in 0 .. MaxTemplates
    /\ fresh \in SUBSET Workers
    /\ at \in [Workers -> 0 .. MaxTemplates]
    /\ en2 \in [Workers -> Nat]
    /\ nonce \in [Workers -> 0 .. Nonces - 1]
    /\ searched \in [Workers -> SUBSET Header]
    /\ spent \in SUBSET Workers

SearchInit ==
    /\ space = 0
    /\ fresh = {}
    /\ at = [w \in Workers |-> 0]
    /\ en2 = [w \in Workers |-> Index[w]]
    /\ nonce = [w \in Workers |-> 0]
    /\ searched = [w \in Workers |-> {}]
    /\ spent = {}

-----------------------------------------------------------------------------
En2Fits(e) == e < En2Limit

\* A launch or batch of `count' nonces from `start' of extranonce2 e.
Span(e, start, count) == {<<e, n>> : n \in start .. start + count - 1}

\* At most `max' nonces, and none past the end of the nonce space.
Chunk(max, start) == IF max <= Nonces - start THEN max ELSE Nonces - start

\* Where a worker stands after `count' nonces from `start' (overflowing_add).
NextNonce(start, count) == (start + count) % Nonces
NextEn2(e, start, count) == IF start + count >= Nonces THEN e + Stride ELSE e

MoveTo(w, e, n) ==
    /\ en2' = [en2 EXCEPT ![w] = e]
    /\ nonce' = [nonce EXCEPT ![w] = n]

\* Take the job in the slot: start_on, and the head of Worker::mine_job.
TakeJob(w) ==
    /\ space # 0
    /\ w \in spent => w \notin fresh       \* sat_out
    /\ fresh' = fresh \cup {w}
    /\ at' = [at EXCEPT ![w] = space]
    /\ spent' = spent \ {w}
    /\ IF at[w] = space
       THEN UNCHANGED <<en2, nonce, searched>>
       ELSE MoveTo(w, Index[w], 0) /\ searched' = [searched EXCEPT ![w] = {}]
    /\ UNCHANGED space

-----------------------------------------------------------------------------
\* The pool retargets, or a capability change nudges: a new generation of the
\* same space.
SameSpaceAgain ==
    /\ space # 0 /\ fresh # {}
    /\ fresh' = {}
    /\ UNCHANGED <<space, at, en2, nonce, searched, spent>>

\* A new template: never one of an earlier job, whose previous block,
\* time or coinbase differ.
NewTemplate ==
    /\ space < MaxTemplates
    /\ space' = space + 1
    /\ fresh' = {}
    /\ UNCHANGED <<at, en2, nonce, searched, spent>>

=============================================================================
