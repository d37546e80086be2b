------------------------------ MODULE CpuSweep ------------------------------
(***************************************************************************)
(* A CPU thread on one job (src/src/worker.rs: mine_job, resume_point).    *)
(***************************************************************************)
EXTENDS SearchSpace

CONSTANTS
    Batch       \* nonces between two looks at the generation

ASSUME BatchAssumption == Batch \in Nat \ {0}

VARIABLES
    sweeping    \* threads inside mine_job

SweepTypeOK == sweeping \in SUBSET Cpus
SweepInit == sweeping = {}

SweepStarts(c) ==
    /\ c \notin sweeping
    /\ TakeJob(c)
    /\ sweeping' = sweeping \cup {c}

\* en2_fits at the head of the outer loop.
SweepExhausted(c) ==
    /\ c \in sweeping
    /\ ~En2Fits(en2[c])
    /\ sweeping' = sweeping \ {c}
    /\ spent' = spent \cup {c}
    /\ UNCHANGED <<space, fresh, at, en2, nonce, searched>>

\* Mutant: a wrap in the very batch that was interrupted is overlooked.
ResumeInWrap(c, count) ==
    MoveTo(c, IF c \in fresh THEN NextEn2(en2[c], nonce[c], count) ELSE en2[c],
              NextNonce(nonce[c], count))

\* Past the batch: resume_point after an interruption, and the next turn of
\* the loops otherwise, which agree.
ResumePoint(c, count) ==
    MoveTo(c, NextEn2(en2[c], nonce[c], count), NextNonce(nonce[c], count))

\* One batch: every nonce hashed, every hit submitted, then the generation.
SweepBatch(c) ==
    /\ c \in sweeping
    /\ En2Fits(en2[c])
    /\ LET count == Chunk(Batch, nonce[c]) IN
        /\ searched' = [searched EXCEPT ![c] = @ \cup Span(en2[c], nonce[c], count)]
        /\ ResumePoint(c, count)
    /\ sweeping' = IF c \in fresh THEN sweeping ELSE sweeping \ {c}
    /\ UNCHANGED <<space, fresh, at, spent>>

SweepStep(c) == SweepStarts(c) \/ SweepExhausted(c) \/ SweepBatch(c)

=============================================================================
