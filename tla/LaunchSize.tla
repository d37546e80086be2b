----------------------------- MODULE LaunchSize -----------------------------
(***************************************************************************)
(* How many nonces the next launch covers: the autotune toward a time per  *)
(* launch, in whole waves of the card (src/src/gpu_worker.rs: mine_job,    *)
(* top_up, finish, autotune), and the budget that keeps a launch's hits    *)
(* inside the kernel's buffer (src/src/backend/mod.rs: HitBudget).  How    *)
(* many hits a launch has follows from the share difficulty.               *)
(***************************************************************************)
EXTENDS Naturals

CONSTANTS
    MaxHits,        \* MAX_HITS
    RecoverAfter,   \* RECOVER_AFTER
    MinBatch,       \* BC3_MIN_BATCH
    MaxBatch,       \* BC3_MAX_BATCH
    StartBatch,     \* BC3_START_BATCH
    U32Max,         \* the largest u32
    Granules,       \* waves of the card's kernels: launch_granule
    Densities,      \* hits among Per nonces, at the difficulties the pool sets
    Per

ASSUME SizeAssumption ==
    /\ {MaxHits, RecoverAfter, MinBatch, MaxBatch, StartBatch, U32Max, Per} \subseteq Nat \ {0}
    /\ Granules \subseteq 1..U32Max /\ Densities \subseteq Nat

VARIABLES
    granule, batch,     \* of the worker
    limit, clean,       \* HitBudget: limit and clean_runs
    density             \* external

sizeVars == <<granule, batch, limit, clean, density>>

NoLimit == U32Max + 1   \* None: more than any launch
Least(a, b) == IF a < b THEN a ELSE b
Most(a, b) == IF a > b THEN a ELSE b

\* The smallest and the largest batch for a wave of g nonces.
Lowest(g) == (Most(MinBatch, g) \div g) * g
Highest(g) == Most(MaxBatch, Lowest(g))
Clamp(n, g) == Least(Most(n, Lowest(g)), Highest(g))

Whole(n, g) == Most(n \div g, 1) * g

SizeInit ==
    /\ granule \in Granules
    /\ batch = Whole(Clamp(StartBatch, granule), granule)
    /\ limit = NoLimit /\ clean = 0
    /\ density \in Densities

Hits(count) == (density * count) \div Per

\* HitBudget::chunk, and the floor top_up puts under it.
BudgetChunk(n) == Most(Least(limit, n), 1)

-----------------------------------------------------------------------------
\* autotune; the time a full launch would take is short, long or neither.
Autotune(took) ==
    LET next == CASE took = "short" /\ batch < Highest(granule) -> Least(Least(2 * batch, U32Max), Highest(granule))
                  [] took = "long" /\ batch > Lowest(granule) -> Most(batch \div 2, Lowest(granule))
                  [] OTHER -> batch
    IN  Clamp(Whole(next, granule), granule)

\* Mutant: the limit is never raised again.
StaysLow == limit

Doubled == IF 2 * limit > U32Max THEN NoLimit ELSE 2 * limit

\* div_ceil, and never nothing.
Halved(count) == Most((Least(limit, count) + 1) \div 2, 1)

\* A launch counts as clean with no more than a quarter of the buffer used.
HasHeadroom(reported) == reported * 4 <= MaxHits

\* HitBudget::overflowed, for a launch that fitted
Fitted(reported) ==
    IF limit = NoLimit THEN UNCHANGED <<limit, clean>>
    ELSE IF ~HasHeadroom(reported) THEN clean' = 0 /\ UNCHANGED limit
    ELSE IF clean + 1 >= RecoverAfter THEN clean' = 0 /\ limit' = Doubled
    ELSE clean' = clean + 1 /\ UNCHANGED limit

\* and for one that did not.
Overflowed(count) == clean' = 0 /\ limit' = Halved(count)

\* Worker::finish, after a launch of count nonces.
FinishSized(count, took) ==
    /\ IF Hits(count) <= MaxHits THEN Fitted(Hits(count)) ELSE Overflowed(count)
    /\ batch' = Autotune(took)
    /\ UNCHANGED <<granule, density>>

\* mine_job: another kernel may have another wave.
NewRun(g) ==
    /\ granule' = g
    /\ batch' = Whole(Clamp(batch, g), g)
    /\ UNCHANGED <<limit, clean, density>>

\* The pool sets another difficulty.
NewDifficulty(d) ==
    /\ density' = d
    /\ UNCHANGED <<granule, batch, limit, clean>>

\* A launch of the whole chunk, or a shorter one at the end of a nonce range.
SizedLaunch == \E count \in {1, BudgetChunk(batch)}, took \in {"short", "fine", "long"} : FinishSized(count, took)

SizeNext ==
    \/ SizedLaunch
    \/ \E g \in Granules : NewRun(g)
    \/ \E d \in Densities : NewDifficulty(d)

SizeSpec == SizeInit /\ [][SizeNext]_sizeVars

\* SizedLaunch come back.
SizeFairSpec == SizeSpec /\ WF_sizeVars(SizedLaunch)

-----------------------------------------------------------------------------
SizeTypeOK ==
    /\ granule \in Granules /\ density \in Densities
    /\ batch \in 1..U32Max
    /\ limit \in 1..NoLimit
    /\ clean \in 0..RecoverAfter - 1

\* Once the difficulty is out of the way, and stays so, the limit is too.
BudgetRecovers == density = 0 ~> (limit >= batch \/ density # 0)

=============================================================================
