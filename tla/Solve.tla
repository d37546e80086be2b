------------------------------- MODULE Solve -------------------------------
(***************************************************************************)
(* --solve (src/solve.rs): mining one block template from a file, with no  *)
(* pool.  The workers mine progress shares of the template and put them in *)
(* the bounded submit queue; the solver checks each share, writes the      *)
(* block when one is also a block, and exits.                              *)
(*                                                                         *)
(* A difficulty is a fraction over Den, in units of 1 / 2^ScaleBits, so    *)
(* that block_difficulty / 64 is exact; the code's f64 rounds it.  A share *)
(* is the number of its job and its hash.  What the solver prints, and the *)
(* transactions' bytes but for the height, are left out.                   *)
(***************************************************************************)
EXTENDS Targets

CONSTANTS
    BlockBits,     \* the compact targets a job file may hold
    Heights,       \* the heights it may hold
    FixedScaled,   \* the difficulties --difficulty may fix
    Rates,         \* scaled difficulties the measured rate may call for
    Margin,        \* how far below the block's a share's difficulty is (64)
    SubmitQueue,   \* room in the submit queue (SUBMIT_QUEUE)
    MaxSolveJobs,  \* bound: jobs published
    StillSamples   \* samples without a hash that end the wait (3)

Automatic == 0   \* no --difficulty

ASSUME SolveAssumption ==
    /\ {Margin, SubmitQueue, MaxSolveJobs, StillSamples} \subseteq Nat \ {0}
    /\ FixedScaled \subseteq Nat \ {0}
    /\ Rates \subseteq Nat

VARIABLES
    template,   \* the job file: bits, height, text too long, payouts
    fixed,      \* --difficulty, or Automatic
    phase,      \* "read", "check", "mining", "quiescing" or "exited"
    code,       \* the exit code, once exited
    difficulty, \* the current share difficulty, times Den
    jobs,       \* the share targets of the jobs published, by number
    posted,     \* is a job in the shared slot?
    queue,      \* submit queue: shares [job, hash]
    still       \* quiesce's samples without a new hash

solveVars == <<template, fixed, phase, code, difficulty, jobs, posted, queue, still>>

Templates ==
    [bits : BlockBits, height : Heights, file : {"good", "unreadable", "longText", "unpaid"}]

NoCode == 9
BlockTarget == CompactToTarget(template.bits)
Coinb1Height == PushHeight(template.height)

\* The denominator of this template's difficulties: block_difficulty is
\* diff1 / BlockTarget, and infinite for a target of 0.
Den == IF Value(BlockTarget) = 0 THEN 1 ELSE Margin * Value(BlockTarget)
CappedBlockDifficulty == 2 ^ ScaleBits * Value(CompactToTarget(Diff1))

\* Mutant: A difficulty that only follows the rate.
UncappedShareDifficulty(rate) == Max({rate, 1}) * Den

\* One share every SHARE_EVERY seconds, and at most 1 / Margin of the block's.
ShareDifficulty(rate) ==
    LET wanted == Max({rate, 1}) * Den IN
    IF Value(BlockTarget) = 0 THEN wanted ELSE Min({wanted, CappedBlockDifficulty})

Guess == Max(Rates)   \* the first guess, from the number of devices

\* Template::parse: what makes a file no template.
Parses ==
    /\ template.file = "good"
    /\ BlockTarget # NoTarget
    /\ Coinb1Height # <<>>

SolveInit ==
    /\ template \in Templates
    /\ template.file # "good" =>
          template.bits = (CHOOSE b \in BlockBits : CompactToTarget(b) # NoTarget)
    /\ fixed \in FixedScaled \cup {Automatic}
    /\ phase = "read" /\ code = NoCode /\ difficulty = 0
    /\ jobs = <<>> /\ posted = FALSE /\ queue = <<>> /\ still = 0

ExitWith(c) ==
    /\ phase' = "exited"
    /\ code' = c

\* Read and parse the job file.
ReadTemplate ==
    /\ phase = "read"
    /\ \/ Parses /\ phase' = "check" /\ UNCHANGED code
       \/ ~Parses /\ ExitWith(2)
    /\ UNCHANGED <<template, fixed, difficulty, jobs, posted, queue, still>>

Publish(d) ==
    /\ difficulty' = d
    /\ jobs' = Append(jobs, TargetForDifficulty(d \div Den))
    /\ posted' = TRUE

\* The CPU reference, without which nothing can be checked; then the first job.
CheckReference ==
    /\ phase = "check"
    /\ \/ /\ ExitWith(1)
          /\ UNCHANGED <<difficulty, jobs, posted>>
       \/ /\ phase' = "mining" /\ UNCHANGED code
          /\ Publish(IF fixed = Automatic THEN ShareDifficulty(Guess) ELSE fixed * Den)
    /\ UNCHANGED <<template, fixed, queue, still>>

\* A worker submits a share of a job it took from the slot, the current one or
\* one that was replaced while it hashed.  A queue with no room loses it.
WorkerSubmits(job, hash) ==
    /\ phase \in {"mining", "quiescing"}
    /\ job \in DOMAIN jobs
    /\ queue' = IF Len(queue) < SubmitQueue
                THEN Append(queue, [job |-> job, hash |-> hash]) ELSE queue
    /\ UNCHANGED <<template, fixed, phase, code, difficulty, jobs, posted, still>>

\* found, whose file may not be writable, and the start of quiesce: the block
\* is printed either way and the job is taken away.
Found == phase' = "quiescing" /\ posted' = FALSE

\* Mutant: Only the current job's shares are looked at.
ReceiveCurrent ==
    /\ phase = "mining" /\ queue # <<>>
    /\ queue' = Tail(queue)
    /\ IF /\ Head(queue).job = Len(jobs)
          /\ HashMeetsTarget(Head(queue).hash, jobs[Len(jobs)])
          /\ HashMeetsTarget(Head(queue).hash, BlockTarget)
       THEN Found
       ELSE UNCHANGED <<phase, posted>>
    /\ UNCHANGED <<template, fixed, code, difficulty, jobs, still>>

\* The loop's next share: rebuilt from its job and hashed again.  A share that
\* is also a block is saved, the job taken away and the workers waited for.
ReceiveShare ==
    /\ phase = "mining" /\ queue # <<>>
    /\ queue' = Tail(queue)
    /\ LET share == Head(queue) IN
       IF /\ HashMeetsTarget(share.hash, jobs[share.job])
          /\ HashMeetsTarget(share.hash, BlockTarget)
       THEN Found
       ELSE UNCHANGED <<phase, posted>>
    /\ UNCHANGED <<template, fixed, code, difficulty, jobs, still>>

\* The report every REPORT_EVERY: a difficulty off by more than half is set
\* anew, on a new job of the same search space.
Report(rate) ==
    LET wanted == ShareDifficulty(rate) IN
    /\ phase = "mining"
    /\ fixed = Automatic
    /\ rate > 0
    /\ 2 * wanted > 3 * difficulty \/ 2 * wanted < difficulty
    /\ Len(jobs) < MaxSolveJobs
    /\ Publish(wanted)
    /\ UNCHANGED <<template, fixed, phase, code, queue, still>>

\* quiesce: a sample of the hash counter, which workers that have not yet seen
\* that the job is gone may still move; at the deadline the wait ends anyway.
Sample(moved) ==
    /\ phase = "quiescing"
    /\ still' = IF moved THEN 0 ELSE still + 1
    /\ IF still' = StillSamples THEN ExitWith(0) ELSE UNCHANGED <<phase, code>>
    /\ UNCHANGED <<template, fixed, difficulty, jobs, posted, queue>>

Deadline ==
    /\ phase = "quiescing"
    /\ ExitWith(0)
    /\ UNCHANGED <<template, fixed, difficulty, jobs, posted, queue, still>>

\* Hashes at the edges of the two targets, as bytes, least significant first.
Bytewise(n) == [i \in 1..Bytes |-> (n \div Base ^ (i - 1)) % Base]
EdgeHashes(job) ==
    {Bytewise(n) : n \in {Value(BlockTarget), Value(BlockTarget) + 1, Value(jobs[job])}
                          \cap 0..(Base ^ Bytes - 1)}

SolverStep == ReadTemplate \/ CheckReference \/ ReceiveShare \/ Deadline

SolveNext ==
    \/ SolverStep
    \/ \E job \in DOMAIN jobs : \E hash \in EdgeHashes(job) : WorkerSubmits(job, hash)
    \/ \E rate \in Rates : Report(rate)
    \/ \E moved \in BOOLEAN : Sample(moved)

\* The solver's thread runs; its deadline passes.
SolveFairness == WF_solveVars(SolverStep)

SolveSpec == SolveInit /\ [][SolveNext]_solveVars /\ SolveFairness

(***************************************************************************)
(* Properties.                                                             *)
(***************************************************************************)
SolveTypeOK ==
    /\ template \in Templates
    /\ phase \in {"read", "check", "mining", "quiescing", "exited"}
    /\ code \in {NoCode, 0, 1, 2}
    /\ Len(queue) <= SubmitQueue
    /\ still \in 0..StillSamples

Solves(hash) == HashMeetsTarget(hash, BlockTarget)

\* share_difficulty keeps a share's difficulty "always well below the block's,
\* so that every block solution is also a share": with the automatic
\* difficulty every hash under the block's target is under every published
\* job's, through the compact form, the cap, the scaled floor and the long
\* division, unless the block's target is easier than the easiest there is.
SolutionsAreShares ==
    (fixed = Automatic /\ BlockTarget # NoTarget
       /\ Value(BlockTarget) <= CappedBlockDifficulty) =>
    \A j \in DOMAIN jobs : Value(BlockTarget) <= Value(jobs[j])

\* target_for_difficulty is exactly floor((diff1 << 31) / floor(difficulty *
\* 2^31)) for every difficulty whose divisor leaves the remainder its room:
\* the target the pool computes, to the last share.
TargetIsFloor ==
    \A j \in DOMAIN jobs :
        LET exact == 2 ^ ScaleBits * Value(CompactToTarget(Diff1)) IN
        /\ Value(jobs[j]) >= exact \div MaxDivisor
        /\ j = Len(jobs) /\ difficulty \div Den <= MaxDivisor =>
              Value(jobs[j]) = exact \div Max({difficulty \div Den, 1})

\* The height solve.rs pushes into the coinbase is the height consensus.rs
\* reads from it, for every template that parses and that a height's bytes
\* can hold.
HeightIsReadBack ==
    (phase # "read" /\ code # 2 /\ template.height < Base ^ MaxPush \div 2) =>
    ReadHeight(Coinb1Height) = template.height

\* A share in the queue that solves the block ends the run with exit code 0,
\* whichever job it was mined on and whatever is retargeted meanwhile.
SolutionEndsRun ==
    (\E i \in DOMAIN queue :
        /\ Solves(queue[i].hash)
        /\ HashMeetsTarget(queue[i].hash, jobs[queue[i].job]))
      ~> code = 0
=============================================================================
