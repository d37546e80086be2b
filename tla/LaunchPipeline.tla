--------------------------- MODULE LaunchPipeline ---------------------------
(***************************************************************************)
(* A GPU worker on one job (src/src/gpu_worker.rs: Worker::mine_job, pump, *)
(* top_up, device_error, finish): up to `depth' launches are queued, the   *)
(* oldest is collected, the queue is refilled before its hits are looked   *)
(* at, and a device error gives up what is in flight and goes back.        *)
(***************************************************************************)
EXTENDS SearchSpace, Sequences

CONSTANTS
    Chunks,     \* launch sizes the autotune and the hit budget may ask for
    Intensities,  \* percent: what the user may set
    QueueDepth, \* QUEUE_DEPTH
    MaxErrors   \* MAX_SCAN_ERRORS

ASSUME PipelineAssumption ==
    /\ Chunks \subseteq Nat \ {0}
    /\ Intensities \subseteq 1 .. 100 /\ QueueDepth \in Nat \ {0}
    /\ MaxErrors \in Nat \ {0}

VARIABLES
    lpc,        \* "idle", "fill" (top of pump's loop), "refill" (a launch in hand), "gone", "stopped"
    depth,      \* JobRun.depth
    inflight,   \* JobRun.inflight, oldest first
    hand,       \* the collected launch finish has still to see: <<>> or <<launch>>
    ending,     \* JobRun.ending
    switching,  \* workers whose tuning asks for another window (tune.switch_to)
    errors,     \* Worker.errors
    lost        \* what was collected and then dropped unsubmitted (history)

pipeVars == <<lpc, depth, inflight, hand, ending, switching, errors, lost>>

Launches == (0 .. En2Limit - 1) \X (0 .. Nonces - 1) \X (1 .. Nonces)

PipeTypeOK ==
    /\ lpc \in [Gpus -> {"idle", "fill", "refill", "gone", "stopped"}]
    /\ depth \in [Gpus -> 1 .. QueueDepth]
    /\ inflight \in [Gpus -> Seq(Launches)]
    /\ hand \in [Gpus -> Seq(Launches)]
    /\ ending \in [Gpus -> {"none", "changed", "exhausted"}]
    /\ switching \in SUBSET Gpus
    /\ errors \in [Gpus -> 0 .. MaxErrors - 1]
    /\ lost \in [Gpus -> SUBSET Header]

PipeInit ==
    /\ lpc = [g \in Gpus |-> "idle"]
    /\ depth = [g \in Gpus |-> 1]
    /\ inflight = [g \in Gpus |-> <<>>]
    /\ hand = [g \in Gpus |-> <<>>]
    /\ ending = [g \in Gpus |-> "none"]
    /\ switching = {}
    /\ errors = [g \in Gpus |-> 0]
    /\ lost = [g \in Gpus |-> {}]

\* What a launch <<extranonce2 counter, first nonce, count>> hashes.
Covers(l) == Span(l[1], l[2], l[3])

\* Shared::gpu_queue: below full intensity the card has to idle between
\* launches, and a queued one would not let it.
GpuQueue(intensity) == IF intensity < 100 THEN 1 ELSE QueueDepth

-----------------------------------------------------------------------------
\* The main loop switches the window, if one is wanted, and runs mine_job.
LaunchStarts(g) ==
    /\ lpc[g] = "idle"
    /\ TakeJob(g)
    /\ lost' = IF at[g] = space THEN lost ELSE [lost EXCEPT ![g] = {}]
    /\ \E i \in Intensities : depth' = [depth EXCEPT ![g] = GpuQueue(i)]
    /\ lpc' = [lpc EXCEPT ![g] = "fill"]
    /\ ending' = [ending EXCEPT ![g] = "none"]
    /\ switching' = switching \ {g}
    /\ UNCHANGED <<inflight, hand, errors>>

(***************************************************************************)
(* top_up, one turn of its loop per step: the generation may move between. *)
(***************************************************************************)
ToppedUp(g) == ending[g] # "none" \/ Len(inflight[g]) >= depth[g]
Topping(g) ==
    /\ lpc[g] = "fill" \/ (lpc[g] = "refill" /\ depth[g] > 1)
    /\ ~ToppedUp(g)
Interrupted(g) == g \notin fresh \/ g \in switching

TopUpEnds(g) ==
    /\ Topping(g)
    /\ \/ Interrupted(g) /\ ending' = [ending EXCEPT ![g] = "changed"]
       \/ ~Interrupted(g) /\ ~En2Fits(en2[g]) /\ ending' = [ending EXCEPT ![g] = "exhausted"]
    /\ UNCHANGED <<searchVars, lpc, depth, inflight, hand, switching, errors, lost>>

\* Cursor::take: the cursor moves past the launch before it is queued.
Enqueue(g) ==
    /\ Topping(g) /\ ~Interrupted(g) /\ En2Fits(en2[g])
    /\ \E max \in Chunks :
        LET count == Chunk(max, nonce[g]) IN
        /\ inflight' = [inflight EXCEPT ![g] = Append(@, <<en2[g], nonce[g], count>>)]
        /\ MoveTo(g, NextEn2(en2[g], nonce[g], count), NextNonce(nonce[g], count))
    /\ UNCHANGED <<space, fresh, at, searched, spent>>
    /\ UNCHANGED <<lpc, depth, hand, ending, switching, errors, lost>>

-----------------------------------------------------------------------------
\* Mutant: only the launch that failed is done again.
RestartHere(g, e, n) == MoveTo(g, en2[g], nonce[g])

\* The cursor goes back to the oldest launch not done.
Restart(g, e, n) == MoveTo(g, e, n)

\* Mutant: the error is reported and not counted.
UncountedError(g) == errors[g]

CountedError(g) == errors[g] + 1

\* device_error: give up what is in flight, go back, and after MaxErrors in a
\* row give up the device.  What pump has in hand goes with its stack frame.
DeviceError(g, e, n) ==
    /\ inflight' = [inflight EXCEPT ![g] = <<>>]
    /\ Restart(g, e, n)
    /\ IF CountedError(g) >= MaxErrors
       THEN /\ errors' = [errors EXCEPT ![g] = 0]
            /\ lpc' = [lpc EXCEPT ![g] = "gone"]
            /\ hand' = [hand EXCEPT ![g] = <<>>]
            /\ lost' = IF hand[g] = <<>> THEN lost
                       ELSE [lost EXCEPT ![g] = @ \cup Covers(hand[g][1])]
       ELSE /\ errors' = [errors EXCEPT ![g] = CountedError(g)]
            /\ UNCHANGED <<lpc, hand, lost>>
    /\ UNCHANGED <<space, fresh, at, searched, spent, depth, ending, switching>>

\* Back to the oldest launch not done, or to the one that was not queued.
EnqueueFails(g) ==
    /\ Topping(g) /\ ~Interrupted(g) /\ En2Fits(en2[g])
    /\ IF inflight[g] = <<>>
       THEN DeviceError(g, en2[g], nonce[g])
       ELSE DeviceError(g, inflight[g][1][1], inflight[g][1][2])

-----------------------------------------------------------------------------
CollectFails(g) ==
    /\ lpc[g] = "fill" /\ ToppedUp(g) /\ inflight[g] # <<>>
    /\ DeviceError(g, inflight[g][1][1], inflight[g][1][2])

Collect(g) ==
    /\ lpc[g] = "fill" /\ ToppedUp(g) /\ inflight[g] # <<>>
    /\ hand' = [hand EXCEPT ![g] = <<inflight[g][1]>>]
    /\ inflight' = [inflight EXCEPT ![g] = Tail(@)]
    /\ errors' = [errors EXCEPT ![g] = 0]
    /\ lpc' = [lpc EXCEPT ![g] = "refill"]
    /\ UNCHANGED <<searchVars, depth, ending, switching, lost>>

\* finish: every hit submitted; the tuning may ask for another window.
Finish(g) ==
    /\ lpc[g] = "refill"
    /\ depth[g] > 1 => ToppedUp(g)
    /\ searched' = [searched EXCEPT ![g] = @ \cup Covers(hand[g][1])]
    /\ hand' = [hand EXCEPT ![g] = <<>>]
    /\ \E s \in {{}, {g}} : switching' = switching \cup s
    /\ lpc' = [lpc EXCEPT ![g] = "fill"]
    /\ UNCHANGED <<space, fresh, at, en2, nonce, spent>>
    /\ UNCHANGED <<depth, inflight, ending, errors, lost>>

\* Nothing queued and nothing to queue: mine_job returns.
LaunchEnds(g) ==
    /\ lpc[g] = "fill" /\ ToppedUp(g) /\ inflight[g] = <<>>
    /\ lpc' = [lpc EXCEPT ![g] = "idle"]
    /\ spent' = IF ending[g] = "exhausted" THEN spent \cup {g} ELSE spent
    /\ UNCHANGED <<space, fresh, at, en2, nonce, searched>>
    /\ UNCHANGED <<depth, inflight, hand, ending, switching, errors, lost>>

\* The device is opened again (Worker::reopened keeps the cursor), or not.
Reopened(g) ==
    /\ lpc[g] = "gone"
    /\ \E to \in {"idle", "stopped"} : lpc' = [lpc EXCEPT ![g] = to]
    /\ errors' = [errors EXCEPT ![g] = 0]
    /\ UNCHANGED <<searchVars, depth, inflight, hand, ending, switching, lost>>

LaunchStep(g) ==
    \/ LaunchStarts(g) \/ TopUpEnds(g) \/ Enqueue(g) \/ EnqueueFails(g)
    \/ CollectFails(g) \/ Collect(g) \/ Finish(g) \/ LaunchEnds(g) \/ Reopened(g)

=============================================================================
