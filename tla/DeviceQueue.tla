---------------------------- MODULE DeviceQueue ----------------------------
(***************************************************************************)
(* A GPU backend and the device behind it (src/src/backend/opencl.rs,      *)
(* cuda.rs, bc3.rs).  A launch is a handful of commands put on the         *)
(* device's in-order queue - copy the header, copy the target, zero the    *)
(* hits, run the kernel, read the hits back - which the device executes    *)
(* while the host goes on.  Launches take slots in turn; a slot remembers  *)
(* what its device buffers hold, so that unchanged inputs are not copied.  *)
(* OpenCL copies from the slot's host memory when the device gets there;   *)
(* CUDA takes its copy of the source before the call returns.              *)
(*                                                                         *)
(* The caller is the GPU worker, or the self-test a kernel goes through    *)
(* before the worker gets it: after an error both abandon what is in       *)
(* flight.                                                                 *)
(***************************************************************************)
EXTENDS Naturals, Sequences

CONSTANTS
    Depth,          \* QUEUE_DEPTH
    Headers, Targets, Starts,   \* what launches are made of
    Windows,        \* BC3Hash table windows
    None, Junk      \* not a header nor a target: nothing, and nobody knows what

ASSUME QueueAssumption ==
    /\ Depth \in Nat \ {0}
    /\ {None, Junk} \cap (Headers \cup Targets \cup Windows) = {}

VARIABLES
    api,            \* "opencl" or "cuda"
    bc3,            \* the window of the loaded kernel and its tables, or None
    cache,          \* of each slot: header_of and target_of,
    host,           \* the host memory its copies are made from,
    buf,            \* its device buffers, and
    back,           \* the hits read back
    queued,         \* slots of the launches in flight, oldest first
    nextSlot,
    call,           \* where the caller is: "ready", "queueing", "error", "closed", or
                    \* in prepare_bc3hash: "load", "tables", "batch"
    launch, todo,   \* the launch being queued, and its commands to come
    testing,        \* launches the self-test has still to queue, or None
    want,           \* the window prepare_bc3hash was asked for
    pending,        \* commands the device has not executed
    faulted,        \* slots of launches the device broke off
    lost,           \* whether the device is gone
    inflight        \* history: the launches of `queued', as the caller knows them

hostVars == <<bc3, cache, host, queued, nextSlot>>
callVars == <<call, launch, todo, testing, want>>
deviceVars == <<buf, back, pending, faulted, lost>>
vars == <<api, hostVars, callVars, deviceVars, inflight>>

Slots == 0 .. Depth - 1
Launches == [header : Headers, target : Targets, start : Starts]
Inputs == {"header", "target"}

Unknown == [header |-> None, target |-> None]
Anything == [header |-> Junk, target |-> Junk, hits |-> {Junk}]

\* A new backend; the device's buffers are zeroed or hold anything.
Init ==
    /\ api \in {"opencl", "cuda"}
    /\ bc3 = None /\ queued = <<>> /\ nextSlot = 0
    /\ cache = [i \in Slots |-> Unknown] /\ host = [i \in Slots |-> Unknown]
    /\ buf = [i \in Slots |-> Anything]
    /\ back = [i \in Slots |-> {}]
    /\ call = "ready" /\ launch = None /\ todo = <<>> /\ testing = None /\ want = None
    /\ pending = <<>> /\ faulted = {} /\ lost = FALSE
    /\ inflight = <<>>

-----------------------------------------------------------------------------
(* The device (external). *)

\* Mutant: all slots copy from the same host memory.
OnePlace(i) == 0

\* ClSlot.host: a slot has its own.
Place(i) == i

\* What a copy brings to the device.
Copied(c) == IF api = "opencl" THEN host[Place(c.slot)][c.op] ELSE c.value

\* The next command is executed.
Execute ==
    LET c == Head(pending)
    IN  /\ pending # <<>>
        /\ pending' = Tail(pending)
        /\ buf' = CASE c.op \in Inputs -> [buf EXCEPT ![c.slot][c.op] = Copied(c)]
                    [] c.op = "zero" -> [buf EXCEPT ![c.slot].hits = {}]
                    [] c.op = "kernel" ->
                        [buf EXCEPT ![c.slot].hits = @ \cup {[header |-> buf[c.slot].header, target |-> buf[c.slot].target,
                                                             start |-> c.value, window |-> c.window]}]
                    [] OTHER -> buf
        /\ back' = IF c.op = "read" THEN [back EXCEPT ![c.slot] = buf[c.slot].hits] ELSE back
        /\ UNCHANGED <<api, hostVars, callVars, faulted, lost, inflight>>

\* A launch breaks off, and nobody knows what its buffers hold then; waiting
\* for it reports an error.  The queue is in order: its commands are the first.
Fault ==
    LET i == Head(pending).slot
    IN  /\ pending # <<>> /\ i \in Slots /\ api = "opencl"
        /\ \E n \in 1 .. Len(pending) :
              /\ \A k \in 1 .. n : pending[k].slot = i
              /\ \A k \in n + 1 .. Len(pending) : pending[k].slot # i
              /\ pending' = SubSeq(pending, n + 1, Len(pending))
        /\ faulted' = faulted \cup {i}
        /\ buf' = [buf EXCEPT ![i] = Anything]
        /\ UNCHANGED <<api, hostVars, callVars, back, lost, inflight>>

\* The driver resets the device: nothing runs on it any more, and every call
\* but waiting for it to be idle fails.
DeviceLost ==
    /\ ~lost /\ call # "closed"
    /\ lost' = TRUE
    /\ pending' = <<>>
    /\ UNCHANGED <<api, hostVars, callVars, buf, back, faulted, inflight>>

\* clFinish and cuStreamSynchronize return.
Finished == pending = <<>>

-----------------------------------------------------------------------------
(* enqueue, one command at a time. *)

\* The input is in the slot's buffer already.
Unchanged(i, l, f) == cache[i][f] = l[f]

Commands(i, l) ==
    (IF Unchanged(i, l, "header") THEN <<>> ELSE <<"header">>)
    \o (IF Unchanged(i, l, "target") THEN <<>> ELSE <<"target">>)
    \o <<"zero", "kernel", "read", "submit">>

\* Whoever calls it: the worker while it has a kernel, the self-test until it
\* has queued all of its launches, collecting as soon as the queue is full.
MayEnqueue == call = "ready" /\ bc3 # None /\ (testing # None => testing > 0 /\ Len(queued) < Depth)

EnqueueRefused ==
    /\ MayEnqueue /\ Len(queued) >= Depth
    /\ call' = "error"
    /\ UNCHANGED <<api, hostVars, launch, todo, testing, want, deviceVars, inflight>>

EnqueueStarts(l) ==
    /\ MayEnqueue /\ Len(queued) < Depth
    /\ call' = "queueing" /\ launch' = l /\ todo' = Commands(nextSlot, l)
    /\ testing' = IF testing = None THEN None ELSE testing - 1
    /\ UNCHANGED <<api, hostVars, want, deviceVars, inflight>>

Command(op) ==
    CASE op \in Inputs -> [slot |-> nextSlot, op |-> op, value |-> launch[op]]
      [] op = "kernel" -> [slot |-> nextSlot, op |-> op, value |-> launch.start, window |-> bc3]
      [] OTHER -> [slot |-> nextSlot, op |-> op]

\* The copy's source, on OpenCL, before it is queued.
Staged(op) ==
    IF op \in Inputs /\ api = "opencl" THEN [host EXCEPT ![Place(nextSlot)][op] = launch[op]] ELSE host

QueueCommand ==
    LET op == Head(todo)
    IN  /\ call = "queueing" /\ op # "submit" /\ ~lost
        /\ pending' = Append(pending, Command(op))
        /\ host' = Staged(op)
        /\ cache' = IF op \in Inputs THEN [cache EXCEPT ![nextSlot][op] = launch[op]] ELSE cache
        /\ todo' = Tail(todo)
        /\ UNCHANGED <<api, bc3, queued, nextSlot, call, launch, testing, want, buf, back, faulted, lost, inflight>>

NextSlot == (nextSlot + 1) % Depth

\* clFlush, or the event that says the readback is done.
Submit ==
    /\ call = "queueing" /\ Head(todo) = "submit" /\ ~lost
    /\ queued' = Append(queued, nextSlot)
    /\ inflight' = Append(inflight, [header |-> launch.header, target |-> launch.target,
                                     start |-> launch.start, window |-> bc3])
    /\ nextSlot' = NextSlot
    /\ call' = "ready" /\ launch' = None /\ todo' = <<>>
    /\ UNCHANGED <<api, bc3, cache, host, testing, want, deviceVars>>

\* Whatever made it into the queue may still run.  CUDA returns from a failed
\* readback without forgetting the slot's inputs.
QueueFails ==
    LET op == Head(todo)
    IN  /\ call = "queueing"
        /\ host' = Staged(op)
        /\ cache' = IF api = "cuda" /\ op \in {"read", "submit"} THEN cache ELSE [cache EXCEPT ![nextSlot] = Unknown]
        /\ call' = "error" /\ launch' = None /\ todo' = <<>>
        /\ UNCHANGED <<api, bc3, queued, nextSlot, testing, want, deviceVars, inflight>>

-----------------------------------------------------------------------------
(* collect and abandon. *)

\* The slot's launch has been executed to its end.
Done(i) == \A k \in DOMAIN pending : pending[k].slot # i

\* The oldest launch in flight comes back.
ComesBack == queued # <<>> /\ Done(Head(queued)) /\ Head(queued) \notin faulted /\ ~lost

MayCollect ==
    /\ call = "ready" /\ queued # <<>>
    /\ testing # None => testing = 0 \/ Len(queued) = Depth

Collect ==
    /\ MayCollect /\ ComesBack
    /\ queued' = Tail(queued) /\ inflight' = Tail(inflight)
    /\ UNCHANGED <<api, bc3, cache, host, nextSlot, callVars, deviceVars>>

CollectFails ==
    /\ MayCollect
    /\ queued' = Tail(queued) /\ inflight' = Tail(inflight)
    /\ call' = "error"
    /\ UNCHANGED <<api, bc3, cache, host, nextSlot, launch, todo, testing, want, deviceVars>>

\* Mutant: what the buffers hold is thought to be known still.
Remembered == cache

Forgotten == [i \in Slots |-> Unknown]

\* What a launch that was given up has left behind.
LeftBehind == [i \in Slots |-> Anything]

\* abandon, after an error; if it was the self-test's, prepare_bc3hash then
\* drops the kernel.
Abandon ==
    /\ call = "error" /\ Finished
    /\ queued' = <<>> /\ inflight' = <<>>
    /\ cache' = Forgotten /\ buf' = LeftBehind
    /\ faulted' = {}
    /\ bc3' = IF testing = None THEN bc3 ELSE None
    /\ testing' = None
    /\ call' = "ready"
    /\ UNCHANGED <<api, host, nextSlot, launch, todo, want, back, pending, lost>>

-----------------------------------------------------------------------------
(* prepare_bc3hash and the backend's end. *)

\* Mutant: the old tables go at once.
DropNow == TRUE

DropWhen == Finished

\* abandon, and the old tables leave the device.
PrepareStarts(w) ==
    /\ call = "ready" /\ testing = None /\ DropWhen
    /\ queued' = <<>> /\ inflight' = <<>>
    /\ cache' = Forgotten /\ buf' = LeftBehind
    /\ faulted' = {}
    /\ bc3' = None
    /\ call' = "load" /\ want' = w
    /\ UNCHANGED <<api, host, nextSlot, launch, todo, testing, back, pending, lost>>

LoadStep(ok, next, window) ==
    /\ ok => ~lost
    /\ bc3' = IF ok THEN window ELSE None
    /\ call' = IF ok THEN next ELSE "ready"
    /\ UNCHANGED <<api, cache, host, queued, nextSlot, launch, todo, testing, want, deviceVars, inflight>>

\* build_bc3: the program is compiled, and the host's tables are written to the
\* device.
BuildBc3(ok) == call = "load" /\ api = "opencl" /\ LoadStep(ok, "batch", want)

\* load_bc3: machine code, or PTX the driver compiles; then build_tables on the
\* card itself, and check_tables.
LoadModule(ok) == call = "load" /\ api = "cuda" /\ LoadStep(ok, "tables", None)
BuildTables(ok) == call = "tables" /\ LoadStep(ok, "batch", want)

Tests == Depth + 1

\* bc3_batch; a failed readback leaves its kernel running.
Batch(ok, runs) ==
    /\ call = "batch" /\ (ok => ~lost /\ Finished) /\ (runs => ~ok /\ ~lost)
    /\ bc3' = IF ok THEN bc3 ELSE None
    /\ testing' = IF ok THEN Tests ELSE None
    /\ pending' = IF runs THEN Append(pending, [slot |-> Depth, op |-> "batch"]) ELSE pending
    /\ call' = "ready"
    /\ UNCHANGED <<api, cache, host, queued, nextSlot, launch, todo, want, buf, back, faulted, lost, inflight>>

\* Every launch's hits compared with the CPU's.
SelfTestEnds(ok) ==
    /\ call = "ready" /\ testing = 0 /\ queued = <<>>
    /\ bc3' = IF ok THEN bc3 ELSE None
    /\ testing' = None
    /\ UNCHANGED <<api, cache, host, queued, nextSlot, call, launch, todo, want, deviceVars, inflight>>

\* Drop: the queue is finished before anything is freed.  A device opened again
\* is another backend, which starts from Init.
Close ==
    /\ call = "ready" /\ testing = None /\ Finished
    /\ call' = "closed" /\ bc3' = None
    /\ UNCHANGED <<api, cache, host, queued, nextSlot, launch, todo, testing, want, deviceVars, inflight>>

Next ==
    \/ Execute \/ Fault \/ DeviceLost
    \/ EnqueueRefused \/ QueueCommand \/ Submit \/ QueueFails
    \/ Collect \/ CollectFails \/ Abandon \/ Close
    \/ \E l \in Launches : EnqueueStarts(l)
    \/ \E w \in Windows : PrepareStarts(w)
    \/ \E ok, runs \in BOOLEAN : Batch(ok, runs)
    \/ \E ok \in BOOLEAN : BuildBc3(ok) \/ LoadModule(ok) \/ BuildTables(ok) \/ SelfTestEnds(ok)

Spec == Init /\ [][Next]_vars

-----------------------------------------------------------------------------
Maybe(S) == S \cup {None}

TypeOK ==
    /\ api \in {"opencl", "cuda"} /\ bc3 \in Maybe(Windows) /\ want \in Maybe(Windows)
    /\ cache \in [Slots -> [header : Maybe(Headers), target : Maybe(Targets)]]
    /\ host \in [Slots -> [header : Maybe(Headers), target : Maybe(Targets)]]
    /\ queued \in Seq(Slots) /\ nextSlot \in Slots /\ Len(queued) <= Depth
    /\ call \in {"ready", "queueing", "error", "load", "tables", "batch", "closed"}
    /\ launch \in Maybe(Launches) /\ (call = "queueing" => launch # None /\ todo # <<>>)
    /\ testing \in Maybe(0 .. Depth + 1)
    /\ faulted \subseteq Slots /\ lost \in BOOLEAN

\* The hits collect is to return are those of the oldest launch in flight and of it
\* alone - its header, target, nonces and kernel - whatever failed, was
\* abandoned, cached or left running before it.
ScanIsOfItsLaunch == ComesBack => back[Head(queued)] = {Head(inflight)}

\* write_async: "`data' must stay valid and unchanged until the queue has
\* executed it" - no copy's source is overwritten while the copy is pending.
SourceUnchanged ==
    \A k \in DOMAIN pending :
        pending[k].op \in Inputs => Copied(pending[k]) = pending[k].value

\* prepare_bc3hash: "Nothing of the old kernel may still be running when its
\* tables go"; Drop: nothing of a launch is pending when its slot is freed.
\* (Of the self-test's own batch something may be: its failure is not waited
\* for.)
NothingUsedAfterFree ==
    \A k \in DOMAIN pending :
        pending[k].op # "batch" =>
            /\ call # "closed"
            /\ pending[k].op = "kernel" => pending[k].window = bc3

=============================================================================
