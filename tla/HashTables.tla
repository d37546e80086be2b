----------------------------- MODULE HashTables -----------------------------
(***************************************************************************)
(* The CPU's BC3Hash (src/bc3hash/src/lib.rs): its tables are built and    *)
(* checked once, by whichever thread asks first (READY), and every hash    *)
(* holds the HASHING lock for reading.  The tables are function statics of *)
(* the node's C++, which the C runtime destroys when the process exits;    *)
(* the exit handler stop_hashing takes the lock for writing, for good,     *)
(* before that.                                                            *)
(*                                                                         *)
(* exit() may come at any moment, from a thread that does not hash: the    *)
(* solver's and the benchmark's end, the watchdog, the stratum client's    *)
(* fatal errors.  Handlers run in the reverse order of registration, while *)
(* the other threads keep running.                                         *)
(***************************************************************************)
EXTENDS Naturals, Sequences, FiniteSets, SequencesExt

CONSTANTS HashThreads   \* threads that hash: the table thread, workers, GPU checks

ASSUME HashThreadsAssumption == HashThreads # {} /\ IsFiniteSet(HashThreads)

\* The statics: "tables" is built by bc3hash_initialize, "fold" (the fold's
\* powers and the generator's table) by the first hash.
Statics == {"tables", "fold"}

VARIABLES
    build,      \* what this build and machine come to: "good", "wrong", "noMemory"
    ready,      \* READY: "unset", "building", "ok" or "err"
    doing,      \* each thread: "out", "tables", "test", "testing", "tested",
                \* "registered", "hash"
    writer,     \* HASHING's writer: "none", "waiting" or "held"
    built,      \* the statics that have been built: each is built once
    statics,    \* those of them that are alive
    handlers,   \* exit handlers, oldest first
    exiting,    \* exit() is under way
    orderly,    \* history: stop_hashing was registered when exit() was called
    ended       \* the process is gone

hashVars == <<build, ready, doing, writer, built, statics, handlers, exiting, orderly, ended>>

HashInit ==
    /\ build \in {"good", "wrong", "noMemory"}
    /\ ready = "unset"
    /\ doing = [t \in HashThreads |-> "out"]
    /\ writer = "none"
    /\ built = {} /\ statics = {} /\ handlers = <<>>
    /\ exiting = FALSE /\ orderly = FALSE /\ ended = FALSE

Go(t, from, to) ==
    /\ ~ended
    /\ doing[t] = from
    /\ doing' = [doing EXCEPT ![t] = to]

\* A static is built: alive, and its destructor registered.
Construct(s) ==
    IF s \in built THEN UNCHANGED <<built, statics, handlers>>
    ELSE /\ built' = built \cup {s}
         /\ statics' = statics \cup {s}
         /\ handlers' = Append(handlers, s)

Readers == {t \in HashThreads : doing[t] \in {"testing", "hash"}}

\* Mutant: a reader may enter past a waiting writer.
MayReadPastWriter == writer # "held"

\* HASHING.read(): not while a writer holds the lock or waits for it (the
\* standard library's lock lets no reader past a waiting writer).
MayRead == writer = "none"

\* initialize() or bc3hash() when nobody has asked before: this thread runs
\* build_and_check, the others wait on READY.
StartBuild(t) ==
    /\ Go(t, "out", "tables")
    /\ ready = "unset"
    /\ ready' = "building"
    /\ UNCHANGED <<build, writer, built, statics, handlers, exiting, orderly, ended>>

\* bc3hash_initialize: the tables, or an error that stays.
BuildTables(t) ==
    /\ IF build = "noMemory"
       THEN /\ Go(t, "tables", "out")
            /\ ready' = "err" /\ UNCHANGED <<built, statics, handlers>>
       ELSE /\ Go(t, "tables", "test")
            /\ Construct("tables") /\ UNCHANGED ready
    /\ UNCHANGED <<build, writer, exiting, orderly, ended>>

\* The self-test's hashes, as one: raw_hash, with the lock, before READY is set.
BeginTest(t) ==
    /\ Go(t, "test", "testing")
    /\ MayRead
    /\ Construct("fold")
    /\ UNCHANGED <<build, ready, writer, exiting, orderly, ended>>

EndTest(t) ==
    /\ IF build = "wrong"
       THEN Go(t, "testing", "out") /\ ready' = "err"
       ELSE Go(t, "testing", "tested") /\ UNCHANGED ready
    /\ UNCHANGED <<build, writer, built, statics, handlers, exiting, orderly, ended>>

\* stop_hashing_at_exit.
Register(t) ==
    /\ Go(t, "tested", "registered")
    /\ handlers' = Append(handlers, "stop")
    /\ UNCHANGED <<build, ready, writer, built, statics, exiting, orderly, ended>>

\* READY is set: whoever waited goes on.
SetReady(t) ==
    /\ Go(t, "registered", "out")
    /\ ready' = "ok"
    /\ UNCHANGED <<build, writer, built, statics, handlers, exiting, orderly, ended>>

\* A hash: only when READY says the build is right (a thread that finds an
\* error leaves BC3Hash alone, worker::cpu_supports).
BeginHash(t) ==
    /\ Go(t, "out", "hash")
    /\ ready = "ok"
    /\ MayRead
    /\ Construct("fold")
    /\ UNCHANGED <<build, ready, writer, exiting, orderly, ended>>

EndHash(t) ==
    /\ Go(t, "hash", "out")
    /\ UNCHANGED <<build, ready, writer, built, statics, handlers, exiting, orderly, ended>>

CallExit ==
    /\ ~exiting
    /\ exiting' = TRUE
    /\ orderly' = ("stop" \in ToSet(handlers))
    /\ UNCHANGED <<build, ready, doing, writer, built, statics, handlers, ended>>

\* Mutant: stop_hashing tries the lock and does not wait for it.
StopWithoutWaiting ==
    /\ writer' = "held"
    /\ handlers' = Front(handlers)

\* stop_hashing asks for the lock, and has it when the last hash is over.
StopHashing ==
    \/ /\ writer = "none"
       /\ writer' = "waiting"
       /\ UNCHANGED handlers
    \/ /\ writer = "waiting" /\ Readers = {}
       /\ writer' = "held"
       /\ handlers' = Front(handlers)

\* The newest handler: stop_hashing, or the destructor of a static; after the
\* last one the process is gone, and its threads with it.
RunHandlers ==
    /\ exiting /\ ~ended
    /\ \/ /\ handlers = <<>>
          /\ ended' = TRUE
          /\ UNCHANGED <<handlers, writer, statics>>
       \/ /\ handlers # <<>> /\ Last(handlers) = "stop"
          /\ StopHashing
          /\ UNCHANGED <<statics, ended>>
       \/ /\ handlers # <<>> /\ Last(handlers) \in Statics
          /\ statics' = statics \ {Last(handlers)}
          /\ handlers' = Front(handlers)
          /\ UNCHANGED <<writer, ended>>
    /\ UNCHANGED <<build, ready, doing, built, exiting, orderly>>

ThreadStep(t) ==
    \/ StartBuild(t) \/ BuildTables(t) \/ BeginTest(t) \/ EndTest(t)
    \/ Register(t) \/ SetReady(t) \/ BeginHash(t) \/ EndHash(t)

HashNext == CallExit \/ RunHandlers \/ \E t \in HashThreads : ThreadStep(t)

\* The exiting thread runs, and a hash takes about a millisecond.
HashFairness ==
    /\ WF_hashVars(RunHandlers)
    /\ \A t \in HashThreads : WF_hashVars(EndHash(t) \/ EndTest(t))

HashSpec == HashInit /\ [][HashNext]_hashVars /\ HashFairness

(***************************************************************************)
(* Properties.                                                             *)
(***************************************************************************)
HashTypeOK ==
    /\ ready \in {"unset", "building", "ok", "err"}
    /\ writer \in {"none", "waiting", "held"}
    /\ statics \subseteq Statics
    /\ \A t \in HashThreads :
          doing[t] \in {"out", "tables", "test", "testing", "tested", "registered", "hash"}

\* No thread is inside a hash when one of the statics it reads is destroyed:
\* HASHING "lets the hashes in flight finish and starts no new one", ahead of
\* every destructor, whenever exit is called once stop_hashing is registered.
\* (An exit before that, while the tables are built, has no such protection.)
\* And no hash is made for a caller by a build that failed the vectors.
NoHashOnFreedTables ==
    \A t \in HashThreads :
        /\ (doing[t] \in {"hash", "testing"} /\ orderly) => statics = Statics
        /\ doing[t] = "hash" => build = "good"

\* exit() ends the process: the wait for the lock is over once the hashes
\* that were under way are, whatever the other threads go on asking for.
ExitEnds == exiting ~> ended
=============================================================================
