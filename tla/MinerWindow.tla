----------------------------- MODULE MinerWindow -----------------------------
(***************************************************************************)
(* The desktop window and the miner process it starts and stops           *)
(* (src/gui/src-tauri/src/main.rs: start_mining, stop_mining, is_mining    *)
(* and the task that reads the child's events; src/gui/dist/main.js:       *)
(* toggle, setRunning).                                                    *)
(*                                                                         *)
(* Commands are plain functions, which Tauri runs on the main thread one   *)
(* at a time; a child's events are read on another thread, so MinerState   *)
(* is locked for each access and not between them.  A command's answer and *)
(* an event travel to the page by different ways and may overtake each     *)
(* other.                                                                  *)
(***************************************************************************)
EXTENDS Naturals, Sequences, FiniteSets

CONSTANTS
    MaxMiners,      \* bound: miners started
    MaxInvokes      \* bound: commands on their way to the main thread

ASSUME WindowAssumption == MaxMiners \in Nat \ {0} /\ MaxInvokes \in Nat \ {0}

VARIABLES
    mining,     \* the page: mining
    invoked,    \* commands on their way to the main thread
    starting,   \* the main thread in start_mining: "spawn", "set" or not: "no"
    held,       \* MinerState: None = 0, or which miner
    miner,      \* "none", "runs", "told" to stop, "over"
    task,       \* the task reading its events: "none", "reads", "emitted", "over"
    answers,    \* answers on their way to the page that make it say "running"
    stopped,    \* "miner-stopped" events on their way to the page
    raced       \* history: a task let go of another miner than its own

windowVars == <<mining, invoked, starting, held, miner, task, answers, stopped, raced>>

Miners == 1..MaxMiners
None == 0

Launched == {n \in Miners : miner[n] # "none"}
Running == {n \in Miners : miner[n] \in {"runs", "told"}}

WindowInit ==
    /\ mining = FALSE
    /\ invoked = <<"is_mining">>    \* asked when the page loads
    /\ starting = "no" /\ held = None
    /\ miner = [n \in Miners |-> "none"] /\ task = [n \in Miners |-> "none"]
    /\ answers = 0 /\ stopped = 0
    /\ raced = FALSE

-----------------------------------------------------------------------------
\* The user presses the one button: what it does depends on what the page believes.
Toggle ==
    /\ Len(invoked) < MaxInvokes
    /\ invoked' = Append(invoked, IF mining THEN "stop" ELSE "start")
    /\ UNCHANGED <<mining, starting, held, miner, task, answers, stopped, raced>>

\* The main thread takes up a command.
Takes(command) ==
    /\ starting = "no" /\ invoked # <<>> /\ Head(invoked) = command
    /\ invoked' = Tail(invoked)

\* Mutant: nothing is asked before another miner is started.
StartsAnother == TRUE

\* "Already mining"
MayStart == held = None

StartChecks ==
    /\ Takes("start")
    /\ starting' = IF MayStart THEN "spawn" ELSE "no"
    /\ UNCHANGED <<mining, held, miner, task, answers, stopped, raced>>

\* validate_address refuses; which addresses it takes is left out.
StartRefused ==
    /\ Takes("start")
    /\ UNCHANGED <<mining, starting, held, miner, task, answers, stopped, raced>>

StartFails ==
    /\ starting = "spawn"
    /\ starting' = "no"
    /\ UNCHANGED <<mining, invoked, held, miner, task, answers, stopped, raced>>

StartSpawns(n) ==
    /\ starting = "spawn"
    /\ n \notin Launched /\ \A k \in 1..(n - 1) : k \in Launched
    /\ miner' = [miner EXCEPT ![n] = "runs"]
    /\ starting' = "set"
    /\ UNCHANGED <<mining, invoked, held, task, answers, stopped, raced>>

\* Mutant: the task reads the child's events before the handle is put away.
TaskFirst(n) ==
    \/ task[n] = "none" /\ task' = [task EXCEPT ![n] = "reads"]
       /\ UNCHANGED <<mining, invoked, starting, held, miner, answers, stopped, raced>>
    \/ task[n] # "none" /\ held' = n /\ starting' = "no" /\ answers' = answers + 1
       /\ UNCHANGED <<mining, invoked, miner, task, stopped, raced>>

\* The handle is put away, then the task that reads the child's events starts.
PutAway(n) ==
    /\ held' = n
    /\ task' = [task EXCEPT ![n] = "reads"]
    /\ starting' = "no"
    /\ answers' = answers + 1
    /\ UNCHANGED <<mining, invoked, miner, stopped, raced>>

StartSets(n) ==
    /\ starting = "set" /\ n \in Launched /\ \A k \in Launched : k <= n
    /\ PutAway(n)

\* stop_mining: the handle is taken and used up, whatever comes of the kill.
Stops ==
    /\ Takes("stop")
    /\ miner' = IF held # None /\ miner[held] = "runs" THEN [miner EXCEPT ![held] = "told"] ELSE miner
    /\ held' = None
    /\ UNCHANGED <<mining, starting, task, answers, stopped, raced>>

\* is_mining; the page does nothing about a no.
IsMining ==
    /\ Takes("is_mining")
    /\ answers' = answers + (IF held # None THEN 1 ELSE 0)
    /\ UNCHANGED <<mining, starting, held, miner, task, stopped, raced>>

-----------------------------------------------------------------------------
\* The process ends, on its own or killed.
Exits(n) ==
    /\ n \in Running
    /\ miner' = [miner EXCEPT ![n] = "over"]
    /\ UNCHANGED <<mining, invoked, starting, held, task, answers, stopped, raced>>

\* CommandEvent::Terminated: the page is told first ...
TaskTells(n) ==
    /\ task[n] = "reads" /\ miner[n] = "over"
    /\ task' = [task EXCEPT ![n] = "emitted"]
    /\ stopped' = stopped + 1
    /\ UNCHANGED <<mining, invoked, starting, held, miner, answers, raced>>

\* ... and then MinerState is cleared, whatever it holds.
TaskClears(n) ==
    /\ task[n] = "emitted"
    /\ held' = None
    /\ raced' = (raced \/ held \notin {None, n})
    /\ task' = [task EXCEPT ![n] = "over"]
    /\ UNCHANGED <<mining, invoked, starting, miner, answers, stopped>>

\* The page: setRunning(true) when start_mining succeeded, setRunning(false) at the event.
PageHearsStarted ==
    /\ answers > 0
    /\ answers' = answers - 1 /\ mining' = TRUE
    /\ UNCHANGED <<invoked, starting, held, miner, task, stopped, raced>>

PageHearsStopped ==
    /\ stopped > 0
    /\ stopped' = stopped - 1 /\ mining' = FALSE
    /\ UNCHANGED <<invoked, starting, held, miner, task, answers, raced>>

MainThread == StartChecks \/ StartRefused \/ StartFails \/ Stops \/ IsMining \/ \E n \in Miners : StartSets(n)
TaskStep == \E n \in Miners : TaskTells(n) \/ TaskClears(n)
KilledExits == \E n \in Miners : miner[n] = "told" /\ Exits(n)

WindowNext ==
    \/ Toggle \/ MainThread \/ TaskStep
    \/ \E n \in Miners : StartSpawns(n) \/ Exits(n)
    \/ PageHearsStarted \/ PageHearsStopped

\* The main thread and the tasks run on; nobody has to press the button, and a
\* miner need not end unless it was killed.
WindowFairness ==
    WF_windowVars(MainThread) /\ WF_windowVars(TaskStep) /\ WF_windowVars(KilledExits)

WindowSpec == WindowInit /\ [][WindowNext]_windowVars /\ WindowFairness

-----------------------------------------------------------------------------
WindowTypeOK ==
    /\ mining \in BOOLEAN /\ raced \in BOOLEAN
    /\ invoked \in Seq({"start", "stop", "is_mining"})
    /\ starting \in {"no", "spawn", "set"}
    /\ held \in Miners \cup {None}
    /\ miner \in [Miners -> {"none", "runs", "told", "over"}]
    /\ task \in [Miners -> {"none", "reads", "emitted", "over"}]
    /\ answers \in Nat /\ stopped \in Nat

\* However fast the button is pressed and however miners end, no second one is
\* started beside one that was not told to stop - short of a task that lets go of
\* another miner than its own (see NoneWhenStopped).
OneMiner == ~raced => Cardinality({n \in Miners : miner[n] = "runs"}) <= 1

\* A miner that is over is let go of: "Already mining" is never the answer for good.
HandleIsLetGo == []<>(held = None \/ miner[held] # "over")

\* "The running miner process (None when stopped)": with MinerState None and no
\* start under way, no miner runs that was not told to stop.
NoneWhenStopped == held = None /\ starting = "no" => \A n \in Miners : miner[n] # "runs"

=============================================================================
