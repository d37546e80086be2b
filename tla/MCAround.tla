------------------------------ MODULE MCAround ------------------------------
(***************************************************************************)
(* What surrounds the mining, for TLC, in parts that share no variable:    *)
(* the window's miner process (MinerWindow) and its settings (Settings),   *)
(* the solver (Solve), the benchmark (Bench), and the hash's tables when   *)
(* the process exits (HashTables).  Which part steps is fixed at the start.*)
(***************************************************************************)
EXTENDS MinerWindow, Settings, Solve, Bench, HashTables

VARIABLE part

aroundVars ==
    <<part, windowVars, settingsVars, solveVars, benchVars, hashVars>>

Parts == {"window", "settings", "solve", "faults", "slow", "tables"}
BenchParts == {"faults", "slow"}

TwoWindows == <<16, 18>>
SmallDiff1 == [exponent |-> 3, negative |-> FALSE, mantissa |-> 15]
SmallBits == [exponent : 0..5, negative : BOOLEAN, mantissa : {0, 1, 5, 31}]
RestingTemplate ==
    [bits |-> [exponent |-> 3, negative |-> FALSE, mantissa |-> 5], height |-> 3, file |-> "good"]

\* The benchmark's two troubles, apart: in "slow" a wait may time out while every
\* worker is alive, in "faults" devices cannot be opened or stop answering - g1's
\* first, as the two cards are alike - and a wait times out for a worker that has ended.
BenchTrouble ==
    /\ part = "slow" => faults' = 0
    /\ part = "faults" => /\ faults = 0 => "g2" \notin went' \/ work["g1"] = "ended"
                          /\ missed' # missed => \E g \in BenchGpus : work[g] = "ended"

\* A part that rests does so in one state.
MCAroundInit ==
    /\ part \in Parts /\ BenchInit
    /\ IF part = "settings" THEN TRUE ELSE file = 0 /\ legacy = FALSE
    /\ IF part = "solve" THEN TRUE ELSE template = RestingTemplate /\ fixed = Automatic
    /\ IF part = "faults" THEN work["g2"] = "ended" => work["g1"] = "ended"
                          ELSE work = [g \in BenchGpus |-> "idle"]
    /\ IF part = "tables" THEN TRUE ELSE build = "good"
    /\ WindowInit /\ SettingsInit /\ SolveInit /\ HashInit

MCAroundNext ==
    \/ /\ part = "window" /\ WindowNext
       /\ UNCHANGED <<part, settingsVars, solveVars, benchVars, hashVars>>
    \/ /\ part = "settings" /\ SettingsNext
       /\ UNCHANGED <<part, windowVars, solveVars, benchVars, hashVars>>
    \/ /\ part = "solve" /\ SolveNext
       /\ UNCHANGED <<part, windowVars, settingsVars, benchVars, hashVars>>
    \/ /\ part \in BenchParts /\ BenchNext /\ BenchTrouble
       /\ UNCHANGED <<part, windowVars, settingsVars, solveVars, hashVars>>
    \/ /\ part = "tables" /\ HashNext
       /\ UNCHANGED <<part, windowVars, settingsVars, solveVars, benchVars>>

\* The fairness of the parts, of the one that steps.
MCAroundSpec ==
    /\ MCAroundInit /\ [][MCAroundNext]_aroundVars
    /\ WF_windowVars(part = "window" /\ MainThread)
    /\ WF_windowVars(part = "window" /\ TaskStep)
    /\ WF_windowVars(part = "window" /\ KilledExits)
    /\ SettingsFairness     \* a page that has not been loaded saves nothing
    /\ WF_solveVars(part = "solve" /\ SolverStep)
    /\ WF_benchVars(part \in BenchParts /\ RunStep)
    /\ WF_benchVars(part \in BenchParts /\ GivesUpOnEnded)
    /\ \A g \in BenchGpus : WF_benchVars(part \in BenchParts /\ CardStep(g))
    /\ HashFairness         \* before any thread has hashed, or exit, there is nothing to do

=============================================================================
