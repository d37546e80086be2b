----------------------------- MODULE MCLaunches -----------------------------
(***************************************************************************)
(* The launches of the workers for TLC, in two parts that share no         *)
(* variable: what they cover (Search, with sizes from a set) and how the   *)
(* sizes come about (LaunchSize).  Which of the two steps is fixed at the  *)
(* start.                                                                  *)
(***************************************************************************)
EXTENDS MCSearch, LaunchSize

VARIABLE part

launchVars == <<part, vars, sizeVars>>

\* The part that rests does so in one state.
MCLaunchesInit ==
    /\ part \in {"cover", "size"}
    /\ IF part = "cover" THEN granule = 1 /\ density = 0 ELSE TRUE
    /\ Init /\ SizeInit

MCLaunchesNext ==
    \/ part = "cover" /\ Next /\ UNCHANGED <<part, sizeVars>>
    \/ part = "size" /\ SizeNext /\ UNCHANGED <<part, vars>>

\* The fairness of the two, of the one that steps.
MCLaunchesSpec ==
    /\ MCLaunchesInit /\ [][MCLaunchesNext]_launchVars
    /\ \A g \in Gpus : WF_vars(part = "cover" /\ GpuSteps(g) /\ lpc[g] \in {"fill", "refill"})
    /\ WF_sizeVars(part = "size" /\ SizedLaunch)

=============================================================================
