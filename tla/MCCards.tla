------------------------------ MODULE MCCards -------------------------------
(***************************************************************************)
(* The cards for TLC, in parts that share no variable: which device a      *)
(* worker opens (Devices), what happens on an open one (DeviceQueue), what *)
(* the user is told of it (StatusFeed) and where a card's tuned window is  *)
(* kept (ChoiceFile).  Which part steps is fixed at the start.  Headers    *)
(* and targets are only ever compared with each other, so that permuting   *)
(* them changes nothing.                                                   *)
(***************************************************************************)
EXTENDS Devices, DeviceQueue, StatusFeed, ChoiceFile, TLC

VARIABLE part

cardsVars == <<part, vars, devicesVars, feedVars, choiceVars>>

ThreeCards == 1..3
OneModel == [c \in Cards |-> "A"]
Unseen == [p \in Platforms |-> {}]

Symmetry == Permutations(Headers) \cup Permutations(Targets)

\* A part that rests does so in one state.
MCCardsInit ==
    /\ part \in {"open", "run", "status", "choices"}
    /\ IF part = "run" THEN TRUE ELSE api = "opencl"
    /\ IF part = "open" THEN TRUE
       ELSE /\ model = OneModel /\ renamed = FALSE /\ igpu = FALSE
            /\ cuda = {} /\ sees = Unseen
    /\ IF part = "status" THEN TRUE
       ELSE cpuThreads = 0 /\ standIns = 0 /\ gpuKernel = FALSE /\ reference = FALSE
    /\ Init /\ DevicesInit /\ FeedInit /\ ChoiceInit

MCCardsNext ==
    \/ part = "open" /\ DevicesNext /\ UNCHANGED <<part, vars, feedVars, choiceVars>>
    \/ part = "run" /\ Next /\ UNCHANGED <<part, devicesVars, feedVars, choiceVars>>
    \/ part = "status" /\ FeedNext /\ UNCHANGED <<part, vars, devicesVars, choiceVars>>
    \* Nothing is said of the file after what it is not guarded against, for good.
    \/ part = "choices" /\ ~unguarded /\ ChoiceNext /\ UNCHANGED <<part, vars, devicesVars, feedVars>>

MCCardsSpec == MCCardsInit /\ [][MCCardsNext]_cardsVars

=============================================================================
