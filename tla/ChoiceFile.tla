----------------------------- MODULE ChoiceFile -----------------------------
(***************************************************************************)
(* The file every card's tuned window is remembered in                     *)
(* (src/src/tuning.rs: recall_in, remember_in, read_all).  FILE_LOCK is a  *)
(* lock of one process; the temporary file has one name for all.  A miner  *)
(* may be killed between any two steps - the window's Stop does just that  *)
(* - and started again, and so may the machine.  The file may fail to be   *)
(* read with nothing wrong with it.  A card stands for its key in the file.*)
(***************************************************************************)
EXTENDS Naturals, FiniteSets

CONSTANTS
    Processes,      \* miner processes on the machine
    CardsEach,      \* cards of each
    MaxKills        \* bound: miners killed, and power failures

ASSUME ChoiceAssumption == CardsEach \in Nat /\ MaxKills \in Nat

VARIABLES
    choices,        \* tuning.json: the cards with a choice in it ...
    readable,       \* ... whether all of it is there ...
    flushed,        \* ... and on the disk, under its name
    spare,          \* tuning.json.tmp: the same two
    at,             \* each card's thread: "new", "measures", inside remember_in
                    \*   "locked", "read", "created", "written", and "known"
    seen,           \* the choices a thread has read
    kept,           \* history: the cards remember_in returned Ok for
    unguarded,      \* history: what remember_in does not guard against has happened
    kills

fileVars == <<choices, readable, flushed, spare>>
choiceVars == <<fileVars, at, seen, kept, unguarded, kills>>

ChoiceCards == Processes \X (1..CardsEach)
Inside == {"locked", "read", "created", "written"}

\* The cards whose threads share FILE_LOCK with c's.
Siblings(c) == {d \in ChoiceCards : d[1] = c[1] /\ d # c}

\* read_all: a file that fails to be read, or is not whole, holds no choices.
ReadAll(fails) == IF readable /\ ~fails THEN choices ELSE {}

ChoiceInit ==
    /\ choices = {} /\ readable = TRUE /\ flushed = TRUE
    /\ spare = [cards |-> {}, whole |-> FALSE]
    /\ at = [c \in ChoiceCards |-> "new"] /\ seen = [c \in ChoiceCards |-> {}]
    /\ kept = {} /\ unguarded = FALSE
    /\ kills = 0

-----------------------------------------------------------------------------
\* recall_in, the lock taken and given back: a card without a choice measures.
Recall(c, fails) ==
    /\ at[c] = "new" /\ \A d \in Siblings(c) : at[d] \notin Inside
    /\ at' = [at EXCEPT ![c] = IF c \in ReadAll(fails) THEN "known" ELSE "measures"]
    /\ UNCHANGED <<fileVars, seen, kept, unguarded, kills>>

\* Mutant: the file is not locked.
Unlocked(c) == TRUE

LockIsFree(c) == \A d \in Siblings(c) : at[d] \notin Inside

\* FILE_LOCK keeps out this process's threads, not another's.
Lock(c) ==
    /\ at[c] = "measures" /\ LockIsFree(c)
    /\ at' = [at EXCEPT ![c] = "locked"]
    /\ unguarded' = (unguarded \/ \E d \in ChoiceCards : d[1] # c[1] /\ at[d] \in Inside)
    /\ UNCHANGED <<fileVars, seen, kept, kills>>

\* A read that fails is taken for a file without choices.
Reads(c, fails) ==
    /\ at[c] = "locked"
    /\ at' = [at EXCEPT ![c] = "read"]
    /\ seen' = [seen EXCEPT ![c] = ReadAll(fails)]
    /\ unguarded' = (unguarded \/ ReadAll(fails) # ReadAll(FALSE))
    /\ UNCHANGED <<fileVars, kept, kills>>

\* std::fs::write creates the file, emptying it, and fills it.
CreatesSpare(c) ==
    /\ at[c] = "read"
    /\ at' = [at EXCEPT ![c] = "created"]
    /\ spare' = [cards |-> {}, whole |-> FALSE]
    /\ UNCHANGED <<choices, readable, flushed, seen, kept, unguarded, kills>>

FillsSpare(c) ==
    /\ at[c] = "created"
    /\ at' = [at EXCEPT ![c] = "written"]
    /\ spare' = [cards |-> seen[c] \cup {c}, whole |-> TRUE]
    /\ UNCHANGED <<choices, readable, flushed, seen, kept, unguarded, kills>>

\* Nothing flushes the file before it takes the name.
RenamesSpare(c) ==
    /\ at[c] = "written"
    /\ at' = [at EXCEPT ![c] = "known"]
    /\ choices' = spare.cards /\ readable' = spare.whole /\ flushed' = FALSE
    /\ seen' = [seen EXCEPT ![c] = {}]
    /\ kept' = kept \cup {c}
    /\ UNCHANGED <<spare, unguarded, kills>>

\* Any step may fail; the card goes on with its window, unremembered.
RememberFails(c) ==
    /\ at[c] \in Inside \ {"locked"}
    /\ at' = [at EXCEPT ![c] = "known"]
    /\ seen' = [seen EXCEPT ![c] = {}]
    /\ UNCHANGED <<fileVars, kept, unguarded, kills>>

\* The miner is killed, and later started again.
Killed(p) ==
    /\ kills < MaxKills /\ kills' = kills + 1
    /\ at' = [c \in ChoiceCards |-> IF c[1] = p THEN "new" ELSE at[c]]
    /\ seen' = [c \in ChoiceCards |-> IF c[1] = p THEN {} ELSE seen[c]]
    /\ UNCHANGED <<fileVars, kept, unguarded>>

\* The system flushes what was written in its own time ...
Flushes ==
    /\ ~flushed /\ flushed' = TRUE
    /\ UNCHANGED <<choices, readable, spare, at, seen, kept, unguarded, kills>>

\* ... and a power failure before that may leave half a file under the name, or
\* an older one.
PowerFails(loses) ==
    /\ kills < MaxKills /\ kills' = kills + 1
    /\ loses => ~flushed
    /\ choices' \in IF loses THEN SUBSET choices ELSE {choices}
    /\ readable' \in {readable, readable /\ ~loses} /\ flushed' = TRUE
    /\ spare' = [cards |-> {}, whole |-> FALSE]
    /\ at' = [c \in ChoiceCards |-> "new"] /\ seen' = [c \in ChoiceCards |-> {}]
    /\ unguarded' = (unguarded \/ loses)
    /\ UNCHANGED kept

ChoiceNext ==
    \/ \E c \in ChoiceCards : \/ \E fails \in BOOLEAN : Recall(c, fails) \/ Reads(c, fails)
                            \/ Lock(c) \/ CreatesSpare(c) \/ FillsSpare(c)
                            \/ RenamesSpare(c) \/ RememberFails(c)
    \/ \E p \in Processes : Killed(p)
    \/ Flushes \/ \E loses \in BOOLEAN : PowerFails(loses)

ChoiceSpec == ChoiceInit /\ [][ChoiceNext]_choiceVars

-----------------------------------------------------------------------------
ChoiceTypeOK ==
    /\ choices \subseteq ChoiceCards /\ readable \in BOOLEAN /\ flushed \in BOOLEAN
    /\ spare \in [cards : SUBSET ChoiceCards, whole : BOOLEAN]
    /\ at \in [ChoiceCards -> Inside \cup {"new", "measures", "known"}]
    /\ seen \in [ChoiceCards -> SUBSET ChoiceCards]
    /\ kept \subseteq ChoiceCards /\ unguarded \in BOOLEAN /\ kills \in 0..MaxKills

\* remember: "keeping the other cards' choices", and "a crash cannot leave half a
\* file": the file can be read and holds every choice that was ever remembered,
\* whoever was killed, or what read of recall failed, in the middle of what.  (Not
\* once two miners wrote at once, remember_in took a file that failed to be read for
\* an empty one, or the power failed before the file was flushed: none of the three
\* is guarded against.)
ChoicesAreKept == ~unguarded => readable /\ kept \subseteq choices

=============================================================================
