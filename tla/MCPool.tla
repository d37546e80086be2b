------------------------------- MODULE MCPool -------------------------------
(***************************************************************************)
(* The client's two layers for TLC, each on its own: the session           *)
(* (Stratum), in which a message is a value, and the line reader below it  *)
(* (LineReader), in which it is bytes.  They share no variable; which of   *)
(* the two steps is fixed at the start.                                    *)
(***************************************************************************)
EXTENDS Stratum, LineReader

VARIABLE part

poolVars == <<part, vars, readerVars>>

MCPoolInit == part \in {"session", "reader"} /\ Init /\ ReaderInit

\* next_line is not called again after an error.
ReaderOver == pc \in {"refused", "ended", "failed"} /\ UNCHANGED readerVars

MCPoolNext ==
    \/ part = "session" /\ Next /\ UNCHANGED <<part, readerVars>>
    \/ part = "reader" /\ (ReaderNext \/ ReaderOver) /\ UNCHANGED <<part, vars>>

MCPoolSpec ==
    /\ MCPoolInit /\ [][MCPoolNext]_poolVars
    /\ WF_vars(part = "session" /\ ClientProgress)

=============================================================================
