---------------------------- MODULE SavedVersions ----------------------------
(***************************************************************************)
(* What the window's settings file promises, without how it is written:    *)
(* whatever happens, the file holds one whole version of the settings, an  *)
(* older version never takes the place of a newer one, and changes reach   *)
(* the file unless the user is told that they do not.  The comments of     *)
(* src/gui/src-tauri/src/main.rs (write_settings) and                      *)
(* src/gui/dist/main.js (saveSettings) say this much.                      *)
(***************************************************************************)
EXTENDS Naturals

VARIABLES
    saved,      \* the version in the file; 0 for none that can be read
    latest,     \* the newest version that is to be saved
    told        \* the user is told that saving fails

vars == <<saved, latest, told>>

Init == saved \in Nat /\ latest = saved /\ told = FALSE

\* The user changes a setting, or several before one is to be saved.
Change == latest' > latest /\ UNCHANGED <<saved, told>>

\* A version reaches the file; those in between may be passed over.
Save == saved' > saved /\ saved' <= latest /\ UNCHANGED <<latest, told>>

\* The last attempt failed, or no longer did.
Tell == told' = ~told /\ UNCHANGED <<saved, latest>>

\* Changes that have not reached the file are forgotten.
Forget == latest' = saved /\ told' = FALSE /\ UNCHANGED saved

Next == Change \/ Save \/ Tell \/ Forget

\* Unless failure is told, versions keep landing as long as there are newer ones.
Landing == <>[](saved < latest /\ ~told) => []<><<Save>>_vars

Spec == Init /\ [][Next]_vars /\ Landing

=============================================================================
