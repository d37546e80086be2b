----------------------------- MODULE MCSettings -----------------------------
(* A small instance of Settings for TLC, of a user who never had the old     *)
(* version, whose localStorage a load without the file would save at once.   *)
EXTENDS Settings

MCSettingsInit == SettingsInit /\ legacy = FALSE

MCSettingsSpec == MCSettingsInit /\ [][SettingsNext]_settingsVars /\ SettingsFairness

=============================================================================
