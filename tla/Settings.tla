------------------------------ MODULE Settings ------------------------------
(***************************************************************************)
(* The window's settings file: the page that loads it once and saves every *)
(* change (src/gui/dist/main.js: loadSettings, saveSettings), and the      *)
(* commands that read and write it on the main thread                      *)
(* (src/gui/src-tauri/src/main.rs: read_settings, write_settings).  The    *)
(* window's process or the machine may end between any two steps.          *)
(*                                                                         *)
(* Settings are known by version numbers: an edit makes a new version, and *)
(* 0 stands for the defaults, or for no file.                              *)
(***************************************************************************)
EXTENDS Naturals

CONSTANTS
    MaxVersion,     \* bound: versions
    MaxCrashes      \* bound: crashes

ASSUME SettingsAssumption == MaxVersion \in Nat \ {0} /\ MaxCrashes \in Nat

VARIABLES
    made,           \* the newest version
    fields,         \* the version on the page
    legacy,         \* the old version's localStorage holds settings (external)
    loading,        \* load_settings: "asked", or the answer on its way: "got",
                    \*   "none", "error"; "over" is settingsLoaded
    inFlight, pending, saveFailed,
    file,           \* settings.json: its version ...
    whole, synced,  \* ... whether all of it is there, and on the disk
    tmp,            \* settings.json.tmp: "none", "half", "whole" or "synced"
    saver,          \* save_settings: "no", the last step done, or the answer: "ok", "error"
    writing,        \* the version it writes
    due,            \* history: the newest version saveSettings was to save
    unread,         \* history: the page was loaded without the settings that are there
    replaced,       \* history: ... and those have been replaced
    crashes

pageVars == <<made, fields, legacy, loading, inFlight, pending, saveFailed, due>>
diskVars == <<file, whole, synced, tmp>>
settingsVars == <<pageVars, diskVars, saver, writing, unread, replaced, crashes>>

Readable == IF whole THEN file ELSE 0

SettingsInit ==
    /\ file \in {0, 1} /\ whole \in {TRUE, file = 0} /\ synced = TRUE /\ tmp = "none"
    /\ made = Readable /\ fields = 0
    /\ legacy \in BOOLEAN
    /\ loading = "asked"
    /\ inFlight = FALSE /\ pending = FALSE /\ saveFailed = FALSE
    /\ saver = "no" /\ writing = 0
    /\ due = 0 /\ unread = FALSE /\ replaced = FALSE
    /\ crashes = 0

-----------------------------------------------------------------------------
\* saveSettings of a loaded page: one save at a time.
SaveNow(version) ==
    IF inFlight
    THEN pending' = TRUE /\ UNCHANGED <<inFlight, saver, writing>>
    ELSE inFlight' = TRUE /\ saver' = "asked" /\ writing' = version /\ UNCHANGED pending

SaveSettings(version) ==
    /\ SaveNow(version)
    /\ due' = version

\* The user edits a field, or clicks a choice.
Edit ==
    /\ made < MaxVersion
    /\ made' = made + 1 /\ fields' = made + 1
    /\ IF loading = "over" THEN SaveSettings(made + 1)
       ELSE UNCHANGED <<inFlight, pending, saver, writing, due>>
    /\ UNCHANGED <<legacy, loading, saveFailed, diskVars, unread, replaced, crashes>>

\* Start succeeded: the settings are saved once more.
StartSaves ==
    /\ loading = "over" /\ fields > 0
    /\ SaveSettings(fields)
    /\ UNCHANGED <<made, fields, legacy, loading, saveFailed, diskVars, unread, replaced, crashes>>

\* read_settings; reading may fail with nothing wrong with the file.
LoadReads(answer) ==
    /\ loading = "asked"
    /\ \/ answer = "got" /\ Readable # 0
       \/ answer = "none" /\ file = 0
       \/ answer = "error" /\ file # 0
    /\ loading' = answer
    /\ UNCHANGED <<made, fields, legacy, inFlight, pending, saveFailed, due>>
    /\ UNCHANGED <<diskVars, saver, writing, unread, replaced, crashes>>

\* loadSettings goes on: the file's settings go on the page; or the old version's,
\* and those are saved; or what is there stays.
LoadArrives ==
    /\ loading \in {"got", "none", "error"}
    /\ loading' = "over"
    /\ unread' = (loading = "error" /\ Readable # 0)
    /\ CASE loading = "got" -> /\ fields' = file /\ made' = file
                               /\ UNCHANGED <<inFlight, pending, saver, writing, due>>
         [] loading # "got" /\ legacy -> /\ made < MaxVersion
                                         /\ fields' = made + 1 /\ made' = made + 1
                                         /\ SaveSettings(made + 1)
         [] OTHER -> UNCHANGED <<fields, made, inFlight, pending, saver, writing, due>>
    /\ UNCHANGED <<legacy, saveFailed, diskVars, replaced, crashes>>

-----------------------------------------------------------------------------
\* write_settings: the temporary file is created, written and flushed, and renamed.
Creates ==
    /\ saver = "asked"
    /\ saver' = "created" /\ tmp' = "half"
    /\ UNCHANGED <<pageVars, file, whole, synced, writing, unread, replaced, crashes>>

Writes ==
    /\ saver = "created"
    /\ saver' = "written" /\ tmp' = "whole"
    /\ UNCHANGED <<pageVars, file, whole, synced, writing, unread, replaced, crashes>>

\* Mutant: what was written is not flushed.
NotFlushed == tmp

Flushed == "synced"

Syncs ==
    /\ saver = "written"
    /\ saver' = "synced" /\ tmp' = Flushed
    /\ UNCHANGED <<pageVars, file, whole, synced, writing, unread, replaced, crashes>>

Renames ==
    /\ saver = "synced"
    /\ saver' = "ok"
    /\ file' = writing /\ whole' = (tmp # "half") /\ synced' = (tmp = "synced")
    /\ tmp' = "none"
    /\ replaced' = (replaced \/ unread)
    /\ UNCHANGED <<pageVars, writing, unread, crashes>>

\* Any of the four steps may fail; the old file stays.
WriteFails ==
    /\ saver \in {"asked", "created", "written", "synced"}
    /\ saver' = "error"
    /\ UNCHANGED <<pageVars, diskVars, writing, unread, replaced, crashes>>

\* The page hears of it, and saves what has changed meanwhile.
SaveAnswered ==
    /\ saver \in {"ok", "error"}
    /\ saveFailed' = (saver = "error")
    /\ pending' = FALSE
    /\ inFlight' = pending
    /\ saver' = IF pending THEN "asked" ELSE "no"
    /\ writing' = IF pending THEN fields ELSE 0
    /\ UNCHANGED <<made, fields, legacy, loading, due, diskVars, unread, replaced, crashes>>

\* The window ends and is opened again; after a power loss, what was not flushed is
\* lost, and with it a file that was renamed before that.  A rename
\* that was made is assumed to last: the code does not flush the directory.
Crash(power) ==
    /\ crashes < MaxCrashes /\ crashes' = crashes + 1
    /\ whole' = (whole /\ (power => synced))
    /\ made' = IF whole' THEN file ELSE 0
    /\ fields' = 0 /\ loading' = "asked"
    /\ inFlight' = FALSE /\ pending' = FALSE /\ saveFailed' = FALSE /\ due' = 0
    /\ saver' = "no" /\ writing' = 0
    /\ tmp' = IF power /\ tmp = "whole" THEN "half" ELSE tmp
    /\ unread' = FALSE
    /\ UNCHANGED <<legacy, file, synced, replaced>>

WriterStep == Creates \/ Writes \/ Syncs \/ Renames \/ WriteFails

SettingsNext ==
    \/ Edit \/ StartSaves \/ LoadArrives
    \/ \E answer \in {"got", "none", "error"} : LoadReads(answer)
    \/ WriterStep \/ SaveAnswered
    \/ \E power \in BOOLEAN : Crash(power)

\* The main thread finishes a command it has begun, and the page hears the answer.
SettingsFairness ==
    WF_settingsVars(WriterStep) /\ WF_settingsVars(SaveAnswered)

SettingsSpec == SettingsInit /\ [][SettingsNext]_settingsVars /\ SettingsFairness

-----------------------------------------------------------------------------
SettingsTypeOK ==
    /\ made \in 0..MaxVersion /\ fields \in 0..MaxVersion /\ writing \in 0..MaxVersion
    /\ due \in 0..MaxVersion /\ file \in 0..MaxVersion /\ crashes \in 0..MaxCrashes
    /\ loading \in {"asked", "got", "none", "error", "over"}
    /\ saver \in {"no", "asked", "created", "written", "synced", "ok", "error"}
    /\ tmp \in {"none", "half", "whole", "synced"}
    /\ {legacy, inFlight, pending, saveFailed, whole, synced, unread, replaced} \subseteq BOOLEAN

\* The newest version that was to be saved.
Newest == IF due > Readable THEN due ELSE Readable

\* "A crash or power loss mid-write leaves the previous settings, never half a file",
\* and "a save per keystroke must not let an older one land after a newer": the page,
\* the commands and the two files together are a store of whole versions, in which
\* changes land unless the user has been told that saving fails.
Store == INSTANCE SavedVersions WITH saved <- Readable, latest <- Newest, told <- saveFailed

SettingsAreAStore == Store!Spec

\* "Nothing is written until the saved settings have been read."
ReadBeforeReplaced == ~replaced

=============================================================================
