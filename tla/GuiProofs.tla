------------------------------ MODULE GuiProofs ------------------------------
(***************************************************************************)
(* Proofs about the desktop window: one miner at a time (MinerWindow), and *)
(* a settings file that is a store of whole versions (Settings implements  *)
(* the safety part of SavedVersions), for any number of miners, commands,  *)
(* versions and crashes.                                                   *)
(***************************************************************************)
EXTENDS MinerWindow, Settings, FiniteSetTheorems, SequenceTheorems, TLAPS

(***************************************************************************)
(* The miner process.                                                      *)
(***************************************************************************)

\* Miners are launched in turn.
InTurn == \A n \in Launched : \A k \in 1 .. n - 1 : k \in Launched

\* MinerState is None from the check of start_mining to its end.
NoneWhileStarting == starting # "no" => held = None

\* A task that told the page has seen its miner end.
ToldOfTheDead == \A n \in Miners : task[n] = "emitted" => miner[n] = "over"

\* A miner that was not told to stop is the one held, or the last one launched
\* and about to be put away.
RunnerIsKnown ==
    ~raced => \A n \in Miners : miner[n] = "runs" =>
        held = n \/ (starting = "set" /\ \A k \in Launched : k <= n)

WindowInv == WindowTypeOK /\ InTurn /\ NoneWhileStarting /\ ToldOfTheDead /\ RunnerIsKnown

LEMMA WindowStarts == WindowInit => WindowInv
<1> SUFFICES ASSUME WindowInit PROVE WindowInv
  OBVIOUS
<1>1. invoked \in Seq({"start", "stop", "is_mining"})
  BY ElementOfSeq, EmptySeq DEF WindowInit
<1>2. WindowTypeOK
  BY <1>1 DEF WindowInit, WindowTypeOK
<1> QED
  BY <1>2 DEF WindowInit, WindowInv, InTurn, NoneWhileStarting, ToldOfTheDead, RunnerIsKnown, Launched

\* What a step that takes a command leaves of the queue.
LEMMA CommandTaken ==
    ASSUME WindowTypeOK, NEW command, Takes(command)
    PROVE  invoked' \in Seq({"start", "stop", "is_mining"}) /\ starting = "no"
  BY HeadTailProperties DEF WindowTypeOK, Takes

LEMMA WindowKeeps == WindowInv /\ [WindowNext]_windowVars => WindowInv'
<1> SUFFICES ASSUME WindowInv, [WindowNext]_windowVars PROVE WindowInv'
  OBVIOUS
<1> USE DEF None
<1>1. WindowTypeOK /\ InTurn /\ NoneWhileStarting /\ ToldOfTheDead /\ RunnerIsKnown
  BY DEF WindowInv
<1>2. MaxMiners \in Nat \ {0} /\ \A n \in Miners : n \in Nat \ {0}
  BY WindowAssumption DEF Miners
<1>3. SUFFICES WindowTypeOK' /\ InTurn' /\ NoneWhileStarting' /\ ToldOfTheDead' /\ RunnerIsKnown'
  BY DEF WindowInv
<1>4. CASE Toggle
  <2>1. invoked' \in Seq({"start", "stop", "is_mining"})
    BY <1>1, <1>4, AppendProperties DEF Toggle, WindowTypeOK
  <2> QED
    BY <1>1, <1>4, <2>1
    DEF Toggle, WindowTypeOK, InTurn, NoneWhileStarting, ToldOfTheDead, RunnerIsKnown, Launched
<1>5. CASE StartChecks
  <2>1. invoked' \in Seq({"start", "stop", "is_mining"}) /\ starting = "no"
    BY <1>1, <1>5, CommandTaken DEF StartChecks
  <2>2. starting' \in {"no", "spawn"} /\ (starting' = "spawn" => held = None)
        /\ UNCHANGED <<mining, held, miner, task, answers, stopped, raced>>
    BY <1>5 DEF StartChecks, MayStart
  <2> QED
    BY <1>1, <2>1, <2>2
    DEF WindowTypeOK, InTurn, NoneWhileStarting, ToldOfTheDead, RunnerIsKnown, Launched
<1>6. CASE StartRefused
  <2>1. invoked' \in Seq({"start", "stop", "is_mining"})
    BY <1>1, <1>6, CommandTaken DEF StartRefused
  <2> QED
    BY <1>1, <1>6, <2>1
    DEF StartRefused, WindowTypeOK, InTurn, NoneWhileStarting, ToldOfTheDead, RunnerIsKnown, Launched
<1>7. CASE StartFails
  BY <1>1, <1>7
  DEF StartFails, WindowTypeOK, InTurn, NoneWhileStarting, ToldOfTheDead, RunnerIsKnown, Launched
<1>8. CASE Stops
  <2>1. invoked' \in Seq({"start", "stop", "is_mining"}) /\ starting = "no"
    BY <1>1, <1>8, CommandTaken DEF Stops
  <2>2. /\ held' = None /\ UNCHANGED <<mining, starting, task, answers, stopped, raced>>
        /\ miner' \in [Miners -> {"none", "runs", "told", "over"}]
        /\ \A n \in Miners : \/ miner'[n] = miner[n] /\ (n = held => miner[n] # "runs")
                             \/ n = held /\ miner[n] = "runs" /\ miner'[n] = "told"
    BY <1>1, <1>2, <1>8 DEF Stops, WindowTypeOK
  <2>3. Launched' = Launched
    BY <2>2 DEF Launched
  <2>4. InTurn' /\ WindowTypeOK' /\ ToldOfTheDead' /\ NoneWhileStarting'
    BY <1>1, <2>1, <2>2, <2>3 DEF WindowTypeOK, InTurn, NoneWhileStarting, ToldOfTheDead
  <2>5. RunnerIsKnown'
    BY <1>1, <2>1, <2>2 DEF RunnerIsKnown
  <2> QED
    BY <2>4, <2>5
<1>9. CASE IsMining
  <2>1. invoked' \in Seq({"start", "stop", "is_mining"}) /\ answers' \in Nat
    BY <1>1, <1>9, CommandTaken DEF IsMining, WindowTypeOK
  <2> QED
    BY <1>1, <1>9, <2>1
    DEF IsMining, WindowTypeOK, InTurn, NoneWhileStarting, ToldOfTheDead, RunnerIsKnown, Launched
<1>10. ASSUME NEW n \in Miners, StartSets(n)
       PROVE  WindowTypeOK' /\ InTurn' /\ NoneWhileStarting' /\ ToldOfTheDead' /\ RunnerIsKnown'
  <2>1. /\ starting = "set" /\ held = None /\ \A k \in Launched : k <= n
        /\ held' = n /\ task' = [task EXCEPT ![n] = "reads"] /\ starting' = "no" /\ answers' = answers + 1
        /\ UNCHANGED <<mining, invoked, miner, stopped, raced>>
    BY <1>1, <1>10 DEF StartSets, PutAway, NoneWhileStarting
  <2>2. WindowTypeOK'
    BY <1>1, <2>1 DEF WindowTypeOK
  <2>3. InTurn' /\ NoneWhileStarting' /\ ToldOfTheDead'
    BY <1>1, <2>1 DEF InTurn, NoneWhileStarting, ToldOfTheDead, Launched, WindowTypeOK
  <2>4. ASSUME ~raced', NEW m \in Miners, miner'[m] = "runs" PROVE held' = m
    <3>1. m \in Launched /\ n \in Launched
      BY <1>10, <2>1, <2>4 DEF Launched, StartSets
    <3>2. \A k \in Launched : k <= m
      BY <1>1, <1>2, <2>1, <2>4 DEF RunnerIsKnown
    <3> QED
      BY <1>2, <2>1, <3>1, <3>2
  <2> QED
    BY <2>2, <2>3, <2>4 DEF RunnerIsKnown
<1>11. ASSUME NEW n \in Miners, TaskTells(n)
       PROVE  WindowTypeOK' /\ InTurn' /\ NoneWhileStarting' /\ ToldOfTheDead' /\ RunnerIsKnown'
  <2>1. WindowTypeOK'
    BY <1>1, <1>11 DEF TaskTells, WindowTypeOK
  <2>2. InTurn' /\ NoneWhileStarting' /\ RunnerIsKnown'
    BY <1>1, <1>11 DEF TaskTells, InTurn, NoneWhileStarting, RunnerIsKnown, Launched
  <2>3. ToldOfTheDead'
    BY <1>1, <1>11 DEF TaskTells, ToldOfTheDead, WindowTypeOK
  <2> QED
    BY <2>1, <2>2, <2>3
<1>12. ASSUME NEW n \in Miners, TaskClears(n)
       PROVE  WindowTypeOK' /\ InTurn' /\ NoneWhileStarting' /\ ToldOfTheDead' /\ RunnerIsKnown'
  <2>1. /\ miner[n] = "over" /\ held' = None /\ raced' = (raced \/ held \notin {None, n})
        /\ task' = [task EXCEPT ![n] = "over"] /\ UNCHANGED <<mining, invoked, starting, miner, answers, stopped>>
    BY <1>1, <1>12 DEF TaskClears, ToldOfTheDead
  <2>2. raced' \in BOOLEAN
    BY <2>1
  <2>3. WindowTypeOK'
    BY <1>1, <2>1, <2>2 DEF WindowTypeOK
  <2>4. InTurn' /\ NoneWhileStarting' /\ ToldOfTheDead'
    BY <1>1, <2>1 DEF InTurn, NoneWhileStarting, ToldOfTheDead, Launched, WindowTypeOK
  <2>5. ~raced' => ~raced /\ held \in {None, n}
    BY <2>1
  <2>6. RunnerIsKnown'
    BY <1>1, <1>2, <2>1, <2>5 DEF RunnerIsKnown, Launched
  <2> QED
    BY <2>3, <2>4, <2>6
<1>13. ASSUME NEW n \in Miners, StartSpawns(n)
       PROVE  WindowTypeOK' /\ InTurn' /\ NoneWhileStarting' /\ ToldOfTheDead' /\ RunnerIsKnown'
  <2>1. /\ starting = "spawn" /\ held = None /\ n \notin Launched /\ \A k \in 1 .. n - 1 : k \in Launched
        /\ miner' = [miner EXCEPT ![n] = "runs"] /\ starting' = "set"
        /\ UNCHANGED <<mining, invoked, held, task, answers, stopped, raced>>
    BY <1>1, <1>13 DEF StartSpawns, NoneWhileStarting
  <2>2. Launched' = Launched \cup {n} /\ Launched \subseteq Miners
    BY <1>1, <2>1 DEF Launched, WindowTypeOK
  <2>3. \A k \in Launched' : k <= n
    BY <1>1, <1>2, <2>1, <2>2 DEF InTurn
  <2>4. WindowTypeOK'
    BY <1>1, <2>1 DEF WindowTypeOK
  <2>5. InTurn' /\ NoneWhileStarting'
    BY <1>1, <2>1, <2>2 DEF InTurn, NoneWhileStarting
  <2>6. ToldOfTheDead'
    BY <1>1, <2>1 DEF ToldOfTheDead, Launched, WindowTypeOK
  <2>7. ASSUME ~raced', NEW m \in Miners, miner'[m] = "runs" PROVE m = n
    BY <1>1, <1>2, <2>1, <2>7 DEF RunnerIsKnown, WindowTypeOK
  <2> QED
    BY <2>1, <2>3, <2>4, <2>5, <2>6, <2>7 DEF RunnerIsKnown
<1>14. ASSUME NEW n \in Miners, Exits(n)
       PROVE  WindowTypeOK' /\ InTurn' /\ NoneWhileStarting' /\ ToldOfTheDead' /\ RunnerIsKnown'
  <2>1. /\ miner[n] \in {"runs", "told"} /\ miner' = [miner EXCEPT ![n] = "over"]
        /\ UNCHANGED <<mining, invoked, starting, held, task, answers, stopped, raced>>
    BY <1>14 DEF Exits, Running
  <2>2. Launched' = Launched
    BY <1>1, <2>1 DEF Launched, WindowTypeOK
  <2>3. WindowTypeOK' /\ InTurn' /\ NoneWhileStarting'
    BY <1>1, <2>1, <2>2 DEF WindowTypeOK, InTurn, NoneWhileStarting
  <2>4. ToldOfTheDead' /\ RunnerIsKnown'
    BY <1>1, <2>1, <2>2 DEF ToldOfTheDead, RunnerIsKnown, WindowTypeOK
  <2> QED
    BY <2>3, <2>4
<1>15. CASE PageHearsStarted
  <2>1. mining' \in BOOLEAN
    BY <1>15 DEF PageHearsStarted
  <2>2. answers' \in Nat /\ stopped' \in Nat
    BY <1>1, <1>15 DEF PageHearsStarted, WindowTypeOK
  <2> QED
    BY <1>1, <1>15, <2>1, <2>2
    DEF PageHearsStarted, WindowTypeOK, InTurn, NoneWhileStarting, ToldOfTheDead, RunnerIsKnown, Launched
<1>16. CASE PageHearsStopped
  <2>1. mining' \in BOOLEAN
    BY <1>16 DEF PageHearsStopped
  <2>2. answers' \in Nat /\ stopped' \in Nat
    BY <1>1, <1>16 DEF PageHearsStopped, WindowTypeOK
  <2> QED
    BY <1>1, <1>16, <2>1, <2>2
    DEF PageHearsStopped, WindowTypeOK, InTurn, NoneWhileStarting, ToldOfTheDead, RunnerIsKnown, Launched
<1>17. CASE UNCHANGED windowVars
  BY <1>1, <1>17
  DEF windowVars, WindowTypeOK, InTurn, NoneWhileStarting, ToldOfTheDead, RunnerIsKnown, Launched
<1> QED
  BY <1>4, <1>5, <1>6, <1>7, <1>8, <1>9, <1>10, <1>11, <1>12, <1>13, <1>14, <1>15, <1>16, <1>17
  DEF WindowNext, MainThread, TaskStep

LEMMA AtMostOneRuns == WindowInv => OneMiner
<1> SUFFICES ASSUME WindowInv, ~raced PROVE Cardinality({n \in Miners : miner[n] = "runs"}) <= 1
  BY DEF OneMiner
<1> DEFINE R == {n \in Miners : miner[n] = "runs"}
<1>1. ASSUME NEW m \in R, NEW n \in R PROVE m = n
  <2>1. m \in Nat \ {0} /\ n \in Nat \ {0} /\ m \in Launched /\ n \in Launched
    BY WindowAssumption DEF Miners, Launched
  <2> QED
    BY <2>1 DEF WindowInv, RunnerIsKnown, NoneWhileStarting, None
<1>2. CASE R = {}
  BY <1>2, FS_EmptySet
<1>3. CASE R # {}
  <2>1. PICK n : R = {n}
    BY <1>1, <1>3
  <2> QED
    BY <2>1, FS_Singleton
<1> QED
  BY <1>2, <1>3

(***************************************************************************)
(* However the button is pressed and however miners end, start_mining      *)
(* starts no second miner beside one that was not told to stop, short of a *)
(* task that lets go of another miner than its own.                        *)
(***************************************************************************)
THEOREM OneMinerAtATime == WindowSpec => []OneMiner
  BY WindowStarts, WindowKeeps, AtMostOneRuns, PTL DEF WindowSpec

-----------------------------------------------------------------------------
(***************************************************************************)
(* The settings file.                                                      *)
(***************************************************************************)

\* Before the page has loaded its settings it has none saved.
QuietUntilLoaded == loading # "over" => due = 0 /\ saver = "no"

\* The answer "got" is of a file that is there until it arrives.
GotIsThere == loading = "got" => whole /\ file # 0

\* Versions are made in order: the page shows none or the newest, and that is
\* the one to be saved once any was; the file holds no newer one.
NewestOnPage ==
    /\ fields \in {0, made} /\ due \in {0, made}
    /\ due # 0 => fields = made
    /\ Readable <= made

\* What is being written is no older than what the file holds, and was to be saved.
WritesForward ==
    saver \in {"asked", "created", "written", "synced"} => Readable <= writing /\ writing <= due /\ writing # 0

\* A save that waits its turn has something to save.
PendingIsDue == pending => due # 0

\* Nothing is renamed that was not flushed.
FlushedFirst == synced /\ (saver = "synced" => tmp = "synced")

SettingsInv ==
    /\ SettingsTypeOK /\ QuietUntilLoaded /\ GotIsThere /\ NewestOnPage
    /\ WritesForward /\ PendingIsDue /\ FlushedFirst

\* The members of the type invariant as facts of their own.
LEMMA SettingsTypes ==
    ASSUME SettingsTypeOK
    PROVE  /\ made \in Nat /\ fields \in Nat /\ writing \in Nat /\ due \in Nat /\ file \in Nat /\ crashes \in Nat
           /\ legacy \in BOOLEAN /\ inFlight \in BOOLEAN /\ pending \in BOOLEAN /\ saveFailed \in BOOLEAN
           /\ whole \in BOOLEAN /\ synced \in BOOLEAN /\ unread \in BOOLEAN /\ replaced \in BOOLEAN
           /\ Readable \in Nat
<1>1. /\ made \in Nat /\ fields \in Nat /\ writing \in Nat /\ due \in Nat /\ file \in Nat /\ crashes \in Nat
  BY SettingsAssumption DEF SettingsTypeOK
<1> QED
  BY <1>1 DEF SettingsTypeOK, Readable

LEMMA SettingsStart == SettingsInit => SettingsInv
<1> SUFFICES ASSUME SettingsInit PROVE SettingsInv
  OBVIOUS
<1>1. file \in 0 .. MaxVersion /\ 0 \in 0 .. MaxVersion /\ 0 \in 0 .. MaxCrashes
  BY SettingsAssumption DEF SettingsInit
<1>2. whole \in BOOLEAN
  BY DEF SettingsInit
<1>3. {legacy, inFlight, pending, saveFailed, whole, synced, unread, replaced} \subseteq BOOLEAN
  BY <1>2 DEF SettingsInit
<1>4. made \in 0 .. MaxVersion /\ Readable <= made
  BY <1>1, <1>2, SettingsAssumption DEF SettingsInit, Readable
<1>5. SettingsTypeOK
  BY <1>1, <1>3, <1>4 DEF SettingsInit, SettingsTypeOK
<1> QED
  BY <1>4, <1>5
  DEF SettingsInit, SettingsInv, QuietUntilLoaded, GotIsThere, NewestOnPage, WritesForward, PendingIsDue, FlushedFirst

\* saveSettings of the newest version: Change of the store, or nothing if that
\* version is already the latest.
SaveShape(version) ==
    /\ due' = version
    /\ inFlight' \in BOOLEAN /\ pending' \in BOOLEAN
    /\ \/ UNCHANGED <<saver, writing>>
       \/ saver' = "asked" /\ writing' = version

LEMMA SavesNewest ==
    ASSUME SettingsTypeOK, NEW version, SaveSettings(version)
    PROVE  SaveShape(version)
<1>1. inFlight \in BOOLEAN /\ pending \in BOOLEAN
  BY SettingsTypes
<1> QED
  BY <1>1 DEF SaveSettings, SaveNow, SaveShape

\* The settings part of a step, from what an action does to each variable.
LEMMA SettingsKeeps == SettingsInv /\ [SettingsNext]_settingsVars => SettingsInv'
<1> SUFFICES ASSUME SettingsInv, [SettingsNext]_settingsVars PROVE SettingsInv'
  OBVIOUS
<1> DEFINE Flags == {legacy, inFlight, pending, saveFailed, whole, synced, unread, replaced}
<1>1. /\ SettingsTypeOK /\ QuietUntilLoaded /\ GotIsThere /\ NewestOnPage
      /\ WritesForward /\ PendingIsDue /\ FlushedFirst
  BY DEF SettingsInv
<1>2. /\ made \in Nat /\ fields \in Nat /\ writing \in Nat /\ due \in Nat /\ file \in Nat /\ crashes \in Nat
      /\ Readable \in Nat /\ MaxVersion \in Nat \ {0} /\ MaxCrashes \in Nat
  BY <1>1, SettingsTypes, SettingsAssumption
<1>3. /\ legacy \in BOOLEAN /\ inFlight \in BOOLEAN /\ pending \in BOOLEAN /\ saveFailed \in BOOLEAN
      /\ whole \in BOOLEAN /\ synced \in BOOLEAN /\ unread \in BOOLEAN /\ replaced \in BOOLEAN
  BY <1>1, SettingsTypes
<1> USE DEF pageVars, diskVars
<1>4. CASE Edit
  <2>1. /\ made < MaxVersion /\ made' = made + 1 /\ fields' = made + 1
        /\ UNCHANGED <<legacy, loading, saveFailed, file, whole, synced, tmp, unread, replaced, crashes>>
    BY <1>4 DEF Edit
  <2>2. \/ loading = "over" /\ SaveShape(made + 1)
        \/ loading # "over" /\ UNCHANGED <<inFlight, pending, saver, writing, due>>
    BY <1>1, <1>4, SavesNewest DEF Edit
  <2>3. inFlight' \in BOOLEAN /\ pending' \in BOOLEAN
    BY <1>3, <2>2 DEF SaveShape
  <2>4. Flags' \subseteq BOOLEAN
    BY <1>3, <2>1, <2>3
  <2>5. Readable' = Readable
    BY <2>1 DEF Readable
  <2>6. SettingsTypeOK'
    BY <1>1, <1>2, <2>1, <2>2, <2>4 DEF SettingsTypeOK, SaveShape
  <2>7. QuietUntilLoaded' /\ GotIsThere' /\ PendingIsDue' /\ NewestOnPage'
    BY <1>1, <1>2, <2>1, <2>2, <2>5 DEF QuietUntilLoaded, GotIsThere, PendingIsDue, NewestOnPage, SaveShape
  <2>8. WritesForward' /\ FlushedFirst'
    BY <1>1, <1>2, <2>1, <2>2, <2>5 DEF WritesForward, FlushedFirst, NewestOnPage, SaveShape
  <2> QED
    BY <2>6, <2>7, <2>8 DEF SettingsInv
<1>5. CASE StartSaves
  <2>1. /\ loading = "over" /\ fields > 0 /\ SaveShape(fields)
        /\ UNCHANGED <<made, fields, legacy, loading, saveFailed, file, whole, synced, tmp, unread, replaced, crashes>>
    BY <1>1, <1>5, SavesNewest DEF StartSaves
  <2>2. inFlight' \in BOOLEAN /\ pending' \in BOOLEAN
    BY <2>1 DEF SaveShape
  <2>3. Flags' \subseteq BOOLEAN
    BY <1>3, <2>1, <2>2
  <2>4. Readable' = Readable
    BY <2>1 DEF Readable
  <2>5. SettingsTypeOK'
    BY <1>1, <1>2, <2>1, <2>3 DEF SettingsTypeOK, SaveShape
  <2>6. QuietUntilLoaded' /\ GotIsThere' /\ PendingIsDue' /\ NewestOnPage'
    BY <1>1, <1>2, <2>1, <2>4 DEF QuietUntilLoaded, GotIsThere, PendingIsDue, NewestOnPage, SaveShape
  <2>7. WritesForward' /\ FlushedFirst'
    BY <1>1, <1>2, <2>1, <2>4 DEF WritesForward, FlushedFirst, NewestOnPage, SaveShape
  <2> QED
    BY <2>5, <2>6, <2>7 DEF SettingsInv
<1>6. ASSUME NEW answer \in {"got", "none", "error"}, LoadReads(answer)
      PROVE  SettingsInv'
  <2>1. /\ loading = "asked" /\ loading' = answer /\ (answer = "got" => Readable # 0)
        /\ UNCHANGED <<made, fields, legacy, inFlight, pending, saveFailed, due, file, whole, synced, tmp,
                       saver, writing, unread, replaced, crashes>>
    BY <1>6 DEF LoadReads
  <2>2. Flags' \subseteq BOOLEAN
    BY <1>3, <2>1
  <2>3. Readable' = Readable
    BY <2>1 DEF Readable
  <2>4. GotIsThere'
    BY <2>1 DEF GotIsThere, Readable
  <2> QED
    BY <1>1, <2>1, <2>2, <2>3, <2>4
    DEF SettingsInv, SettingsTypeOK, QuietUntilLoaded, NewestOnPage, WritesForward, PendingIsDue, FlushedFirst
<1>7. CASE LoadArrives
  <2>1. /\ loading \in {"got", "none", "error"} /\ loading' = "over" /\ due = 0 /\ saver = "no"
        /\ UNCHANGED <<legacy, saveFailed, file, whole, synced, tmp, replaced, crashes>>
    BY <1>1, <1>7 DEF LoadArrives, QuietUntilLoaded
  <2>2. unread' \in BOOLEAN
    BY <1>7 DEF LoadArrives
  <2>3. \/ /\ loading = "got" /\ fields' = file /\ made' = file
           /\ UNCHANGED <<inFlight, pending, saver, writing, due>>
        \/ /\ made < MaxVersion /\ fields' = made + 1 /\ made' = made + 1 /\ SaveShape(made + 1)
        \/ UNCHANGED <<fields, made, inFlight, pending, saver, writing, due>>
    BY <1>1, <1>7, SavesNewest DEF LoadArrives
  <2>4. inFlight' \in BOOLEAN /\ pending' \in BOOLEAN
    BY <1>3, <2>3 DEF SaveShape
  <2>5. Flags' \subseteq BOOLEAN
    BY <1>3, <2>1, <2>2, <2>4
  <2>6. Readable' = Readable /\ Readable <= file
    BY <1>2, <2>1 DEF Readable
  <2>7. SettingsTypeOK'
    BY <1>1, <1>2, <2>1, <2>3, <2>5 DEF SettingsTypeOK, SaveShape
  <2>8. QuietUntilLoaded' /\ GotIsThere' /\ PendingIsDue' /\ NewestOnPage'
    BY <1>1, <1>2, <2>1, <2>3, <2>6 DEF QuietUntilLoaded, GotIsThere, PendingIsDue, NewestOnPage, SaveShape
  <2>9. WritesForward' /\ FlushedFirst'
    BY <1>1, <1>2, <2>1, <2>3, <2>6 DEF WritesForward, FlushedFirst, NewestOnPage, SaveShape
  <2> QED
    BY <2>7, <2>8, <2>9 DEF SettingsInv
<1>8. ASSUME Creates \/ Writes \/ Syncs \/ WriteFails
      PROVE  SettingsInv'
  <2>1. /\ saver \in {"asked", "created", "written", "synced"}
        /\ UNCHANGED <<made, fields, legacy, loading, inFlight, pending, saveFailed, due, file, whole, synced,
                       writing, unread, replaced, crashes>>
        /\ \/ saver' = "created" /\ tmp' = "half"
           \/ saver' = "written" /\ tmp' = "whole"
           \/ saver' = "synced" /\ tmp' = "synced"
           \/ saver' = "error" /\ tmp' = tmp
    BY <1>8 DEF Creates, Writes, Syncs, Flushed, WriteFails
  <2>2. Flags' \subseteq BOOLEAN
    BY <1>3, <2>1
  <2>3. Readable' = Readable
    BY <2>1 DEF Readable
  <2>4. SettingsTypeOK' /\ QuietUntilLoaded' /\ GotIsThere' /\ PendingIsDue' /\ NewestOnPage'
    BY <1>1, <2>1, <2>2, <2>3 DEF SettingsTypeOK, QuietUntilLoaded, GotIsThere, PendingIsDue, NewestOnPage
  <2>5. WritesForward' /\ FlushedFirst'
    BY <1>1, <2>1, <2>3 DEF WritesForward, FlushedFirst
  <2> QED
    BY <2>4, <2>5 DEF SettingsInv
<1>9. CASE Renames
  <2>1. /\ saver = "synced" /\ saver' = "ok" /\ tmp = "synced" /\ tmp' = "none"
        /\ file' = writing /\ whole' = TRUE /\ synced' = TRUE
        /\ UNCHANGED <<made, fields, legacy, loading, inFlight, pending, saveFailed, due, writing, unread, crashes>>
    BY <1>1, <1>9 DEF Renames, FlushedFirst
  <2>2. whole' \in BOOLEAN /\ synced' \in BOOLEAN /\ replaced' \in BOOLEAN
    BY <1>9, <2>1 DEF Renames
  <2>3. Flags' \subseteq BOOLEAN
    BY <1>3, <2>1, <2>2
  <2>4. loading = "over" /\ writing <= due /\ writing # 0
    BY <1>1, <2>1 DEF QuietUntilLoaded, WritesForward
  <2>5. Readable' = writing
    BY <2>1 DEF Readable
  <2>6. SettingsTypeOK'
    BY <1>1, <2>1, <2>3 DEF SettingsTypeOK
  <2>7. QuietUntilLoaded' /\ GotIsThere' /\ PendingIsDue' /\ NewestOnPage'
    BY <1>1, <1>2, <2>1, <2>4, <2>5 DEF QuietUntilLoaded, GotIsThere, PendingIsDue, NewestOnPage
  <2>8. WritesForward' /\ FlushedFirst'
    BY <2>1 DEF WritesForward, FlushedFirst
  <2> QED
    BY <2>6, <2>7, <2>8 DEF SettingsInv
<1>10. CASE SaveAnswered
  <2>1. /\ saver \in {"ok", "error"} /\ pending' = FALSE /\ inFlight' = pending
        /\ UNCHANGED <<made, fields, legacy, loading, due, file, whole, synced, tmp, unread, replaced, crashes>>
    BY <1>10 DEF SaveAnswered
  <2>2. \/ pending /\ saver' = "asked" /\ writing' = fields
        \/ ~pending /\ saver' = "no" /\ writing' = 0
    BY <1>10 DEF SaveAnswered
  <2>3. saveFailed' \in BOOLEAN
    BY <1>10 DEF SaveAnswered
  <2>4. Flags' \subseteq BOOLEAN
    BY <1>3, <2>1, <2>3
  <2>5. Readable' = Readable
    BY <2>1 DEF Readable
  <2>6. SettingsTypeOK'
    BY <1>1, <1>2, <2>1, <2>2, <2>4 DEF SettingsTypeOK
  <2>7. QuietUntilLoaded' /\ GotIsThere' /\ PendingIsDue' /\ NewestOnPage'
    BY <1>1, <1>2, <2>1, <2>2, <2>5 DEF QuietUntilLoaded, GotIsThere, PendingIsDue, NewestOnPage
  <2>8. WritesForward' /\ FlushedFirst'
    BY <1>1, <1>2, <2>1, <2>2, <2>5 DEF WritesForward, FlushedFirst, NewestOnPage, PendingIsDue
  <2> QED
    BY <2>6, <2>7, <2>8 DEF SettingsInv
<1>11. ASSUME NEW power \in BOOLEAN, Crash(power)
       PROVE  SettingsInv'
  <2>1. /\ crashes < MaxCrashes /\ crashes' = crashes + 1
        /\ fields' = 0 /\ loading' = "asked" /\ due' = 0 /\ saver' = "no" /\ writing' = 0
        /\ pending' = FALSE /\ UNCHANGED <<legacy, file, synced, replaced>>
        /\ made' = IF whole' THEN file ELSE 0
        /\ tmp' \in {tmp, "half"}
    BY <1>11 DEF Crash
  <2>2. whole' \in BOOLEAN /\ inFlight' \in BOOLEAN /\ pending' \in BOOLEAN /\ saveFailed' \in BOOLEAN /\ unread' \in BOOLEAN
    BY <1>11 DEF Crash
  <2>3. Flags' \subseteq BOOLEAN
    BY <1>3, <2>1, <2>2
  <2>4. Readable' = made' /\ made' \in {file, 0}
    BY <2>1, <2>2 DEF Readable
  <2>5. SettingsTypeOK'
    BY <1>1, <1>2, <2>1, <2>3, <2>4 DEF SettingsTypeOK
  <2>6. QuietUntilLoaded' /\ GotIsThere' /\ PendingIsDue' /\ NewestOnPage'
    BY <1>1, <1>2, <2>1, <2>4 DEF QuietUntilLoaded, GotIsThere, PendingIsDue, NewestOnPage
  <2>7. WritesForward' /\ FlushedFirst'
    BY <1>1, <2>1 DEF WritesForward, FlushedFirst
  <2> QED
    BY <2>5, <2>6, <2>7 DEF SettingsInv
<1>12. CASE UNCHANGED settingsVars
  BY <1>1, <1>12
  DEF settingsVars, SettingsInv, SettingsTypeOK, QuietUntilLoaded, GotIsThere, NewestOnPage,
      WritesForward, PendingIsDue, FlushedFirst, Readable
<1> QED
  BY <1>4, <1>5, <1>6, <1>7, <1>8, <1>9, <1>10, <1>11, <1>12 DEF SettingsNext, WriterStep

\* Every step of the page, the commands and the files is one of the store, or
\* none at all.
LEMMA StoreSteps == SettingsInv /\ [SettingsNext]_settingsVars => [Store!Next]_(Store!vars)
<1> SUFFICES ASSUME SettingsInv, [SettingsNext]_settingsVars PROVE [Store!Next]_(Store!vars)
  OBVIOUS
<1>1. /\ SettingsTypeOK /\ QuietUntilLoaded /\ NewestOnPage /\ WritesForward /\ FlushedFirst
  BY DEF SettingsInv
<1>2. /\ made \in Nat /\ fields \in Nat /\ writing \in Nat /\ due \in Nat /\ file \in Nat /\ Readable \in Nat
      /\ saveFailed \in BOOLEAN /\ whole \in BOOLEAN
  BY <1>1, SettingsTypes
<1>3. Newest \in Nat /\ Newest <= made
  BY <1>1, <1>2 DEF Newest, NewestOnPage
<1> USE DEF pageVars, diskVars
\* A step that saves the newest version.
<1>4. ASSUME NEW version \in Nat, SaveShape(version), version >= made, UNCHANGED <<file, whole, saveFailed>>
      PROVE  [Store!Next]_(Store!vars)
  <2>1. Readable' = Readable /\ due' = version
    BY <1>4 DEF Readable, SaveShape
  <2>2. Newest' = version
    BY <1>1, <1>2, <1>4, <2>1 DEF Newest, NewestOnPage
  <2>3. CASE version = Newest
    BY <1>4, <2>1, <2>2, <2>3 DEF Store!vars
  <2>4. CASE version > Newest
    BY <1>4, <2>1, <2>2, <2>4 DEF Store!Next, Store!Change
  <2> QED
    BY <1>2, <1>3, <1>4, <2>3, <2>4
\* A step that leaves the file, what is due and what is told.
<1>5. ASSUME UNCHANGED <<file, whole, saveFailed, due>>
      PROVE  [Store!Next]_(Store!vars)
  BY <1>5 DEF Readable, Newest, Store!vars
<1>6. CASE Edit
  <2>1. CASE loading = "over"
    <3>1. SaveShape(made + 1) /\ UNCHANGED <<file, whole, saveFailed>>
      BY <1>1, <1>6, <2>1, SavesNewest DEF Edit
    <3> QED
      BY <1>2, <1>4, <3>1
  <2>2. CASE loading # "over"
    BY <1>5, <1>6, <2>2 DEF Edit
  <2> QED
    BY <2>1, <2>2
<1>7. CASE StartSaves
  <2>1. SaveShape(fields) /\ fields > 0 /\ UNCHANGED <<file, whole, saveFailed>>
    BY <1>1, <1>7, SavesNewest DEF StartSaves
  <2>2. fields >= made
    BY <1>1, <1>2, <2>1 DEF NewestOnPage
  <2> QED
    BY <1>2, <1>4, <2>1, <2>2
<1>8. CASE LoadArrives
  <2>1. UNCHANGED <<file, whole, saveFailed>> /\ (SaveShape(made + 1) \/ due' = due)
    BY <1>1, <1>8, SavesNewest DEF LoadArrives
  <2> QED
    BY <1>2, <1>4, <1>5, <2>1
<1>9. CASE \E answer \in {"got", "none", "error"} : LoadReads(answer)
  BY <1>5, <1>9 DEF LoadReads
<1>10. CASE Creates \/ Writes \/ Syncs \/ WriteFails
  BY <1>5, <1>10 DEF Creates, Writes, Syncs, WriteFails
<1>11. CASE Renames
  <2>1. saver = "synced" /\ file' = writing /\ whole' = TRUE /\ UNCHANGED <<due, saveFailed>>
    BY <1>1, <1>11 DEF Renames, FlushedFirst
  <2>2. Readable' = writing /\ Readable <= writing /\ writing <= due
    BY <1>1, <2>1 DEF WritesForward, Readable
  <2>3. Newest = due /\ Newest' = due
    BY <1>2, <2>1, <2>2 DEF Newest
  <2>4. CASE writing = Readable
    BY <2>1, <2>2, <2>3, <2>4 DEF Store!vars
  <2>5. CASE writing > Readable
    BY <2>1, <2>2, <2>3, <2>5 DEF Store!Next, Store!Save
  <2> QED
    BY <1>2, <2>2, <2>4, <2>5
<1>12. CASE SaveAnswered
  <2>1. UNCHANGED <<file, whole, due>> /\ saveFailed' \in BOOLEAN
    BY <1>12 DEF SaveAnswered
  <2>2. Readable' = Readable /\ Newest' = Newest
    BY <2>1 DEF Readable, Newest
  <2>3. saveFailed' = saveFailed \/ saveFailed' = ~saveFailed
    BY <1>2, <2>1
  <2> QED
    BY <2>2, <2>3 DEF Store!Next, Store!Tell, Store!vars
<1>13. ASSUME NEW power \in BOOLEAN, Crash(power)
       PROVE  [Store!Next]_(Store!vars)
  <2>1. whole' = whole /\ file' = file /\ due' = 0 /\ saveFailed' = FALSE
    BY <1>1, <1>2, <1>13 DEF Crash, FlushedFirst
  <2>2. Readable' = Readable
    BY <2>1 DEF Readable
  <2>3. Newest' = Readable
    BY <1>2, <2>1, <2>2 DEF Newest
  <2> QED
    BY <2>1, <2>2, <2>3 DEF Store!Next, Store!Forget
<1>14. CASE UNCHANGED settingsVars
  BY <1>5, <1>14 DEF settingsVars
<1> QED
  BY <1>6, <1>7, <1>8, <1>9, <1>10, <1>11, <1>12, <1>13, <1>14 DEF SettingsNext, WriterStep

LEMMA StoreStarts == SettingsInit => Store!Init
<1> SUFFICES ASSUME SettingsInit PROVE Store!Init
  OBVIOUS
<1>1. SettingsTypeOK
  BY SettingsStart DEF SettingsInv
<1>2. Readable \in Nat /\ due = 0 /\ saveFailed = FALSE
  BY <1>1, SettingsTypes DEF SettingsInit
<1> QED
  BY <1>2 DEF Store!Init, Newest

(***************************************************************************)
(* read_settings, write_settings and saveSettings keep the types of what   *)
(* is on the page and on the disk.                                         *)
(***************************************************************************)
THEOREM SettingsTypeCorrect == SettingsSpec => []SettingsTypeOK
<1>1. SettingsInv => SettingsTypeOK
  BY DEF SettingsInv
<1> QED
  BY <1>1, SettingsStart, SettingsKeeps, PTL DEF SettingsSpec

(***************************************************************************)
(* write_settings and saveSettings implement the store of whole versions   *)
(* (the safety part of SettingsAreAStore): whatever crashes or power       *)
(* losses come, the file holds a whole version, an older one never takes   *)
(* the place of a newer one, and none lands that was not to be saved.      *)
(***************************************************************************)
THEOREM SettingsImplementStore == SettingsSpec => Store!Init /\ [][Store!Next]_(Store!vars)
  BY SettingsStart, SettingsKeeps, StoreStarts, StoreSteps, PTL DEF SettingsSpec

=============================================================================
