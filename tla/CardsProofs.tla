----------------------------- MODULE CardsProofs -----------------------------
(***************************************************************************)
(* Theorems about the cards: the file of their tuned windows (ChoiceFile), *)
(* what the user is told of them (StatusFeed), the queue of a device       *)
(* (DeviceQueue) and which device a worker opens (Devices).                *)
(***************************************************************************)
EXTENDS ChoiceFile, StatusFeed, DeviceQueue, Devices, SequenceTheorems, FiniteSetTheorems,
        WellFoundedInduction, TLAPS

-----------------------------------------------------------------------------
(***************************************************************************)
(* The file of the choices.                                                *)
(***************************************************************************)

\* FILE_LOCK, and no other process: one thread is in remember_in.
OneInside == \A c, d \in ChoiceCards : at[c] \in Inside /\ at[d] \in Inside => c = d

\* What that thread has read is what the file holds, and what it has written is
\* that and its own choice.
CopyIsCurrent ==
    \A c \in ChoiceCards :
        /\ at[c] \in {"read", "created", "written"} => seen[c] = choices
        /\ at[c] = "written" => spare = [cards |-> choices \cup {c}, whole |-> TRUE]

ChoiceInv ==
    /\ at \in [ChoiceCards -> Inside \cup {"new", "measures", "known"}]
    /\ DOMAIN seen = ChoiceCards
    /\ ~unguarded => OneInside /\ CopyIsCurrent /\ readable /\ kept \subseteq choices

LEMMA ChoiceStarts == ChoiceInit => ChoiceInv
  BY DEF ChoiceInit, ChoiceInv, OneInside, CopyIsCurrent, Inside

LEMMA ChoiceKeeps == ChoiceInv /\ [ChoiceNext]_choiceVars => ChoiceInv'
<1> SUFFICES ASSUME ChoiceInv, [ChoiceNext]_choiceVars PROVE ChoiceInv'
  OBVIOUS
<1> USE DEF ChoiceInv
<1> USE DEF fileVars
<1>1. ASSUME NEW c \in ChoiceCards, NEW fails \in BOOLEAN, Recall(c, fails) PROVE ChoiceInv'
  BY <1>1 DEF Recall, OneInside, CopyIsCurrent, Inside
<1>2. ASSUME NEW c \in ChoiceCards, Lock(c) PROVE ChoiceInv'
  <2>1. /\ at' = [at EXCEPT ![c] = "locked"]
        /\ UNCHANGED <<choices, readable, spare, seen, kept>>
        /\ at' \in [ChoiceCards -> Inside \cup {"new", "measures", "known"}]
    BY <1>2 DEF Lock, Inside
  <2>2. ASSUME ~unguarded' PROVE ~unguarded /\ \A d \in ChoiceCards : d # c => at[d] \notin Inside
    BY <1>2, <2>2 DEF Lock, LockIsFree, Siblings
  <2>3. ASSUME ~unguarded' PROVE OneInside'
    BY <2>1, <2>2, <2>3 DEF OneInside
  <2>4. ASSUME ~unguarded' PROVE CopyIsCurrent'
    BY <2>1, <2>2, <2>4 DEF CopyIsCurrent, Inside
  <2> QED
    BY <2>1, <2>2, <2>3, <2>4
<1>3. ASSUME NEW c \in ChoiceCards, NEW fails \in BOOLEAN, Reads(c, fails) PROVE ChoiceInv'
  <2>1. /\ at[c] = "locked" /\ at' = [at EXCEPT ![c] = "read"]
        /\ seen' = [seen EXCEPT ![c] = ReadAll(fails)]
        /\ UNCHANGED <<choices, readable, spare, kept>>
        /\ ~unguarded' => ~unguarded /\ ReadAll(fails) = ReadAll(FALSE)
    BY <1>3 DEF Reads
  <2>2. ~unguarded' => ReadAll(fails) = choices
    BY <2>1 DEF ReadAll
  <2>3. at' \in [ChoiceCards -> Inside \cup {"new", "measures", "known"}]
    BY <2>1 DEF Inside
  <2>4. ASSUME ~unguarded' PROVE OneInside'
    BY <2>1, <2>4 DEF OneInside, Inside
  <2>5. ASSUME ~unguarded' PROVE CopyIsCurrent'
    BY <2>1, <2>2, <2>5 DEF CopyIsCurrent
  <2> QED
    BY <2>1, <2>3, <2>4, <2>5
<1>4. ASSUME NEW c \in ChoiceCards, CreatesSpare(c) PROVE ChoiceInv'
  BY <1>4 DEF CreatesSpare, OneInside, CopyIsCurrent, Inside
<1>5. ASSUME NEW c \in ChoiceCards, FillsSpare(c) PROVE ChoiceInv'
  <2>1. /\ at[c] = "created" /\ at' = [at EXCEPT ![c] = "written"]
        /\ spare' = [cards |-> seen[c] \cup {c}, whole |-> TRUE]
        /\ UNCHANGED <<choices, readable, seen, kept, unguarded>>
    BY <1>5 DEF FillsSpare
  <2>2. ~unguarded => \A d \in ChoiceCards : at[d] \in Inside => d = c
    BY <2>1 DEF OneInside, Inside
  <2>3. at' \in [ChoiceCards -> Inside \cup {"new", "measures", "known"}]
    BY <2>1 DEF Inside
  <2>4. ~unguarded' => OneInside'
    BY <2>1, <2>2 DEF OneInside, Inside
  <2>5. ~unguarded' => CopyIsCurrent'
    <3> SUFFICES ASSUME ~unguarded, NEW d \in ChoiceCards
                 PROVE  /\ at'[d] \in {"read", "created", "written"} => seen[d] = choices
                        /\ at'[d] = "written" => spare' = [cards |-> choices \cup {d}, whole |-> TRUE]
      BY <2>1 DEF CopyIsCurrent
    <3>1. seen[c] = choices
      BY <2>1 DEF CopyIsCurrent
    <3>2. CASE d = c
      BY <2>1, <3>1, <3>2
    <3>3. CASE d # c
      <4>1. at'[d] = at[d] /\ at[d] \notin {"read", "created", "written"}
        BY <2>1, <2>2, <3>3 DEF Inside
      <4> QED
        BY <4>1
    <3> QED
      BY <3>2, <3>3
  <2> QED
    BY <2>1, <2>3, <2>4, <2>5
<1>6. ASSUME NEW c \in ChoiceCards, RenamesSpare(c) PROVE ChoiceInv'
  BY <1>6 DEF RenamesSpare, OneInside, CopyIsCurrent, Inside
<1>7. ASSUME NEW c \in ChoiceCards, RememberFails(c) PROVE ChoiceInv'
  BY <1>7 DEF RememberFails, OneInside, CopyIsCurrent, Inside
<1>8. ASSUME NEW p \in Processes, Killed(p) PROVE ChoiceInv'
  BY <1>8 DEF Killed, OneInside, CopyIsCurrent, Inside
<1>9. ASSUME Flushes PROVE ChoiceInv'
  BY <1>9 DEF Flushes, OneInside, CopyIsCurrent
<1>10. ASSUME NEW loses \in BOOLEAN, PowerFails(loses) PROVE ChoiceInv'
  <2>1. ~unguarded' => ~unguarded /\ UNCHANGED <<choices, readable, kept>>
    BY <1>10 DEF PowerFails
  <2>2. at' = [c \in ChoiceCards |-> "new"] /\ DOMAIN seen' = ChoiceCards
    BY <1>10 DEF PowerFails
  <2> QED
    BY <2>1, <2>2 DEF OneInside, CopyIsCurrent, Inside
<1>11. CASE UNCHANGED choiceVars
  BY <1>11 DEF choiceVars, OneInside, CopyIsCurrent
<1> QED
  BY <1>1, <1>2, <1>3, <1>4, <1>5, <1>6, <1>7, <1>8, <1>9, <1>10, <1>11 DEF ChoiceNext

(***************************************************************************)
(* remember_in loses no choice and leaves no half a file, for any number   *)
(* of miners, cards, kills, power failures and failing reads, until what   *)
(* it does not guard against happens: two miners in it at once, its own    *)
(* read failing with choices in the file, or power lost before the system  *)
(* flushed the file.  The thread that renames the temporary file has the   *)
(* lock since it read the file, and a killed miner leaves the file alone.  *)
(***************************************************************************)
THEOREM NoChoiceIsLost == ChoiceSpec => []ChoicesAreKept
<1>1. ChoiceInv => ChoicesAreKept
  BY DEF ChoiceInv, ChoicesAreKept
<1> QED
  BY <1>1, ChoiceStarts, ChoiceKeeps, PTL DEF ChoiceSpec

-----------------------------------------------------------------------------
(***************************************************************************)
(* What the user is told.                                                  *)
(***************************************************************************)
Talks(t) == says[t] \in {"due", "looked", "printed"}

\* A change that has still to be said: capability_changed is under way, or
\* gpu_opened, and will announce.
Unsaid ==
    \/ currentPow = "bc3" /\ \E t \in Speakers : says[t] = "checks"
    \/ ~GpusTake(currentPow) /\ \E g \in FeedGpus : opening[g] = "counted"

FeedFunctions ==
    /\ says \in [Speakers -> {"no", "checks", "due", "looked", "printed"}]
    /\ DOMAIN about = Speakers /\ DOMAIN word = Speakers
    /\ opening \in [FeedGpus -> {"open", "claimed", "counted", "runs"}]
    /\ currentPow \in {"none", "bc3", "other"} /\ talkedOver \in BOOLEAN

\* A worker that opens its card, or has counted itself, is not in an announcement.
WorkersInTurn == \A g \in FeedGpus : opening[g] \in {"open", "counted"} => says[g] = "no"

OneVoice ==
    ~talkedOver =>
        /\ \A t, u \in Speakers : Talks(t) /\ Talks(u) => t = u
        /\ \A t \in Speakers : Talks(t) => about[t] = currentPow /\ currentPow # "none"

\* Unless a change is still to be said, what was read, and what was shown, holds.
NothingStale ==
    ~talkedOver /\ currentPow # "none" /\ ~Unsaid =>
        /\ (\A t \in Speakers : ~Talks(t)) =>
              /\ shownStatus = <<currentPow, FeedStatus(currentPow)>>
              /\ shownPow = <<currentPow, Label(currentPow)>>
        /\ \A t \in Speakers :
              /\ says[t] \in {"looked", "printed"} => word[t] = FeedStatus(currentPow)
              /\ says[t] = "printed" => shownPow = <<currentPow, Label(currentPow)>>

FeedInv == FeedFunctions /\ WorkersInTurn /\ OneVoice /\ NothingStale

LEMMA FeedStarts == FeedInit => FeedInv
<1> SUFFICES ASSUME FeedInit PROVE FeedInv
  OBVIOUS
<1>1. /\ says = [t \in Speakers |-> "no"] /\ about = [t \in Speakers |-> "none"]
      /\ word = [t \in Speakers |-> "none"] /\ opening = [g \in FeedGpus |-> "open"]
      /\ currentPow = "none" /\ talkedOver = FALSE
  BY DEF FeedInit
<1>2. FeedFunctions
  BY <1>1 DEF FeedFunctions
<1>3. WorkersInTurn
  BY <1>1 DEF WorkersInTurn, Speakers
<1>4. OneVoice /\ NothingStale
  BY <1>1 DEF OneVoice, NothingStale, Talks
<1> QED
  BY <1>2, <1>3, <1>4 DEF FeedInv

\* The status depends on the plan, the claims, the stall marks and the count ...
LEMMA SameStatus ==
    ASSUME UNCHANGED <<planVars, feedClaims, aside, gpusOpened>>, NEW algo
    PROVE  GpusTake(algo)' = GpusTake(algo) /\ Label(algo)' = Label(algo) /\ FeedStatus(algo)' = FeedStatus(algo)
<1>1. UNCHANGED <<cpuThreads, standIns, gpuKernel, reference>>
  BY DEF planVars
<1> QED
  BY <1>1 DEF GpusTake, Label, FeedStatus, CpuTakes, CpuMayHash, PlanStatus, GpusStarting

\* ... on the count only while the cards do not take the jobs ...
LEMMA SameStatusWhenTaken ==
    ASSUME UNCHANGED <<planVars, feedClaims, aside>>, NEW algo, GpusTake(algo)
    PROVE  GpusTake(algo)' /\ Label(algo)' = Label(algo) /\ FeedStatus(algo)' = FeedStatus(algo)
<1>1. UNCHANGED <<cpuThreads, standIns, gpuKernel, reference>>
  BY DEF planVars
<1> QED
  BY <1>1 DEF GpusTake, Label, FeedStatus, CpuTakes, CpuMayHash, PlanStatus

\* ... and for a proof of work without a kernel on the plan alone.
LEMMA SameStatusOfOther ==
    ASSUME UNCHANGED planVars
    PROVE  /\ ~GpusTake("other") /\ ~GpusTake("other")'
           /\ Label("other")' = Label("other") /\ FeedStatus("other")' = FeedStatus("other")
<1>1. UNCHANGED <<cpuThreads, standIns, gpuKernel, reference>>
  BY DEF planVars
<1> QED
  BY <1>1 DEF GpusTake, Label, FeedStatus, CpuTakes, CpuMayHash, PlanStatus

\* A thread that begins to announce what the jobs are now.
LEMMA SpeaksKeeps ==
    ASSUME FeedFunctions, NEW t \in Speakers, ~Talks(t), OneVoice, WorkersInTurn,
           NEW algo \in {"bc3", "other"}, Speaks(t, algo), currentPow' = algo,
           opening' \in [FeedGpus -> {"open", "claimed", "counted", "runs"}],
           \A g \in FeedGpus : opening'[g] \in {"open", "counted"} => opening[g] = opening'[g] /\ g # t,
           UNCHANGED <<word, shownPow, shownStatus>>
    PROVE  FeedInv'
<1>1. /\ says' = [says EXCEPT ![t] = "due"] /\ about' = [about EXCEPT ![t] = algo]
      /\ talkedOver' = (\E u \in Speakers \ {t} : Talks(u))
  BY DEF Speaks, Talks
<1>2. talkedOver' \in BOOLEAN
  BY <1>1
<1>3. FeedFunctions'
  BY <1>1, <1>2 DEF FeedFunctions
<1>4. WorkersInTurn'
  BY <1>1 DEF WorkersInTurn, FeedFunctions
<1>5. ASSUME ~talkedOver' PROVE \A u \in Speakers : (Talks(u))' => u = t
  BY <1>1, <1>5 DEF Talks, FeedFunctions
<1>6. says'[t] = "due" /\ about'[t] = algo
  BY <1>1 DEF FeedFunctions
<1>7. OneVoice'
  BY <1>5, <1>6 DEF OneVoice
<1>8. NothingStale'
  BY <1>5, <1>6 DEF NothingStale, Talks
<1> QED
  BY <1>3, <1>4, <1>7, <1>8 DEF FeedInv

\* A change of a claim or of a mark, which capability_changed is to tell.
LEMMA ChangesKeeps ==
    ASSUME FeedInv, NEW t \in Speakers, says[t] = "no", Changes(t), UNCHANGED <<planVars, currentPow, word, shownPow, shownStatus>>,
           opening' \in [FeedGpus -> {"open", "claimed", "counted", "runs"}],
           \A g \in FeedGpus : opening'[g] \in {"open", "counted"} => opening[g] = opening'[g] /\ g # t,
           currentPow = "other" => \A g \in FeedGpus : opening[g] = "counted" => opening'[g] = "counted"
    PROVE  FeedInv'
<1>1. says' = [says EXCEPT ![t] = "checks"] /\ UNCHANGED <<about, talkedOver>>
  BY DEF Changes
<1>2. FeedFunctions'
  BY <1>1 DEF FeedInv, FeedFunctions
<1>3. WorkersInTurn'
  BY <1>1 DEF FeedInv, WorkersInTurn, FeedFunctions
<1>4. says'[t] = "checks" /\ \A u \in Speakers : u # t => says'[u] = says[u]
  BY <1>1 DEF FeedInv, FeedFunctions
<1>5. \A u \in Speakers : /\ (Talks(u))' <=> Talks(u)
                          /\ says'[u] \in {"looked", "printed"} => says[u] = says'[u]
  BY <1>4 DEF Talks
<1>6. OneVoice'
  BY <1>1, <1>5 DEF FeedInv, OneVoice
<1>7. NothingStale'
  <2>1. CASE currentPow = "bc3"
    BY <1>4, <2>1 DEF NothingStale, Unsaid
  <2>2. CASE currentPow = "other"
    BY <1>1, <1>5, <2>2, SameStatusOfOther DEF FeedInv, NothingStale, Unsaid
  <2> QED
    BY <2>1, <2>2 DEF FeedInv, FeedFunctions, NothingStale
<1> QED
  BY <1>2, <1>3, <1>6, <1>7 DEF FeedInv

\* A step of an announcement: nothing of what it tells of changes.
LEMMA AnnounceKeeps ==
    ASSUME FeedInv, NEW t \in Speakers, Talks(t), NEW next \in {"looked", "printed", "no"},
           says' = [says EXCEPT ![t] = next], next # "no" => UNCHANGED about,
           DOMAIN about' = Speakers, DOMAIN word' = Speakers,
           UNCHANGED <<planVars, currentPow, feedClaims, aside, gpusOpened, opening, talkedOver>>,
           next # "no" => \/ says[t] = "due" /\ next = "looked" /\ word' = [word EXCEPT ![t] = FeedStatus(about[t])]
                          \/ says[t] = "looked" /\ next = "printed" /\ UNCHANGED word,
           next = "printed" => shownPow' = <<about[t], Label(about[t])>>,
           next # "printed" => UNCHANGED shownPow,
           next = "no" => says[t] = "printed" /\ shownStatus' = <<about[t], word[t]>>
    PROVE  FeedInv'
<1>1. says'[t] = next /\ \A u \in Speakers : u # t => says'[u] = says[u]
  BY DEF FeedInv, FeedFunctions
<1>2. FeedFunctions'
  BY DEF FeedInv, FeedFunctions
<1>3. WorkersInTurn'
  <2>1. \A g \in FeedGpus : says[g] = "no" => g \in Speakers /\ g # t
    BY DEF Talks, Speakers
  <2> QED
    BY <1>1, <2>1 DEF FeedInv, WorkersInTurn
<1>4. \A u \in Speakers : (Talks(u))' => Talks(u) /\ (u = t => next # "no")
  BY <1>1 DEF Talks
<1>5. OneVoice'
  <2>1. ASSUME ~talkedOver' PROVE \A u \in Speakers : (Talks(u))' => about'[u] = currentPow' /\ currentPow' # "none" /\ u = t
    BY <1>4, <2>1 DEF FeedInv, OneVoice
  <2> QED
    BY <2>1 DEF OneVoice
<1>6. NothingStale'
  <2> SUFFICES ASSUME ~talkedOver, currentPow # "none", ~Unsaid'
               PROVE  /\ (\A u \in Speakers : ~(Talks(u))') =>
                            /\ shownStatus' = <<currentPow, FeedStatus(currentPow)'>>
                            /\ shownPow' = <<currentPow, Label(currentPow)'>>
                      /\ \A u \in Speakers :
                            /\ says'[u] \in {"looked", "printed"} => word'[u] = FeedStatus(currentPow)'
                            /\ says'[u] = "printed" => shownPow' = <<currentPow, Label(currentPow)'>>
    BY DEF NothingStale
  <2>1. /\ GpusTake(currentPow)' = GpusTake(currentPow) /\ Label(currentPow)' = Label(currentPow)
        /\ FeedStatus(currentPow)' = FeedStatus(currentPow)
    BY SameStatus
  <2>2. ~Unsaid
    <3>1. \A u \in Speakers : says[u] = "checks" => says'[u] = "checks"
      BY <1>1 DEF Talks
    <3> QED
      BY <2>1, <3>1 DEF Unsaid
  <2>3. about[t] = currentPow /\ \A u \in Speakers : Talks(u) => u = t
    BY DEF FeedInv, OneVoice
  <2>4. /\ says[t] \in {"looked", "printed"} => word[t] = FeedStatus(currentPow)
        /\ says[t] = "printed" => shownPow = <<currentPow, Label(currentPow)>>
    BY <2>2 DEF FeedInv, NothingStale
  <2>5. CASE next = "no"
    <3>1. \A u \in Speakers : says'[u] \notin {"looked", "printed"}
      BY <1>4, <2>3, <2>5 DEF Talks
    <3>2. /\ shownStatus' = <<currentPow, FeedStatus(currentPow)>>
          /\ shownPow' = <<currentPow, Label(currentPow)>>
      BY <2>3, <2>4, <2>5
    <3> QED
      BY <2>1, <3>1, <3>2
  <2>6. CASE next = "looked"
    <3>1. (Talks(t))' /\ word'[t] = FeedStatus(currentPow)
      BY <1>1, <2>3, <2>4, <2>6 DEF Talks, FeedInv, FeedFunctions
    <3>2. \A u \in Speakers : says'[u] \in {"looked", "printed"} => u = t /\ says'[u] = "looked"
      BY <1>1, <1>4, <2>3, <2>6 DEF Talks
    <3> QED
      BY <2>1, <3>1, <3>2
  <2>7. CASE next = "printed"
    <3>1. (Talks(t))' /\ word'[t] = FeedStatus(currentPow) /\ shownPow' = <<currentPow, Label(currentPow)>>
      BY <1>1, <2>3, <2>4, <2>7 DEF Talks
    <3>2. \A u \in Speakers : says'[u] \in {"looked", "printed"} => u = t
      BY <1>1, <1>4, <2>3 DEF Talks
    <3> QED
      BY <2>1, <3>1, <3>2
  <2> QED
    BY <2>5, <2>6, <2>7
<1> QED
  BY <1>2, <1>3, <1>5, <1>6 DEF FeedInv

\* A step that says nothing and changes nothing that is told.
LEMMA SilentKeeps ==
    ASSUME FeedInv, FeedFunctions', WorkersInTurn', UNCHANGED <<planVars, currentPow, about, word, shownPow, shownStatus, talkedOver>>,
           \A t \in Speakers : says'[t] = says[t] \/ (says[t] = "checks" /\ says'[t] = "no" /\ currentPow # "bc3"),
           currentPow # "none" /\ ~Unsaid' =>
              /\ \A g \in FeedGpus : opening[g] = "counted" => opening'[g] = "counted" \/ GpusTake(currentPow)
              /\ GpusTake(currentPow)' = GpusTake(currentPow)
              /\ Label(currentPow)' = Label(currentPow) /\ FeedStatus(currentPow)' = FeedStatus(currentPow)
    PROVE  FeedInv'
<1>1. \A t \in Speakers : /\ (Talks(t))' <=> Talks(t)
                          /\ says'[t] \in {"looked", "printed"} => says[t] = says'[t]
  BY DEF Talks
<1>2. OneVoice'
  BY <1>1 DEF FeedInv, OneVoice
<1>3. ASSUME currentPow # "none", ~Unsaid' PROVE ~Unsaid
  BY <1>3 DEF Unsaid
<1>4. NothingStale'
  BY <1>1, <1>3 DEF FeedInv, NothingStale
<1> QED
  BY <1>2, <1>4 DEF FeedInv

LEMMA FeedKeeps == FeedInv /\ [FeedNext]_feedVars => FeedInv'
<1> SUFFICES ASSUME FeedInv, [FeedNext]_feedVars PROVE FeedInv'
  OBVIOUS
<1>0. /\ FeedFunctions /\ WorkersInTurn /\ OneVoice /\ NothingStale
      /\ "stratum" \in Speakers /\ "guard" \in Speakers /\ "stratum" \notin FeedGpus /\ "guard" \notin FeedGpus
      /\ \A g \in FeedGpus : g \in Speakers
  BY FeedAssumption DEF FeedInv, Speakers
<1>1. ASSUME NEW t \in Speakers, Looks(t) PROVE FeedInv'
  <2>1. says[t] = "due" /\ DOMAIN word' = Speakers /\ DOMAIN about' = Speakers
    BY <1>0, <1>1 DEF Looks, FeedFunctions
  <2> QED
    BY <1>1, <2>1, AnnounceKeeps DEF Looks, Talks
<1>2. ASSUME NEW t \in Speakers, EmitsPow(t) PROVE FeedInv'
  <2>1. says[t] = "looked" /\ DOMAIN word' = Speakers /\ DOMAIN about' = Speakers
    BY <1>0, <1>2 DEF EmitsPow, FeedFunctions
  <2> QED
    BY <1>2, <2>1, AnnounceKeeps DEF EmitsPow, Talks
<1>3. ASSUME NEW t \in Speakers, EmitsStatus(t) PROVE FeedInv'
  <2>1. says[t] = "printed" /\ DOMAIN word' = Speakers /\ DOMAIN about' = Speakers
    BY <1>0, <1>3 DEF EmitsStatus, FeedFunctions
  <2> QED
    BY <1>3, <2>1, AnnounceKeeps DEF EmitsStatus, Talks
<1>4. ASSUME NEW algo \in {"bc3", "other"}, PowMoves(algo) PROVE FeedInv'
  <2>1. \A g \in FeedGpus : g # "stratum"
    BY <1>0
  <2>2. says["stratum"] = "no" /\ currentPow' = algo /\ Speaks("stratum", algo) /\ UNCHANGED <<opening, word, shownPow, shownStatus>>
    BY <1>4 DEF PowMoves
  <2>3. opening' \in [FeedGpus -> {"open", "claimed", "counted", "runs"}]
    BY <1>0, <2>2 DEF FeedFunctions
  <2> QED
    BY <1>0, <2>1, <2>2, <2>3, SpeaksKeeps DEF Talks
<1>5. ASSUME NEW t \in Speakers, Checks(t) PROVE FeedInv'
  <2>1. /\ says[t] = "checks" /\ CapabilityChanged(t)
        /\ UNCHANGED <<planVars, currentPow, feedClaims, aside, gpusOpened, opening, word, shownPow, shownStatus>>
    BY <1>5 DEF Checks
  <2>2. opening' \in [FeedGpus -> {"open", "claimed", "counted", "runs"}]
    BY <1>0, <2>1 DEF FeedFunctions
  <2>3. \A g \in FeedGpus : opening'[g] \in {"open", "counted"} => g # t
    BY <1>0, <2>1 DEF WorkersInTurn
  <2>4. CASE currentPow = "bc3"
    BY <1>0, <2>1, <2>2, <2>3, <2>4, SpeaksKeeps DEF CapabilityChanged, Talks
  <2>5. CASE currentPow # "bc3"
    <3>1. says' = [says EXCEPT ![t] = "no"] /\ UNCHANGED <<about, talkedOver>>
      BY <2>1, <2>5 DEF CapabilityChanged
    <3>2. FeedFunctions' /\ WorkersInTurn'
      BY <1>0, <2>1, <3>1 DEF FeedFunctions, WorkersInTurn
    <3>3. \A u \in Speakers : says'[u] = says[u] \/ (says[u] = "checks" /\ says'[u] = "no" /\ currentPow # "bc3")
      BY <1>0, <2>1, <2>5, <3>1 DEF FeedFunctions
    <3>4. /\ GpusTake(currentPow)' = GpusTake(currentPow)
          /\ Label(currentPow)' = Label(currentPow) /\ FeedStatus(currentPow)' = FeedStatus(currentPow)
      BY <2>1, SameStatus
    <3> QED
      BY <2>1, <3>1, <3>2, <3>3, <3>4, SilentKeeps
  <2> QED
    BY <2>4, <2>5
<1>6. ASSUME NEW g \in FeedGpus, CardOpens(g) PROVE FeedInv'
  <2>1. /\ opening[g] = "open" /\ opening' = [opening EXCEPT ![g] = "claimed"]
        /\ UNCHANGED <<planVars, currentPow, aside, gpusOpened, word, shownPow, shownStatus>>
    BY <1>6 DEF CardOpens
  <2>2. /\ opening' \in [FeedGpus -> {"open", "claimed", "counted", "runs"}] /\ says[g] = "no"
        /\ \A h \in FeedGpus : opening'[h] \in {"open", "counted"} => opening[h] = opening'[h] /\ h # g
        /\ \A h \in FeedGpus : opening[h] = "counted" => opening'[h] = "counted"
    BY <1>0, <2>1 DEF FeedFunctions, WorkersInTurn
  <2>3. CASE Changes(g)
    BY <1>0, <2>1, <2>2, <2>3, ChangesKeeps
  <2>4. CASE Silent /\ UNCHANGED feedClaims
    <3>1. FeedFunctions' /\ WorkersInTurn'
      BY <1>0, <2>1, <2>2, <2>4 DEF FeedFunctions, WorkersInTurn, Silent
    <3>2. /\ GpusTake(currentPow)' = GpusTake(currentPow)
          /\ Label(currentPow)' = Label(currentPow) /\ FeedStatus(currentPow)' = FeedStatus(currentPow)
      BY <2>1, <2>4, SameStatus
    <3> QED
      BY <2>1, <2>2, <2>4, <3>1, <3>2, SilentKeeps DEF Silent
  <2> QED
    BY <1>6, <2>3, <2>4 DEF CardOpens
<1>7. ASSUME NEW g \in FeedGpus, Counts(g) PROVE FeedInv'
  <2>1. /\ opening[g] = "claimed" /\ says[g] = "no" /\ opening' = [opening EXCEPT ![g] = "counted"]
        /\ UNCHANGED <<planVars, currentPow, feedClaims, aside, says, about, word, shownPow, shownStatus, talkedOver>>
    BY <1>7 DEF Counts
  <2>2. FeedFunctions' /\ WorkersInTurn'
    BY <1>0, <2>1 DEF FeedFunctions, WorkersInTurn
  <2>3. opening'[g] = "counted" /\ \A h \in FeedGpus : opening[h] = "counted" => opening'[h] = "counted"
    BY <1>0, <2>1 DEF FeedFunctions
  <2>4. GpusTake(currentPow)' = GpusTake(currentPow)
    BY <2>1 DEF GpusTake
  <2>5. ASSUME ~Unsaid' PROVE Label(currentPow)' = Label(currentPow) /\ FeedStatus(currentPow)' = FeedStatus(currentPow)
    <3>1. GpusTake(currentPow)
      BY <2>1, <2>3, <2>4, <2>5 DEF Unsaid
    <3> QED
      BY <2>1, <3>1, SameStatusWhenTaken
  <2> QED
    BY <2>1, <2>2, <2>3, <2>4, <2>5, SilentKeeps
<1>8. ASSUME NEW g \in FeedGpus, Tells(g) PROVE FeedInv'
  <2>1. /\ opening[g] = "counted" /\ says[g] = "no" /\ opening' = [opening EXCEPT ![g] = "runs"] /\ TellsIfIdle(g)
        /\ UNCHANGED <<planVars, currentPow, feedClaims, aside, gpusOpened, word, shownPow, shownStatus>>
    BY <1>0, <1>8 DEF Tells, WorkersInTurn
  <2>2. /\ opening' \in [FeedGpus -> {"open", "claimed", "counted", "runs"}]
        /\ \A h \in FeedGpus : opening'[h] \in {"open", "counted"} => opening[h] = opening'[h] /\ h # g
        /\ \A h \in FeedGpus : opening[h] = "counted" => opening'[h] = "counted" \/ h = g
    BY <1>0, <2>1 DEF FeedFunctions
  <2>3. CASE currentPow # "none" /\ ~GpusTake(currentPow)
    <3>1. Speaks(g, currentPow) /\ currentPow \in {"bc3", "other"}
      BY <1>0, <2>1, <2>3 DEF TellsIfIdle, FeedFunctions
    <3> QED
      BY <1>0, <2>1, <2>2, <3>1, SpeaksKeeps DEF Talks
  <2>4. CASE ~(currentPow # "none" /\ ~GpusTake(currentPow))
    <3>1. UNCHANGED <<says, about, talkedOver>>
      BY <2>1, <2>4 DEF TellsIfIdle, Silent
    <3>2. FeedFunctions' /\ WorkersInTurn'
      BY <1>0, <2>1, <2>2, <3>1 DEF FeedFunctions, WorkersInTurn
    <3>3. /\ GpusTake(currentPow)' = GpusTake(currentPow)
          /\ Label(currentPow)' = Label(currentPow) /\ FeedStatus(currentPow)' = FeedStatus(currentPow)
      BY <2>1, SameStatus
    <3> QED
      BY <2>1, <2>2, <2>4, <3>1, <3>2, <3>3, SilentKeeps
  <2> QED
    BY <2>3, <2>4
<1>9. ASSUME NEW g \in FeedGpus, ClaimMoves(g) PROVE FeedInv'
  <2>1. /\ opening[g] = "runs" /\ says[g] = "no" /\ Changes(g)
        /\ UNCHANGED <<planVars, currentPow, opening, word, shownPow, shownStatus>>
    BY <1>9 DEF ClaimMoves
  <2>2. opening' \in [FeedGpus -> {"open", "claimed", "counted", "runs"}]
    BY <1>0, <2>1 DEF FeedFunctions
  <2> QED
    BY <1>0, <2>1, <2>2, ChangesKeeps
<1>10. ASSUME NEW g \in FeedGpus, StallMoves(g) PROVE FeedInv'
  <2>1. /\ says["guard"] = "no" /\ Changes("guard")
        /\ UNCHANGED <<planVars, currentPow, opening, word, shownPow, shownStatus>>
    BY <1>10 DEF StallMoves
  <2>2. opening' \in [FeedGpus -> {"open", "claimed", "counted", "runs"}] /\ \A h \in FeedGpus : h # "guard"
    BY <1>0, <2>1 DEF FeedFunctions
  <2> QED
    BY <1>0, <2>1, <2>2, ChangesKeeps
<1>11. CASE UNCHANGED feedVars
  <2>1. /\ UNCHANGED <<planVars, currentPow, feedClaims, aside, gpusOpened, opening>>
        /\ UNCHANGED <<says, about, word, shownPow, shownStatus, talkedOver>>
    BY <1>11 DEF feedVars
  <2>2. FeedFunctions' /\ WorkersInTurn'
    BY <1>0, <2>1 DEF FeedFunctions, WorkersInTurn
  <2>3. /\ GpusTake(currentPow)' = GpusTake(currentPow)
        /\ Label(currentPow)' = Label(currentPow) /\ FeedStatus(currentPow)' = FeedStatus(currentPow)
    BY <2>1, SameStatus
  <2> QED
    BY <2>1, <2>2, <2>3, SilentKeeps
<1> QED
  BY <1>1, <1>2, <1>3, <1>4, <1>5, <1>6, <1>7, <1>8, <1>9, <1>10, <1>11 DEF FeedNext

(***************************************************************************)
(* No change goes unsaid (announce, capability_changed, gpu_opened,        *)
(* note_pow), for any number of GPU workers: while the announcements come  *)
(* one by one, whatever changes after one of them has read the state leads *)
(* to another one, so that the window's last word is true.                 *)
(***************************************************************************)
THEOREM TheLastWordIsTrue == FeedSpec => []LastWordIsTrue
<1>1. FeedInv => LastWordIsTrue
  <2> SUFFICES ASSUME FeedInv, FeedQuiet, currentPow # "none", ~talkedOver
               PROVE  /\ shownStatus = <<currentPow, FeedStatus(currentPow)>>
                      /\ shownPow = <<currentPow, Label(currentPow)>>
    BY DEF LastWordIsTrue
  <2>1. ~Unsaid /\ \A t \in Speakers : ~Talks(t)
    BY DEF FeedQuiet, Unsaid, Talks
  <2> QED
    BY <2>1 DEF FeedInv, NothingStale
<1> QED
  BY <1>1, FeedStarts, FeedKeeps, PTL DEF FeedSpec

-----------------------------------------------------------------------------
(***************************************************************************)
(* The queue of a device.                                                  *)
(***************************************************************************)

\* What is still to be queued of a launch: the rest of enqueue's commands.
Lists ==
    {<<"header", "target", "zero", "kernel", "read", "submit">>, <<"target", "zero", "kernel", "read", "submit">>,
     <<"header", "zero", "kernel", "read", "submit">>, <<"zero", "kernel", "read", "submit">>,
     <<"kernel", "read", "submit">>, <<"read", "submit">>, <<"submit">>}

Ops(list) == {list[k] : k \in DOMAIN list}

Order(op) ==
    CASE op = "header" -> 1 [] op = "target" -> 2 [] op = "zero" -> 3
      [] op = "kernel" -> 4 [] op = "read" -> 5 [] op = "submit" -> 6 [] OTHER -> 7

Tagged == [header : Headers, target : Targets, start : Starts, window : Windows]
Known == [header : Maybe(Headers), target : Maybe(Targets)]
AnyHits == {Junk} \cup [header : Maybe(Headers) \cup {Junk}, target : Maybe(Targets) \cup {Junk},
                        start : Starts, window : Maybe(Windows)]
Buffers == [header : Maybe(Headers) \cup {Junk}, target : Maybe(Targets) \cup {Junk}, hits : SUBSET AnyHits]

CommandSet ==
    [slot : Slots, op : {"header"}, value : Headers] \cup [slot : Slots, op : {"target"}, value : Targets]
    \cup [slot : Slots, op : {"kernel"}, value : Starts, window : Maybe(Windows)]
    \cup [slot : Slots, op : {"zero", "read"}] \cup [slot : {Depth}, op : {"batch"}]

\* The host's side and the device's.
HostTypes ==
    /\ api \in {"opencl", "cuda"} /\ bc3 \in Maybe(Windows) /\ want \in Maybe(Windows)
    /\ cache \in [Slots -> Known] /\ host \in [Slots -> Known]
    /\ nextSlot \in Slots
    /\ call \in {"ready", "queueing", "error", "load", "tables", "batch", "closed"}
    /\ call = "queueing" => launch \in Launches /\ todo \in Lists /\ bc3 # None /\ Len(queued) < Depth

DeviceTypes ==
    /\ pending \in Seq(CommandSet)
    /\ buf \in [Slots -> Buffers] /\ back \in [Slots -> SUBSET AnyHits]
    /\ faulted \subseteq Slots

\* The launches in flight are in the slots before the next one, in turn.
Ring ==
    /\ queued \in Seq(Slots) /\ Len(queued) <= Depth
    /\ inflight \in Seq(Tagged) /\ Len(inflight) = Len(queued)
    /\ \A k \in 1 .. Len(queued) :
          queued[k] = LET ago == Len(queued) + 1 - k
                      IN  IF nextSlot >= ago THEN nextSlot - ago ELSE nextSlot - ago + Depth

InUse(i) == \E m \in 1 .. Len(queued) : queued[m] = i
Current(i) == call = "queueing" /\ i = nextSlot

\* Whatever is pending is of a launch in flight, of the one being queued or of
\* one that failed, and nothing of it before what it needs.
Owned ==
    /\ \A k \in 1 .. Len(pending) :
          pending[k].op # "batch" => InUse(pending[k].slot) \/ Current(pending[k].slot) \/ call = "error"
    /\ call \in {"load", "tables", "batch"} => queued = <<>>
    /\ call = "closed" \/ lost => pending = <<>>

InOrder(p) == \A j, k \in 1 .. Len(p) : j < k /\ p[j].slot = p[k].slot /\ p[j].slot \in Slots => Order(p[j].op) < Order(p[k].op)

Sequenced ==
    /\ InOrder(pending)
    /\ \A k \in 1 .. Len(pending) : Current(pending[k].slot) => Order(pending[k].op) < Order(Head(todo))

\* Of a launch l in slot i, with `rest' still to be queued: what its buffer b
\* holds, and what was read back, for the commands that have been executed.
Has(p, i, op) == \E k \in 1 .. Len(p) : p[k].slot = i /\ p[k].op = op
Due(p, i, op, rest) == Has(p, i, op) \/ op \in rest

LaunchOK(p, i, b, hits, l, rest) ==
    /\ \A k \in 1 .. Len(p) : p[k].slot = i =>
          /\ p[k].op \in Inputs => p[k].value = l[p[k].op]
          /\ p[k].op = "kernel" => p[k].value = l.start /\ p[k].window = l.window
    /\ \A f \in Inputs : Due(p, i, f, rest) \/ b[f] = l[f]
    /\ Due(p, i, "zero", rest) => Due(p, i, "kernel", rest)
    /\ Due(p, i, "kernel", rest) => Due(p, i, "read", rest)
    /\ Due(p, i, "kernel", rest) /\ ~Due(p, i, "zero", rest) => b.hits = {}
    /\ Due(p, i, "read", rest) /\ ~Due(p, i, "kernel", rest) => b.hits = {l}
    /\ ~Due(p, i, "read", rest) => hits = {l}

ThisLaunch == [header |-> launch.header, target |-> launch.target, start |-> launch.start, window |-> bc3]

LaunchesOK ==
    ~lost =>
        /\ \A m \in 1 .. Len(queued) : queued[m] \notin faulted =>
              LaunchOK(pending, queued[m], buf[queued[m]], back[queued[m]], inflight[m], {})
        /\ call = "queueing" /\ nextSlot \notin faulted =>
              LaunchOK(pending, nextSlot, buf[nextSlot], back[nextSlot], ThisLaunch, Ops(todo))

\* What the backend thinks a slot holds is what it holds, or what it will when
\* its launch is done.
CacheIsTrue ==
    /\ \A m \in 1 .. Len(queued), f \in Inputs : cache[queued[m]][f] = inflight[m][f]
    /\ call = "queueing" => \A f \in Inputs : f \in Ops(todo) \/ cache[nextSlot][f] = launch[f]
    /\ ~lost /\ call \notin {"error", "closed"} =>
          \A i \in Slots : InUse(i) \/ Current(i) \/
              (i \notin faulted /\ \A f \in Inputs : cache[i][f] = None \/ buf[i][f] = cache[i][f])

QueueInv ==
    /\ HostTypes /\ DeviceTypes /\ Ring /\ Owned /\ Sequenced /\ LaunchesOK /\ CacheIsTrue
    /\ SourceUnchanged /\ NothingUsedAfterFree

LEMMA OpsOfLists ==
    /\ Ops(<<"header", "target", "zero", "kernel", "read", "submit">>) = {"header", "target", "zero", "kernel", "read", "submit"}
    /\ Ops(<<"target", "zero", "kernel", "read", "submit">>) = {"target", "zero", "kernel", "read", "submit"}
    /\ Ops(<<"header", "zero", "kernel", "read", "submit">>) = {"header", "zero", "kernel", "read", "submit"}
    /\ Ops(<<"zero", "kernel", "read", "submit">>) = {"zero", "kernel", "read", "submit"}
    /\ Ops(<<"kernel", "read", "submit">>) = {"kernel", "read", "submit"}
    /\ Ops(<<"read", "submit">>) = {"read", "submit"}
    /\ Ops(<<"submit">>) = {"submit"}
<1>1. Ops(<<"header", "target", "zero", "kernel", "read", "submit">>) = {"header", "target", "zero", "kernel", "read", "submit"}
  <2> DEFINE s == <<"header", "target", "zero", "kernel", "read", "submit">>
  <2>1. DOMAIN s = 1 .. 6 /\ s[1] = "header" /\ s[2] = "target" /\ s[3] = "zero" /\ s[4] = "kernel" /\ s[5] = "read" /\ s[6] = "submit"
    OBVIOUS
  <2>2. \A k \in DOMAIN s : k \in {1, 2, 3, 4, 5, 6}
    BY <2>1
  <2> HIDE DEF s
  <2>3. Ops(s) = {"header", "target", "zero", "kernel", "read", "submit"}
    BY <2>1, <2>2 DEF Ops
  <2> QED
    BY <2>3 DEF s
<1>2. Ops(<<"target", "zero", "kernel", "read", "submit">>) = {"target", "zero", "kernel", "read", "submit"}
  <2> DEFINE s == <<"target", "zero", "kernel", "read", "submit">>
  <2>1. DOMAIN s = 1 .. 5 /\ s[1] = "target" /\ s[2] = "zero" /\ s[3] = "kernel" /\ s[4] = "read" /\ s[5] = "submit"
    OBVIOUS
  <2>2. \A k \in DOMAIN s : k \in {1, 2, 3, 4, 5}
    BY <2>1
  <2> HIDE DEF s
  <2>3. Ops(s) = {"target", "zero", "kernel", "read", "submit"}
    BY <2>1, <2>2 DEF Ops
  <2> QED
    BY <2>3 DEF s
<1>3. Ops(<<"header", "zero", "kernel", "read", "submit">>) = {"header", "zero", "kernel", "read", "submit"}
  <2> DEFINE s == <<"header", "zero", "kernel", "read", "submit">>
  <2>1. DOMAIN s = 1 .. 5 /\ s[1] = "header" /\ s[2] = "zero" /\ s[3] = "kernel" /\ s[4] = "read" /\ s[5] = "submit"
    OBVIOUS
  <2>2. \A k \in DOMAIN s : k \in {1, 2, 3, 4, 5}
    BY <2>1
  <2> HIDE DEF s
  <2>3. Ops(s) = {"header", "zero", "kernel", "read", "submit"}
    BY <2>1, <2>2 DEF Ops
  <2> QED
    BY <2>3 DEF s
<1>4. Ops(<<"zero", "kernel", "read", "submit">>) = {"zero", "kernel", "read", "submit"}
  <2> DEFINE s == <<"zero", "kernel", "read", "submit">>
  <2>1. DOMAIN s = 1 .. 4 /\ s[1] = "zero" /\ s[2] = "kernel" /\ s[3] = "read" /\ s[4] = "submit"
    OBVIOUS
  <2>2. \A k \in DOMAIN s : k \in {1, 2, 3, 4}
    BY <2>1
  <2> HIDE DEF s
  <2>3. Ops(s) = {"zero", "kernel", "read", "submit"}
    BY <2>1, <2>2 DEF Ops
  <2> QED
    BY <2>3 DEF s
<1>5. /\ Ops(<<"kernel", "read", "submit">>) = {"kernel", "read", "submit"}
      /\ Ops(<<"read", "submit">>) = {"read", "submit"}
      /\ Ops(<<"submit">>) = {"submit"}
  BY DEF Ops
<1> QED
  BY <1>1, <1>2, <1>3, <1>4, <1>5

LEMMA ListFacts ==
    ASSUME NEW s \in Lists
    PROVE  /\ Head(s) \in Ops(s) /\ Ops(s) \subseteq {"header", "target", "zero", "kernel", "read", "submit"}
           /\ "zero" \in Ops(s) => "kernel" \in Ops(s)
           /\ "kernel" \in Ops(s) => "read" \in Ops(s)
           /\ Head(s) = "submit" => Ops(s) = {"submit"}
           /\ Head(s) # "submit" =>
                 /\ Tail(s) \in Lists /\ Ops(Tail(s)) = Ops(s) \ {Head(s)}
                 /\ Order(Head(s)) < Order(Head(Tail(s)))
           /\ \A o \in Ops(s) : Order(Head(s)) <= Order(o)
<1>1. CASE s = <<"header", "target", "zero", "kernel", "read", "submit">>
  BY <1>1, OpsOfLists DEF Lists, Order
<1>2. CASE s = <<"target", "zero", "kernel", "read", "submit">>
  BY <1>2, OpsOfLists DEF Lists, Order
<1>3. CASE s = <<"header", "zero", "kernel", "read", "submit">>
  BY <1>3, OpsOfLists DEF Lists, Order
<1>4. CASE s = <<"zero", "kernel", "read", "submit">>
  BY <1>4, OpsOfLists DEF Lists, Order
<1>5. CASE s = <<"kernel", "read", "submit">>
  BY <1>5, OpsOfLists DEF Lists, Order
<1>6. CASE s = <<"read", "submit">>
  BY <1>6, OpsOfLists DEF Lists, Order
<1>7. CASE s = <<"submit">>
  BY <1>7, OpsOfLists DEF Lists, Order
<1> QED
  BY <1>1, <1>2, <1>3, <1>4, <1>5, <1>6, <1>7 DEF Lists

LEMMA OneMore ==
    ASSUME NEW S, NEW u \in Seq(S), Len(u) = 1, NEW s \in Seq(S)
    PROVE  /\ u \o s \in Seq(S) /\ Len(u \o s) = Len(s) + 1 /\ (u \o s)[1] = u[1]
           /\ \A k \in 1 .. Len(s) : (u \o s)[k + 1] = s[k]
<1>1. Len(s) \in Nat
  BY LenProperties
<1>2. /\ u \o s \in Seq(S) /\ Len(u \o s) = Len(u) + Len(s)
      /\ \A i \in 1 .. Len(u) + Len(s) : (u \o s)[i] = IF i <= Len(u) THEN u[i] ELSE s[i - Len(u)]
  BY ConcatProperties
<1>3. ASSUME NEW k \in 1 .. Len(s) PROVE (u \o s)[k + 1] = s[k]
  <2>1. k + 1 \in 1 .. Len(u) + Len(s) /\ ~(k + 1 <= Len(u)) /\ (k + 1) - Len(u) = k
    BY <1>1
  <2> QED
    BY <1>2, <2>1
<1> QED
  BY <1>1, <1>2, <1>3

LEMMA CommandLists ==
    /\ <<"target">> \o <<"zero", "kernel", "read", "submit">> = <<"target", "zero", "kernel", "read", "submit">>
    /\ <<"header">> \o <<"zero", "kernel", "read", "submit">> = <<"header", "zero", "kernel", "read", "submit">>
    /\ (<<"header">> \o <<"target">>) \o <<"zero", "kernel", "read", "submit">>
          = <<"header", "target", "zero", "kernel", "read", "submit">>
<1> DEFINE S == {"header", "target", "zero", "kernel", "read", "submit"}
           four == <<"zero", "kernel", "read", "submit">>
           five == <<"target", "zero", "kernel", "read", "submit">>
           hzero == <<"header", "zero", "kernel", "read", "submit">>
           hdr == <<"header">>
           tgt == <<"target">>
<1>0. /\ four \in Seq(S) /\ Len(four) = 4 /\ four[1] = "zero" /\ four[2] = "kernel" /\ four[3] = "read" /\ four[4] = "submit"
      /\ five \in Seq(S) /\ Len(five) = 5
      /\ five[1] = "target" /\ five[2] = "zero" /\ five[3] = "kernel" /\ five[4] = "read" /\ five[5] = "submit"
      /\ hdr \in Seq(S) /\ tgt \in Seq(S) /\ Len(hdr) = 1 /\ Len(tgt) = 1 /\ hdr[1] = "header" /\ tgt[1] = "target"
      /\ hzero \in Seq(S) /\ Len(hzero) = 5
      /\ hzero[1] = "header" /\ hzero[2] = "zero" /\ hzero[3] = "kernel" /\ hzero[4] = "read" /\ hzero[5] = "submit"
  OBVIOUS
<1> HIDE DEF S, four, five, hzero, hdr, tgt
<1>1. ASSUME NEW u \in {hdr, tgt}, NEW e \in Seq(S), Len(e) = 5, e[1] = u[1], e[2] = "zero", e[3] = "kernel",
             e[4] = "read", e[5] = "submit"
      PROVE  u \o four = e
  <2> DEFINE r == u \o four
  <2>1. /\ r \in Seq(S) /\ Len(r) = Len(four) + 1 /\ r[1] = u[1]
        /\ \A k \in 1 .. Len(four) : r[k + 1] = four[k]
    <3>1. u \in Seq(S) /\ Len(u) = 1 /\ four \in Seq(S)
      BY <1>0
    <3> QED
      BY ONLY <3>1, OneMore
  <2> HIDE DEF r
  <2>2. /\ Len(r) = 5 /\ r[1 + 1] = "zero" /\ r[2 + 1] = "kernel" /\ r[3 + 1] = "read" /\ r[4 + 1] = "submit"
    BY <1>0, <2>1
  <2>3. \A k \in 1 .. Len(r) : k \in {1, 1 + 1, 2 + 1, 3 + 1, 4 + 1}
    BY <2>2
  <2>4. \A k \in 1 .. Len(r) : r[k] = e[k]
    BY <1>1, <2>1, <2>2, <2>3
  <2>5. r = e
    BY <1>1, <2>1, <2>2, <2>4, SeqEqual
  <2> QED
    BY <2>5 DEF r
<1>2. tgt \o four = five
  BY <1>0, <1>1
<1>3. hdr \o four = hzero
  BY <1>0, <1>1
<1>4. (hdr \o tgt) \o four = <<"header", "target", "zero", "kernel", "read", "submit">>
  <2> DEFINE r == hdr \o five
             e == <<"header", "target", "zero", "kernel", "read", "submit">>
  <2>0. /\ e \in Seq(S) /\ Len(e) = 6 /\ e[1] = "header" /\ e[2] = "target" /\ e[3] = "zero" /\ e[4] = "kernel"
        /\ e[5] = "read" /\ e[6] = "submit"
    BY DEF S
  <2> HIDE DEF e
  <2>1. /\ r \in Seq(S) /\ Len(r) = Len(five) + 1 /\ r[1] = "header"
        /\ \A k \in 1 .. Len(five) : r[k + 1] = five[k]
    <3>1. hdr \in Seq(S) /\ Len(hdr) = 1 /\ hdr[1] = "header" /\ five \in Seq(S)
      BY <1>0
    <3> QED
      BY ONLY <3>1, OneMore
  <2>2. r = (hdr \o tgt) \o four
    <3>1. hdr \in Seq(S) /\ tgt \in Seq(S) /\ four \in Seq(S)
      BY <1>0
    <3>2. (hdr \o tgt) \o four = hdr \o (tgt \o four)
      BY ONLY <3>1, ConcatAssociative
    <3> QED
      BY <1>2, <3>2
  <2> HIDE DEF r
  <2>3. /\ Len(r) = 6 /\ r[1 + 1] = "target" /\ r[2 + 1] = "zero" /\ r[3 + 1] = "kernel" /\ r[4 + 1] = "read"
        /\ r[5 + 1] = "submit"
    BY <1>0, <2>1
  <2>4. \A k \in 1 .. Len(r) : k \in {1, 1 + 1, 2 + 1, 3 + 1, 4 + 1, 5 + 1}
    BY <2>3
  <2>5. \A k \in 1 .. Len(r) : r[k] = e[k]
    BY <2>0, <2>1, <2>3, <2>4
  <2>6. r = e
    BY <2>0, <2>1, <2>3, <2>5, SeqEqual
  <2> QED
    BY <2>2, <2>6 DEF e
<1> QED
  BY <1>2, <1>3, <1>4 DEF four, five, hzero, hdr, tgt

\* enqueue copies the inputs that are not in the slot's buffer yet.
LEMMA CommandsFacts ==
    ASSUME NEW i, NEW l
    PROVE  /\ Commands(i, l) \in Lists /\ {"zero", "kernel", "read"} \subseteq Ops(Commands(i, l))
           /\ \A f \in Inputs : f \in Ops(Commands(i, l)) \/ cache[i][f] = l[f]
<1> DEFINE h == Unchanged(i, l, "header")
           t == Unchanged(i, l, "target")
           four == <<"zero", "kernel", "read", "submit">>
           S == {"header", "target", "zero", "kernel", "read", "submit"}
<1>0. /\ <<>> \o <<>> = <<>> /\ <<>> \o four = four /\ <<>> \o <<"target">> = <<"target">>
      /\ <<"header">> \o <<>> = <<"header">>
  <2>1. four \in Seq(S) /\ <<"header">> \in Seq(S) /\ <<"target">> \in Seq(S)
    OBVIOUS
  <2> HIDE DEF S, four
  <2>2. <<>> \in Seq(S)
    BY EmptySeq
  <2> QED
    BY <2>1, <2>2, ConcatEmptySeq
<1>1. CASE h /\ t
  <2>1. Commands(i, l) = four
    BY <1>1, <1>0 DEF Commands
  <2> QED
    BY <1>1, <2>1, OpsOfLists DEF Lists, Unchanged, Inputs
<1>2. CASE h /\ ~t
  <2>1. Commands(i, l) = <<"target", "zero", "kernel", "read", "submit">>
    BY <1>2, <1>0, CommandLists DEF Commands
  <2> QED
    BY <1>2, <2>1, OpsOfLists DEF Lists, Unchanged, Inputs
<1>3. CASE ~h /\ t
  <2>1. Commands(i, l) = <<"header", "zero", "kernel", "read", "submit">>
    BY <1>3, <1>0, CommandLists DEF Commands
  <2> QED
    BY <1>3, <2>1, OpsOfLists DEF Lists, Unchanged, Inputs
<1>4. CASE ~h /\ ~t
  <2>1. Commands(i, l) = <<"header", "target", "zero", "kernel", "read", "submit">>
    BY <1>4, <1>0, CommandLists DEF Commands
  <2> QED
    BY <1>4, <2>1, OpsOfLists DEF Lists, Unchanged, Inputs
<1> QED
  BY <1>1, <1>2, <1>3, <1>4

LEMMA NextInTurn == nextSlot \in Slots => NextSlot = IF nextSlot + 1 = Depth THEN 0 ELSE nextSlot + 1
  BY QueueAssumption DEF Slots, NextSlot

LEMMA RingFacts ==
    ASSUME Ring, nextSlot \in Slots
    PROVE  /\ \A j, k \in 1 .. Len(queued) : queued[j] = queued[k] => j = k
           /\ Len(queued) < Depth => ~InUse(nextSlot)
<1>1. Len(queued) \in Nat /\ Depth \in Nat \ {0} /\ nextSlot \in 0 .. Depth - 1
  BY QueueAssumption, LenProperties DEF Ring, Slots
<1> DEFINE n == Len(queued)
<1>2. \A k \in 1 .. n : queued[k] = nextSlot - (n + 1 - k) \/ queued[k] = nextSlot - (n + 1 - k) + Depth
  BY <1>1 DEF Ring
<1>3. n <= Depth
  BY DEF Ring
<1> HIDE DEF n
<1>4. n \in Nat
  BY <1>1 DEF n
<1>5. \A j, k \in 1 .. n : queued[j] = queued[k] => j = k
  BY <1>1, <1>2, <1>3, <1>4
<1>6. n < Depth => \A k \in 1 .. n : queued[k] # nextSlot
  BY <1>1, <1>2, <1>4
<1> QED
  BY <1>5, <1>6 DEF n, InUse

\* The first n commands of p have left the queue.
LEMMA DropFacts ==
    ASSUME NEW p \in Seq(CommandSet), NEW n \in 0 .. Len(p), NEW q \in Seq(CommandSet),
           Len(q) = Len(p) - n, \A j \in 1 .. Len(q) : q[j] = p[j + n]
    PROVE  /\ InOrder(p) => InOrder(q)
           /\ \A j \in 1 .. Len(q) : \E k \in 1 .. Len(p) : q[j] = p[k]
           /\ \A i : (\A k \in 1 .. n : p[k].slot # i) =>
                 \A k \in 1 .. Len(p) : p[k].slot = i => \E j \in 1 .. Len(q) : q[j] = p[k]
<1>1. Len(p) \in Nat /\ Len(q) \in Nat
  BY LenProperties
<1>2. \A j \in 1 .. Len(q) : j + n \in 1 .. Len(p)
  BY <1>1
<1>3. InOrder(p) => InOrder(q)
  <2> SUFFICES ASSUME InOrder(p), NEW j \in 1 .. Len(q), NEW k \in 1 .. Len(q), j < k, q[j].slot = q[k].slot, q[j].slot \in Slots
               PROVE  Order(q[j].op) < Order(q[k].op)
    BY DEF InOrder
  <2>1. j + n < k + n /\ j + n \in 1 .. Len(p) /\ k + n \in 1 .. Len(p) /\ q[j] = p[j + n] /\ q[k] = p[k + n]
    BY <1>1, <1>2
  <2> QED
    BY <2>1 DEF InOrder
<1>4. ASSUME NEW i, \A k \in 1 .. n : p[k].slot # i, NEW k \in 1 .. Len(p), p[k].slot = i
      PROVE  \E j \in 1 .. Len(q) : q[j] = p[k]
  <2>1. k \notin 1 .. n /\ n \in Nat /\ k \in Nat /\ k <= Len(p) /\ k >= 1
    BY <1>1, <1>4
  <2>2. k > n
    BY <2>1
  <2>3. k - n \in 1 .. Len(q) /\ (k - n) + n = k
    BY ONLY <1>1, <2>1, <2>2, Len(q) = Len(p) - n
  <2> QED
    BY <2>3
<1> QED
  BY <1>2, <1>3, <1>4

\* A launch is as it was when its own commands are.
LEMMA LaunchElsewhere ==
    ASSUME NEW p, NEW q, NEW i, NEW b, NEW h, NEW l, NEW rest,
           \A j \in 1 .. Len(q) : q[j].slot = i => \E k \in 1 .. Len(p) : q[j] = p[k],
           \A k \in 1 .. Len(p) : p[k].slot = i => \E j \in 1 .. Len(q) : q[j] = p[k],
           LaunchOK(p, i, b, h, l, rest)
    PROVE  LaunchOK(q, i, b, h, l, rest)
<1>1. \A op : Has(q, i, op) <=> Has(p, i, op)
  BY DEF Has
<1>2. \A op : Due(q, i, op, rest) <=> Due(p, i, op, rest)
  BY <1>1 DEF Due
<1> QED
  BY <1>2 DEF LaunchOK

\* The command of a launch that is queued next.
LEMMA LaunchGoesOn ==
    ASSUME NEW p, NEW q, NEW i, NEW b, NEW h, NEW l, NEW rest, NEW c,
           Len(p) \in Nat, Len(q) = Len(p) + 1, q[Len(p) + 1] = c, \A k \in 1 .. Len(p) : q[k] = p[k],
           c.slot = i, c.op \in rest, c.op \in Inputs => c.value = l[c.op],
           c.op = "kernel" => c.value = l.start /\ c.window = l.window,
           LaunchOK(p, i, b, h, l, rest)
    PROVE  LaunchOK(q, i, b, h, l, rest \ {c.op})
<1>1. \A k \in 1 .. Len(q) : k \in 1 .. Len(p) \/ k = Len(p) + 1
  OBVIOUS
<1>2. \A k \in 1 .. Len(p) : k \in 1 .. Len(q)
  OBVIOUS
<1>3. Len(p) + 1 \in 1 .. Len(q)
  OBVIOUS
<1>4. \A op : Due(q, i, op, rest \ {c.op}) <=> Due(p, i, op, rest)
  BY <1>1, <1>2, <1>3 DEF Due, Has
<1>5. \A k \in 1 .. Len(q) : q[k].slot = i =>
          /\ q[k].op \in Inputs => q[k].value = l[q[k].op]
          /\ q[k].op = "kernel" => q[k].value = l.start /\ q[k].window = l.window
  BY <1>1 DEF LaunchOK
<1> QED
  BY <1>4, <1>5 DEF LaunchOK

LEMMA LaunchIsQueued ==
    ASSUME NEW p, NEW i, NEW b, NEW h, NEW l, LaunchOK(p, i, b, h, l, {"submit"})
    PROVE  LaunchOK(p, i, b, h, l, {})
<1>1. \A op \in {"header", "target", "zero", "kernel", "read"} : Due(p, i, op, {"submit"}) <=> Due(p, i, op, {})
  BY DEF Due
<1> QED
  BY <1>1 DEF LaunchOK, Inputs

\* What the device's next command does to the slot it is for.
BufferAfter(c, b, copied) ==
    CASE c.op \in Inputs -> [b EXCEPT ![c.op] = copied]
      [] c.op = "zero" -> [b EXCEPT !.hits = {}]
      [] c.op = "kernel" -> [b EXCEPT !.hits = @ \cup {[header |-> b.header, target |-> b.target,
                                                       start |-> c.value, window |-> c.window]}]
      [] OTHER -> b

BackAfter(c, b, h) == IF c.op = "read" THEN b.hits ELSE h

LEMMA LaunchIsExecuted ==
    ASSUME NEW p \in Seq(CommandSet), p # <<>>, InOrder(p), NEW q \in Seq(CommandSet),
           Len(q) = Len(p) - 1, \A j \in 1 .. Len(q) : q[j] = p[j + 1],
           NEW i \in Slots, p[1].slot = i, NEW b \in Buffers, NEW h, NEW l \in Tagged, NEW rest,
           \A k \in 1 .. Len(p) : p[k].slot = i => \A op \in rest : Order(p[k].op) < Order(op),
           LaunchOK(p, i, b, h, l, rest)
    PROVE  LaunchOK(q, i, BufferAfter(p[1], b, p[1].value), BackAfter(p[1], b, h), l, rest)
<1> DEFINE c == p[1]
           b2 == BufferAfter(c, b, c.value)
           h2 == BackAfter(c, b, h)
<1>1. Len(p) \in Nat \ {0} /\ Len(q) \in Nat /\ 1 \in 1 .. Len(p)
  BY LenProperties, EmptySeq
<1>2. c \in CommandSet
  BY <1>1, ElementOfSeq
<1>3. c.op \in {"header", "target", "zero", "kernel", "read"}
  <2>1. i # Depth
    BY QueueAssumption DEF Slots
  <2> QED
    BY <1>2, <2>1 DEF CommandSet
<1>4. \A op : Order(op) \in Nat
  BY DEF Order
<1>5. \A k \in 1 .. Len(p) : k = 1 \/ (k - 1 \in 1 .. Len(q) /\ q[k - 1] = p[k])
  <2>1. ASSUME NEW k \in 1 .. Len(p), k # 1 PROVE k - 1 \in 1 .. Len(q) /\ (k - 1) + 1 = k
    BY <1>1, <2>1
  <2> QED
    BY <2>1
<1>6. \A j \in 1 .. Len(q) : j + 1 \in 1 .. Len(p) /\ 1 < j + 1
  BY <1>1
<1>7. ~Due(q, i, c.op, rest)
  <2>1. ~Has(q, i, c.op)
    <3> SUFFICES ASSUME NEW j \in 1 .. Len(q), q[j].slot = i, q[j].op = c.op PROVE FALSE
      BY DEF Has
    <3>1. Order(p[1].op) < Order(p[j + 1].op)
      BY <1>1, <1>6 DEF InOrder
    <3> QED
      BY <1>4, <1>6, <3>1
  <2>2. c.op \notin rest
    <3>1. \A op \in rest : Order(c.op) < Order(op)
      BY <1>1
    <3> QED
      BY <1>4, <3>1
  <2> QED
    BY <2>1, <2>2 DEF Due
<1>8. \A op : op # c.op => (Due(q, i, op, rest) <=> Due(p, i, op, rest))
  <2>1. ASSUME NEW op, op # c.op PROVE Has(q, i, op) <=> Has(p, i, op)
    <3>1. ASSUME NEW j \in 1 .. Len(q), q[j].slot = i, q[j].op = op PROVE Has(p, i, op)
      <4>1. j + 1 \in 1 .. Len(p) /\ p[j + 1] = q[j]
        BY <1>6
      <4> QED
        BY <3>1, <4>1 DEF Has
    <3>2. ASSUME NEW k \in 1 .. Len(p), p[k].slot = i, p[k].op = op PROVE Has(q, i, op)
      <4>1. k - 1 \in 1 .. Len(q) /\ q[k - 1] = p[k]
        BY <1>5, <2>1, <3>2
      <4> QED
        BY <3>2, <4>1 DEF Has
    <3> QED
      BY <3>1, <3>2 DEF Has
  <2> QED
    BY <2>1 DEF Due
<1>9. Due(p, i, c.op, rest)
  BY <1>1 DEF Due, Has
<1>10. \A op : Order(op) < Order(c.op) => ~Due(p, i, op, rest)
  <2> SUFFICES ASSUME NEW op, Order(op) < Order(c.op), Due(p, i, op, rest) PROVE FALSE
    OBVIOUS
  <2>1. CASE op \in rest
    BY <1>1, <1>4, <2>1
  <2>2. CASE Has(p, i, op)
    <3>1. PICK k \in 1 .. Len(p) : p[k].slot = i /\ p[k].op = op
      BY <2>2 DEF Has
    <3>2. k # 1
      BY <1>4, <3>1
    <3>3. 1 < k
      BY <1>1, <3>2
    <3>4. Order(c.op) < Order(op)
      BY <1>1, <3>1, <3>3 DEF InOrder
    <3> QED
      BY <1>4, <3>4
  <2> QED
    BY <2>1, <2>2 DEF Due
<1>11. \A j \in 1 .. Len(q) : q[j].slot = i =>
          /\ q[j].op \in Inputs => q[j].value = l[q[j].op]
          /\ q[j].op = "kernel" => q[j].value = l.start /\ q[j].window = l.window
  <2>1. \A k \in 1 .. Len(p) : p[k].slot = i =>
           /\ p[k].op \in Inputs => p[k].value = l[p[k].op]
           /\ p[k].op = "kernel" => p[k].value = l.start /\ p[k].window = l.window
    BY DEF LaunchOK
  <2>2. ASSUME NEW j \in 1 .. Len(q) PROVE j + 1 \in 1 .. Len(p) /\ q[j] = p[j + 1]
    BY <1>6
  <2> QED
    BY ONLY <2>1, <2>2
<1>12. /\ c.op \in Inputs => c.value = l[c.op]
       /\ c.op = "kernel" => c.value = l.start /\ c.window = l.window
  BY <1>1 DEF LaunchOK
<1> HIDE DEF c
<1>13. CASE c.op \in Inputs
  <2>1. b2 = [b EXCEPT ![c.op] = c.value] /\ h2 = h
    BY <1>13 DEF BufferAfter, BackAfter, Inputs
  <2>2. b2[c.op] = l[c.op] /\ b2.hits = b.hits /\ \A f \in Inputs : f # c.op => b2[f] = b[f]
    BY <1>12, <1>13, <2>1 DEF Buffers, Inputs
  <2> HIDE DEF b2, h2
  <2>3. c.op \notin {"zero", "kernel", "read"}
    BY <1>13 DEF Inputs
  <2>4. \A f \in Inputs : Due(q, i, f, rest) \/ b2[f] = l[f]
    BY <1>8, <2>2 DEF LaunchOK
  <2>5. LaunchOK(q, i, b2, h2, l, rest)
    BY <1>8, <1>11, <2>1, <2>2, <2>3, <2>4 DEF LaunchOK
  <2> QED
    BY <2>5 DEF b2, h2, c
<1>14. CASE c.op = "zero"
  <2>1. b2 = [b EXCEPT !.hits = {}] /\ h2 = h
    BY <1>14 DEF BufferAfter, BackAfter, Inputs
  <2>2. b2.hits = {} /\ b2.header = b.header /\ b2.target = b.target
    BY <2>1 DEF Buffers
  <2> HIDE DEF b2, h2
  <2>3. \A f \in Inputs : b2[f] = b[f] /\ f # c.op
    BY <1>14, <2>2 DEF Inputs
  <2>4. LaunchOK(q, i, b2, h2, l, rest)
    BY <1>7, <1>8, <1>9, <1>11, <1>14, <2>1, <2>2, <2>3 DEF LaunchOK
  <2> QED
    BY <2>4 DEF b2, h2, c
<1>15. CASE c.op = "kernel"
  <2>1. ~Due(p, i, "header", rest) /\ ~Due(p, i, "target", rest) /\ ~Due(p, i, "zero", rest)
    BY <1>10, <1>15 DEF Order
  <2>2. b.header = l.header /\ b.target = l.target /\ b.hits = {}
    BY <1>9, <1>15, <2>1 DEF LaunchOK, Inputs
  <2>3. b2 = [b EXCEPT !.hits = b.hits \cup {[header |-> b.header, target |-> b.target, start |-> c.value, window |-> c.window]}]
        /\ h2 = h
    BY <1>15 DEF BufferAfter, BackAfter, Inputs
  <2>4. l = [header |-> b.header, target |-> b.target, start |-> c.value, window |-> c.window]
    BY <1>12, <1>15, <2>2 DEF Tagged
  <2>5. b2.hits = {l} /\ b2.header = b.header /\ b2.target = b.target
    BY <2>2, <2>3, <2>4 DEF Buffers
  <2> HIDE DEF b2, h2
  <2>6. \A f \in Inputs : b2[f] = b[f] /\ f # c.op
    BY <1>15, <2>5 DEF Inputs
  <2>7. LaunchOK(q, i, b2, h2, l, rest)
    BY <1>7, <1>8, <1>9, <1>11, <1>15, <2>1, <2>3, <2>5, <2>6 DEF LaunchOK
  <2> QED
    BY <2>7 DEF b2, h2, c
<1>16. CASE c.op = "read"
  <2>1. ~Due(p, i, "header", rest) /\ ~Due(p, i, "target", rest) /\ ~Due(p, i, "zero", rest) /\ ~Due(p, i, "kernel", rest)
    BY <1>10, <1>16 DEF Order
  <2>2. b2 = b /\ h2 = b.hits /\ b.hits = {l}
    BY <1>9, <1>16, <2>1 DEF BufferAfter, BackAfter, Inputs, LaunchOK
  <2> HIDE DEF b2, h2
  <2>3. \A f \in Inputs : f # c.op
    BY <1>16 DEF Inputs
  <2>4. LaunchOK(q, i, b2, h2, l, rest)
    BY <1>7, <1>8, <1>11, <1>16, <2>1, <2>2, <2>3 DEF LaunchOK
  <2> QED
    BY <2>4 DEF b2, h2, c
<1> QED
  BY <1>3, <1>13, <1>14, <1>15, <1>16 DEF Inputs, c

LEMMA PendingDomain == DeviceTypes => DOMAIN pending = 1 .. Len(pending) /\ Len(pending) \in Nat
  BY LenProperties DEF DeviceTypes

LEMMA QueueStarts == Init => QueueInv
<1> SUFFICES ASSUME Init PROVE QueueInv
  OBVIOUS
<1>0. /\ api \in {"opencl", "cuda"} /\ bc3 = None /\ want = None /\ nextSlot = 0 /\ call = "ready" /\ queued = <<>> /\ inflight = <<>>
      /\ cache = [i \in Slots |-> Unknown] /\ host = [i \in Slots |-> Unknown]
      /\ buf = [i \in Slots |-> Anything] /\ back = [i \in Slots |-> {}]
      /\ pending = <<>> /\ faulted = {} /\ lost = FALSE
  BY DEF Init
<1>1. /\ Len(queued) = 0 /\ Len(inflight) = 0 /\ Len(pending) = 0 /\ queued \in Seq(Slots) /\ inflight \in Seq(Tagged)
      /\ pending \in Seq(CommandSet) /\ Depth \in Nat \ {0} /\ nextSlot \in Slots
  BY <1>0, EmptySeq, QueueAssumption DEF Slots
<1>2. HostTypes
  BY <1>0, <1>1 DEF HostTypes, Known, Unknown, Maybe
<1>3. DeviceTypes
  BY <1>0, <1>1 DEF DeviceTypes, Buffers, Anything, AnyHits
<1>4. Ring /\ Owned /\ Sequenced
  BY <1>0, <1>1 DEF Ring, Owned, Sequenced, InOrder
<1>5. LaunchesOK /\ CacheIsTrue
  BY <1>0, <1>1 DEF LaunchesOK, CacheIsTrue, Unknown, Inputs
<1>6. SourceUnchanged /\ NothingUsedAfterFree
  BY <1>0, <1>1, <1>3, PendingDomain DEF SourceUnchanged, NothingUsedAfterFree
<1> QED
  BY <1>2, <1>3, <1>4, <1>5, <1>6 DEF QueueInv

\* Commands have left the queue, and the host has not moved.
LEMMA FewerPending ==
    ASSUME QueueInv, DeviceTypes', \A j \in 1 .. Len(pending') : \E k \in 1 .. Len(pending) : pending'[j] = pending[k],
           UNCHANGED <<api, hostVars, call, launch, todo>>
    PROVE  /\ SourceUnchanged' /\ NothingUsedAfterFree'
           /\ \A k \in 1 .. Len(pending') :
                 /\ pending'[k].op # "batch" => InUse(pending'[k].slot) \/ Current(pending'[k].slot) \/ call = "error"
                 /\ Current(pending'[k].slot) => Order(pending'[k].op) < Order(Head(todo))
<1>1. UNCHANGED <<bc3, cache, host, queued, nextSlot>>
  BY DEF hostVars
<1>2. DOMAIN pending = 1 .. Len(pending) /\ DOMAIN pending' = 1 .. Len(pending')
  BY PendingDomain, LenProperties DEF QueueInv, DeviceTypes
<1>3. SourceUnchanged'
  BY <1>1, <1>2 DEF QueueInv, SourceUnchanged, Copied, Place
<1>4. NothingUsedAfterFree'
  BY <1>1, <1>2 DEF QueueInv, NothingUsedAfterFree
<1>5. ASSUME NEW k \in 1 .. Len(pending')
      PROVE  /\ pending'[k].op # "batch" => InUse(pending'[k].slot) \/ Current(pending'[k].slot) \/ call = "error"
             /\ Current(pending'[k].slot) => Order(pending'[k].op) < Order(Head(todo))
  <2>1. PICK j \in 1 .. Len(pending) : pending'[k] = pending[j]
    OBVIOUS
  <2> QED
    BY <2>1 DEF QueueInv, Owned, Sequenced
<1> QED
  BY <1>3, <1>4, <1>5

LEMMA ExecuteKeeps == QueueInv /\ Execute => QueueInv'
<1> SUFFICES ASSUME QueueInv, Execute PROVE QueueInv'
  OBVIOUS
<1> DEFINE c == pending[1]
<1>0. HostTypes /\ DeviceTypes /\ Ring /\ Owned /\ Sequenced /\ LaunchesOK /\ CacheIsTrue
  BY DEF QueueInv
<1>1. /\ pending # <<>> /\ pending' = Tail(pending) /\ c = Head(pending)
      /\ UNCHANGED <<api, hostVars, call, launch, todo, testing, want, faulted, lost, inflight>>
      /\ UNCHANGED <<bc3, cache, host, queued, nextSlot>>
  BY DEF Execute, callVars, hostVars
<1>2. /\ Len(pending) \in Nat \ {0} /\ 1 \in 1 .. Len(pending) /\ c \in CommandSet
      /\ pending' \in Seq(CommandSet) /\ Len(pending') = Len(pending) - 1 /\ Len(pending') \in Nat
      /\ \A j \in 1 .. Len(pending') : pending'[j] = pending[j + 1]
  BY <1>0, <1>1, LenProperties, EmptySeq, ElementOfSeq, HeadTailProperties DEF DeviceTypes
<1>3. /\ InOrder(pending') /\ \A j \in 1 .. Len(pending') : \E k \in 1 .. Len(pending) : pending'[j] = pending[k]
      /\ \A i : c.slot # i => \A k \in 1 .. Len(pending) : pending[k].slot = i => \E j \in 1 .. Len(pending') : pending'[j] = pending[k]
  <2>1. 1 \in 0 .. Len(pending) /\ pending \in Seq(CommandSet) /\ InOrder(pending)
    BY <1>0, <1>2 DEF DeviceTypes, Sequenced
  <2>2. \A i : c.slot # i => \A k \in 1 .. 1 : pending[k].slot # i
    OBVIOUS
  <2>3. /\ InOrder(pending) => InOrder(pending')
        /\ \A j \in 1 .. Len(pending') : \E k \in 1 .. Len(pending) : pending'[j] = pending[k]
        /\ \A i : (\A k \in 1 .. 1 : pending[k].slot # i) =>
              \A k \in 1 .. Len(pending) : pending[k].slot = i => \E j \in 1 .. Len(pending') : pending'[j] = pending[k]
    BY <1>2, <2>1, DropFacts
  <2> QED
    BY <2>1, <2>2, <2>3
<1>4. c.op \in Inputs => Copied(c) = c.value
  BY <1>0, <1>2, PendingDomain DEF QueueInv, SourceUnchanged
<1>5. c.slot \in Slots <=> c.op # "batch"
  BY <1>2, QueueAssumption DEF CommandSet, Slots
<1>6. \A i \in Slots : buf[i] \in Buffers /\ back[i] \in SUBSET AnyHits
  BY <1>0 DEF DeviceTypes
<1>7. ASSUME c.op # "batch"
      PROVE  /\ buf' = [buf EXCEPT ![c.slot] = BufferAfter(c, buf[c.slot], c.value)]
             /\ back' = [back EXCEPT ![c.slot] = BackAfter(c, buf[c.slot], back[c.slot])]
  <2>1. c.slot \in Slots /\ c.op \in {"header", "target", "zero", "kernel", "read"}
    BY <1>2, <1>5, <1>7 DEF CommandSet
  <2>2. CASE c.op \in Inputs
    BY <1>0, <1>1, <1>4, <2>1, <2>2 DEF Execute, BufferAfter, BackAfter, Inputs, DeviceTypes
  <2>3. CASE c.op = "zero"
    BY <1>0, <1>1, <2>1, <2>3 DEF Execute, BufferAfter, BackAfter, Inputs, DeviceTypes
  <2>4. CASE c.op = "kernel"
    BY <1>0, <1>1, <2>1, <2>4 DEF Execute, BufferAfter, BackAfter, Inputs, DeviceTypes
  <2>5. CASE c.op = "read"
    BY <1>0, <1>1, <2>1, <2>5 DEF Execute, BufferAfter, BackAfter, Inputs, DeviceTypes
  <2> QED
    BY <2>1, <2>2, <2>3, <2>4, <2>5 DEF Inputs
<1>8. ASSUME c.op = "batch" PROVE buf' = buf /\ back' = back
  BY <1>1, <1>8 DEF Execute, Inputs
<1>9. ASSUME c.op # "batch" PROVE BufferAfter(c, buf[c.slot], c.value) \in Buffers
  <2> DEFINE b == buf[c.slot]
  <2>1. b \in Buffers
    BY <1>5, <1>6, <1>9
  <2> HIDE DEF b
  <2>2. CASE c.op = "kernel"
    <3>1. [header |-> b.header, target |-> b.target, start |-> c.value, window |-> c.window] \in AnyHits
      BY <1>2, <2>1, <2>2 DEF CommandSet, Buffers, AnyHits
    <3> QED
      BY <2>1, <2>2, <3>1 DEF BufferAfter, Inputs, Buffers, b
  <2>3. CASE c.op \in Inputs
    BY <1>2, <2>1, <2>3 DEF BufferAfter, Inputs, Buffers, CommandSet, Maybe, b
  <2>4. CASE c.op \notin Inputs /\ c.op # "kernel"
    BY <2>1, <2>4 DEF BufferAfter, Buffers, b
  <2> QED
    BY <2>2, <2>3, <2>4
<1>10. DeviceTypes'
  <2>1. CASE c.op = "batch"
    BY <1>0, <1>1, <1>2, <1>8, <2>1 DEF DeviceTypes
  <2>2. CASE c.op # "batch"
    <3>1. c.slot \in Slots /\ BackAfter(c, buf[c.slot], back[c.slot]) \in SUBSET AnyHits
      BY <1>5, <1>6, <2>2 DEF BackAfter, Buffers
    <3> QED
      BY <1>0, <1>1, <1>2, <1>7, <1>9, <2>2, <3>1 DEF DeviceTypes
  <2> QED
    BY <2>1, <2>2
<1>11. \A i \in Slots : i # c.slot => buf'[i] = buf[i] /\ back'[i] = back[i]
  BY <1>0, <1>7, <1>8 DEF DeviceTypes
<1>12. HostTypes' /\ Ring'
  BY <1>0, <1>1 DEF HostTypes, Ring
<1>13. SourceUnchanged' /\ NothingUsedAfterFree' /\ Owned' /\ Sequenced'
  <2>1. /\ SourceUnchanged' /\ NothingUsedAfterFree'
        /\ \A k \in 1 .. Len(pending') :
              /\ pending'[k].op # "batch" => InUse(pending'[k].slot) \/ Current(pending'[k].slot) \/ call = "error"
              /\ Current(pending'[k].slot) => Order(pending'[k].op) < Order(Head(todo))
    BY <1>1, <1>3, <1>10, FewerPending
  <2>2. ~(call = "closed" \/ lost)
    BY <1>0, <1>1 DEF Owned
  <2>3. Owned'
    BY <1>0, <1>1, <2>1, <2>2 DEF Owned, InUse, Current
  <2> QED
    BY <1>1, <1>3, <2>1, <2>3 DEF Sequenced, Current
<1>14. ASSUME NEW i \in Slots, NEW l \in Tagged, NEW rest,
              \A k \in 1 .. Len(pending) : pending[k].slot = i => \A op \in rest : Order(pending[k].op) < Order(op),
              LaunchOK(pending, i, buf[i], back[i], l, rest)
       PROVE  LaunchOK(pending', i, buf'[i], back'[i], l, rest)
  <2>1. CASE c.slot = i
    <3>1. /\ buf'[i] = BufferAfter(pending[1], buf[i], pending[1].value)
          /\ back'[i] = BackAfter(pending[1], buf[i], back[i])
      BY <1>0, <1>5, <1>7, <2>1 DEF DeviceTypes
    <3>2. pending \in Seq(CommandSet) /\ InOrder(pending) /\ pending[1].slot = i /\ buf[i] \in Buffers
      BY <1>0, <1>6, <2>1 DEF DeviceTypes, Sequenced
    <3>3. LaunchOK(pending', i, BufferAfter(pending[1], buf[i], pending[1].value),
                   BackAfter(pending[1], buf[i], back[i]), l, rest)
      BY <1>1, <1>2, <1>14, <3>2, LaunchIsExecuted
    <3> QED
      BY <3>1, <3>3
  <2>2. CASE c.slot # i
    <3>1. buf'[i] = buf[i] /\ back'[i] = back[i]
      BY <1>11, <2>2
    <3>2. LaunchOK(pending', i, buf[i], back[i], l, rest)
      BY <1>3, <1>14, <2>2, LaunchElsewhere
    <3> QED
      BY <3>1, <3>2
  <2> QED
    BY <2>1, <2>2
<1>15. LaunchesOK'
  <2> SUFFICES ASSUME ~lost PROVE LaunchesOK'
    BY <1>1 DEF LaunchesOK
  <2>1. ASSUME NEW m \in 1 .. Len(queued), queued[m] \notin faulted
        PROVE  LaunchOK(pending', queued[m], buf'[queued[m]], back'[queued[m]], inflight[m], {})
    <3>1. queued[m] \in Slots /\ inflight[m] \in Tagged
      BY <1>0, ElementOfSeq DEF Ring
    <3>2. LaunchOK(pending, queued[m], buf[queued[m]], back[queued[m]], inflight[m], {})
      BY <1>0, <2>1 DEF LaunchesOK
    <3> QED
      BY <1>14, <3>1, <3>2
  <2>2. ASSUME call = "queueing", nextSlot \notin faulted
        PROVE  LaunchOK(pending', nextSlot, buf'[nextSlot], back'[nextSlot], ThisLaunch, Ops(todo))
    <3>1. nextSlot \in Slots /\ ThisLaunch \in Tagged /\ todo \in Lists
      BY <1>0, <2>2 DEF HostTypes, ThisLaunch, Tagged, Launches, Maybe
    <3>2. LaunchOK(pending, nextSlot, buf[nextSlot], back[nextSlot], ThisLaunch, Ops(todo))
      BY <1>0, <2>2 DEF LaunchesOK
    <3>3. ASSUME NEW k \in 1 .. Len(pending), pending[k].slot = nextSlot, NEW op \in Ops(todo)
          PROVE  Order(pending[k].op) < Order(op)
      <4>1. Order(pending[k].op) < Order(Head(todo))
        BY <1>0, <2>2, <3>3 DEF Sequenced, Current
      <4>2. Order(Head(todo)) <= Order(op)
        BY <3>1, <3>3, ListFacts
      <4>3. \A o : Order(o) \in Nat
        BY DEF Order
      <4> QED
        BY <4>1, <4>2, <4>3
    <3> QED
      BY <1>14, <3>1, <3>2, <3>3
  <2>3. ThisLaunch' = ThisLaunch
    BY <1>1 DEF ThisLaunch
  <2> QED
    BY <1>1, <2>1, <2>2, <2>3 DEF LaunchesOK
<1>16. CacheIsTrue'
  <2>1. ASSUME NEW i \in Slots, ~lost, call \notin {"error", "closed"}, ~InUse(i), ~Current(i) PROVE buf'[i] = buf[i]
    <3>1. i # c.slot
      BY <1>0, <1>2, <1>5, <2>1 DEF Owned
    <3> QED
      BY <1>11, <3>1
  <2> QED
    BY <1>0, <1>1, <2>1 DEF CacheIsTrue, InUse, Current
<1> QED
  BY <1>10, <1>12, <1>13, <1>15, <1>16 DEF QueueInv

LEMMA FaultKeeps == QueueInv /\ Fault => QueueInv'
<1> SUFFICES ASSUME QueueInv, Fault PROVE QueueInv'
  OBVIOUS
<1> DEFINE i == Head(pending).slot
<1>0. HostTypes /\ DeviceTypes /\ Ring /\ Owned /\ Sequenced /\ LaunchesOK /\ CacheIsTrue
  BY DEF QueueInv
<1>1. /\ pending # <<>> /\ i \in Slots /\ faulted' = faulted \cup {i} /\ buf' = [buf EXCEPT ![i] = Anything]
      /\ UNCHANGED <<api, hostVars, call, launch, todo, testing, want, back, lost, inflight>>
      /\ UNCHANGED <<bc3, cache, host, queued, nextSlot>>
  BY DEF Fault, callVars, hostVars
<1>2. PICK n \in 1 .. Len(pending) :
         /\ \A k \in 1 .. n : pending[k].slot = i
         /\ \A k \in n + 1 .. Len(pending) : pending[k].slot # i
         /\ pending' = SubSeq(pending, n + 1, Len(pending))
  BY DEF Fault
<1>3. pending \in Seq(CommandSet) /\ Len(pending) \in Nat \ {0} /\ i = pending[1].slot /\ pending[1] \in CommandSet
      /\ 1 \in 1 .. Len(pending)
  BY <1>0, <1>1, LenProperties, EmptySeq, HeadTailProperties, ElementOfSeq DEF DeviceTypes
<1> HIDE DEF i
<1>4. /\ pending' \in Seq(CommandSet) /\ Len(pending') = Len(pending) - n /\ Len(pending') \in Nat
      /\ \A j \in 1 .. Len(pending') : pending'[j] = pending[j + n]
  <2>1. /\ n + 1 \in 1 .. Len(pending) + 1 /\ Len(pending) \in n .. Len(pending)
        /\ n + 1 <= Len(pending) + 1 /\ Len(pending) - (n + 1) + 1 = Len(pending) - n
    BY <1>3
  <2>2. /\ pending' \in Seq(CommandSet) /\ Len(pending') = Len(pending) - n
        /\ \A j \in 1 .. Len(pending) - n : pending'[j] = pending[(n + 1) + j - 1]
    <3>1. n + 1 \in Int /\ Len(pending) \in Int /\ \A k \in n + 1 .. Len(pending) : pending[k] \in CommandSet
      BY <1>3, ElementOfSeq
    <3>2. /\ pending' \in Seq(CommandSet)
          /\ Len(pending') = IF n + 1 <= Len(pending) THEN Len(pending) - (n + 1) + 1 ELSE 0
          /\ \A j \in 1 .. Len(pending) - (n + 1) + 1 : pending'[j] = pending[(n + 1) + j - 1]
      BY <1>2, <3>1, SubSeqProperties
    <3>3. Len(pending) - (n + 1) + 1 = Len(pending) - n
      BY <1>3
    <3>4. (IF n + 1 <= Len(pending) THEN Len(pending) - n ELSE 0) = Len(pending) - n
      BY <1>3
    <3> QED
      BY <3>2, <3>3, <3>4
  <2>3. \A j \in 1 .. Len(pending) - n : (n + 1) + j - 1 = j + n
    BY <1>3
  <2> QED
    BY <1>3, <2>2, <2>3
<1>5. /\ InOrder(pending') /\ \A j \in 1 .. Len(pending') : \E k \in 1 .. Len(pending) : pending'[j] = pending[k]
      /\ \A o : o # i => \A k \in 1 .. Len(pending) : pending[k].slot = o => \E j \in 1 .. Len(pending') : pending'[j] = pending[k]
  <2>1. n \in 0 .. Len(pending) /\ InOrder(pending)
    BY <1>0, <1>3 DEF Sequenced
  <2>2. \A o : o # i => \A k \in 1 .. n : pending[k].slot # o
    BY <1>2
  <2>3. /\ InOrder(pending) => InOrder(pending')
        /\ \A j \in 1 .. Len(pending') : \E k \in 1 .. Len(pending) : pending'[j] = pending[k]
        /\ \A o : (\A k \in 1 .. n : pending[k].slot # o) =>
              \A k \in 1 .. Len(pending) : pending[k].slot = o => \E j \in 1 .. Len(pending') : pending'[j] = pending[k]
    BY <1>3, <1>4, <2>1, DropFacts
  <2> QED
    BY <2>1, <2>2, <2>3
<1>6. DeviceTypes'
  <2>1. Anything \in Buffers
    BY DEF Anything, Buffers, AnyHits
  <2> QED
    BY <1>0, <1>1, <1>4, <2>1 DEF DeviceTypes
<1>7. \A o \in Slots : o # i => buf'[o] = buf[o]
  BY <1>0, <1>1 DEF DeviceTypes
<1>8. HostTypes' /\ Ring'
  BY <1>0, <1>1 DEF HostTypes, Ring
<1>9. SourceUnchanged' /\ NothingUsedAfterFree' /\ Owned' /\ Sequenced'
  <2>1. /\ SourceUnchanged' /\ NothingUsedAfterFree'
        /\ \A k \in 1 .. Len(pending') :
              /\ pending'[k].op # "batch" => InUse(pending'[k].slot) \/ Current(pending'[k].slot) \/ call = "error"
              /\ Current(pending'[k].slot) => Order(pending'[k].op) < Order(Head(todo))
    BY <1>1, <1>5, <1>6, FewerPending
  <2>2. ~(call = "closed" \/ lost)
    BY <1>0, <1>1 DEF Owned
  <2>3. Owned'
    BY <1>0, <1>1, <2>1, <2>2 DEF Owned, InUse, Current
  <2> QED
    BY <1>1, <1>5, <2>1, <2>3 DEF Sequenced, Current
<1>10. ASSUME NEW o \in Slots, o # i, NEW l, NEW rest, LaunchOK(pending, o, buf[o], back[o], l, rest)
       PROVE  LaunchOK(pending', o, buf'[o], back'[o], l, rest)
  <2>1. /\ \A j \in 1 .. Len(pending') : pending'[j].slot = o => \E k \in 1 .. Len(pending) : pending'[j] = pending[k]
        /\ \A k \in 1 .. Len(pending) : pending[k].slot = o => \E j \in 1 .. Len(pending') : pending'[j] = pending[k]
    BY <1>5, <1>10
  <2>2. LaunchOK(pending', o, buf[o], back[o], l, rest)
    BY <1>10, <2>1, LaunchElsewhere
  <2> QED
    BY <1>1, <1>7, <1>10, <2>2
<1>11. LaunchesOK'
  <2> SUFFICES ASSUME ~lost PROVE LaunchesOK'
    BY <1>1 DEF LaunchesOK
  <2>0. faulted' = faulted \cup {i}
    BY <1>1
  <2>1. ASSUME NEW m \in 1 .. Len(queued), queued[m] \notin faulted'
        PROVE  LaunchOK(pending', queued[m], buf'[queued[m]], back'[queued[m]], inflight[m], {})
    <3>1. queued[m] \in Slots /\ queued[m] # i /\ queued[m] \notin faulted
      BY <1>0, <1>1, <2>1, ElementOfSeq DEF Ring
    <3>2. LaunchOK(pending, queued[m], buf[queued[m]], back[queued[m]], inflight[m], {})
      BY <1>0, <2>1, <3>1 DEF LaunchesOK
    <3> QED
      BY <1>10, <3>1, <3>2
  <2>2. ASSUME call = "queueing", nextSlot \notin faulted'
        PROVE  LaunchOK(pending', nextSlot, buf'[nextSlot], back'[nextSlot], ThisLaunch, Ops(todo))
    <3>1. nextSlot \in Slots /\ nextSlot # i /\ nextSlot \notin faulted
      BY <1>0, <1>1, <2>2 DEF HostTypes
    <3>2. LaunchOK(pending, nextSlot, buf[nextSlot], back[nextSlot], ThisLaunch, Ops(todo))
      BY <1>0, <2>2, <3>1 DEF LaunchesOK
    <3> QED
      BY <1>10, <3>1, <3>2
  <2>3. ThisLaunch' = ThisLaunch
    BY <1>1 DEF ThisLaunch
  <2> QED
    BY <1>1, <2>1, <2>2, <2>3 DEF LaunchesOK
<1>12. CacheIsTrue'
  <2>1. ASSUME NEW o \in Slots, ~lost, call \notin {"error", "closed"}, ~InUse(o), ~Current(o) PROVE o # i
    <3>1. pending[1].op # "batch"
      BY <1>1, <1>3, QueueAssumption DEF CommandSet, Slots
    <3> QED
      BY <1>0, <1>3, <2>1, <3>1 DEF Owned
  <2> QED
    BY <1>0, <1>1, <1>7, <2>1 DEF CacheIsTrue, InUse, Current
<1> QED
  BY <1>6, <1>8, <1>9, <1>11, <1>12 DEF QueueInv

\* Nothing is pending any more: most of the invariant is about what is.
LEMMA NothingPending ==
    ASSUME pending' = <<>>
    PROVE  /\ InOrder(pending') /\ Sequenced' /\ SourceUnchanged' /\ NothingUsedAfterFree'
           /\ Len(pending') = 0 /\ pending' \in Seq(CommandSet)
<1>1. Len(pending') = 0 /\ pending' \in Seq(CommandSet) /\ DOMAIN pending' = 1 .. 0
  BY EmptySeq
<1>2. \A k \in 1 .. 0 : FALSE
  OBVIOUS
<1> QED
  BY <1>1, <1>2 DEF InOrder, Sequenced, SourceUnchanged, NothingUsedAfterFree

LEMMA DeviceLostKeeps == QueueInv /\ DeviceLost => QueueInv'
<1> SUFFICES ASSUME QueueInv, DeviceLost PROVE QueueInv'
  OBVIOUS
<1>0. HostTypes /\ DeviceTypes /\ Ring /\ Owned /\ Sequenced /\ LaunchesOK /\ CacheIsTrue
  BY DEF QueueInv
<1>1. /\ lost' = TRUE /\ pending' = <<>>
      /\ UNCHANGED <<api, bc3, cache, host, queued, nextSlot, call, launch, todo, want, buf, back, faulted, inflight>>
  BY DEF DeviceLost, hostVars, callVars
<1>2. HostTypes' /\ DeviceTypes' /\ Ring'
  BY <1>0, <1>1, NothingPending DEF HostTypes, DeviceTypes, Ring
<1>3. Owned'
  BY <1>0, <1>1, NothingPending DEF Owned
<1>4. LaunchesOK' /\ CacheIsTrue'
  BY <1>0, <1>1 DEF LaunchesOK, CacheIsTrue
<1> QED
  BY <1>1, <1>2, <1>3, <1>4, NothingPending DEF QueueInv

\* Steps that queue nothing and collect nothing.
LEMMA CallMoves ==
    ASSUME QueueInv, UNCHANGED <<api, cache, host, queued, nextSlot, buf, back, pending, faulted, lost, inflight>>,
           want' \in Maybe(Windows), bc3' \in Maybe(Windows), call \notin {"queueing", "error", "closed"},
           call' \in {"ready", "error", "load", "tables", "batch", "closed"},
           \A k \in 1 .. Len(pending) : pending[k].op = "kernel" => bc3' = bc3,
           call' \in {"load", "tables", "batch"} => queued = <<>>, call' = "closed" => pending = <<>>
    PROVE  QueueInv'
<1>0. HostTypes /\ DeviceTypes /\ Ring /\ Owned /\ Sequenced /\ LaunchesOK /\ CacheIsTrue /\ SourceUnchanged /\ NothingUsedAfterFree
  BY DEF QueueInv
<1>1. HostTypes'
  BY <1>0 DEF HostTypes
<1>2. DeviceTypes' /\ Ring'
  BY <1>0 DEF DeviceTypes, Ring
<1>3. Owned' /\ Sequenced'
  BY <1>0 DEF Owned, Sequenced, InOrder, InUse, Current
<1>4. LaunchesOK'
  BY <1>0 DEF LaunchesOK
<1>5. CacheIsTrue'
  BY <1>0 DEF CacheIsTrue, InUse, Current
<1>6. DOMAIN pending = 1 .. Len(pending) /\ DOMAIN pending' = 1 .. Len(pending)
  BY <1>0, PendingDomain
<1>7. SourceUnchanged'
  BY <1>0 DEF SourceUnchanged, Copied, Place
<1>8. call' = "closed" => 1 .. Len(pending) = {}
  BY EmptySeq
<1>9. NothingUsedAfterFree'
  BY <1>0, <1>6, <1>8 DEF NothingUsedAfterFree
<1> QED
  BY <1>1, <1>2, <1>3, <1>4, <1>5, <1>7, <1>9 DEF QueueInv

\* With no launch in flight, none being queued and none that failed, no kernel
\* of a launch is pending.
LEMMA NoKernelPending ==
    ASSUME QueueInv, queued = <<>>, call \notin {"queueing", "error"}
    PROVE  \A k \in 1 .. Len(pending) : pending[k].op = "batch"
<1>1. Len(queued) = 0
  BY EmptySeq
<1> QED
  BY <1>1 DEF QueueInv, Owned, InUse, Current

LEMMA EnqueueRefusedKeeps == QueueInv /\ EnqueueRefused => QueueInv'
<1> SUFFICES ASSUME QueueInv, EnqueueRefused PROVE QueueInv'
  OBVIOUS
<1>1. /\ call = "ready" /\ call' = "error"
      /\ UNCHANGED <<api, bc3, cache, host, queued, nextSlot, want, buf, back, pending, faulted, lost, inflight>>
  BY DEF EnqueueRefused, MayEnqueue, hostVars, deviceVars
<1>2. want' \in Maybe(Windows) /\ bc3' \in Maybe(Windows)
  BY <1>1 DEF QueueInv, HostTypes
<1> QED
  BY <1>1, <1>2, CallMoves

LEMMA LoadStepKeeps ==
    ASSUME QueueInv, NEW ok, NEW next \in {"tables", "batch"}, NEW window \in Maybe(Windows),
           call \in {"load", "tables"}, LoadStep(ok, next, window)
    PROVE  QueueInv'
<1>1. /\ UNCHANGED <<api, cache, host, queued, nextSlot, want, buf, back, pending, faulted, lost, inflight>>
      /\ call' \in {next, "ready"} /\ bc3' \in {window, None}
  BY DEF LoadStep, deviceVars
<1>2. queued = <<>> /\ want' \in Maybe(Windows) /\ bc3' \in Maybe(Windows)
  BY <1>1 DEF QueueInv, Owned, HostTypes, Maybe
<1>3. \A k \in 1 .. Len(pending) : pending[k].op # "kernel"
  BY <1>2, NoKernelPending
<1> QED
  BY <1>1, <1>2, <1>3, CallMoves

LEMMA SelfTestEndsKeeps == ASSUME QueueInv, NEW ok, SelfTestEnds(ok) PROVE QueueInv'
<1>1. /\ call = "ready" /\ queued = <<>> /\ bc3' \in {bc3, None}
      /\ UNCHANGED <<api, cache, host, queued, nextSlot, call, want, buf, back, pending, faulted, lost, inflight>>
  BY DEF SelfTestEnds, deviceVars
<1>2. want' \in Maybe(Windows) /\ bc3' \in Maybe(Windows)
  BY <1>1 DEF QueueInv, HostTypes, Maybe
<1>3. \A k \in 1 .. Len(pending) : pending[k].op # "kernel"
  BY <1>1, NoKernelPending
<1> QED
  BY <1>1, <1>2, <1>3, CallMoves

LEMMA CloseKeeps == QueueInv /\ Close => QueueInv'
<1> SUFFICES ASSUME QueueInv, Close PROVE QueueInv'
  OBVIOUS
<1>1. /\ call = "ready" /\ call' = "closed" /\ bc3' = None /\ pending = <<>>
      /\ UNCHANGED <<api, cache, host, queued, nextSlot, want, buf, back, pending, faulted, lost, inflight>>
  BY DEF Close, Finished, deviceVars
<1>2. want' \in Maybe(Windows) /\ bc3' \in Maybe(Windows)
  BY <1>1 DEF QueueInv, HostTypes, Maybe
<1>3. \A k \in 1 .. Len(pending) : pending[k].op # "kernel"
  BY <1>1, EmptySeq
<1> QED
  BY <1>1, <1>2, <1>3, CallMoves

LEMMA BatchKeeps == ASSUME QueueInv, NEW ok \in BOOLEAN, NEW runs \in BOOLEAN, Batch(ok, runs) PROVE QueueInv'
<1>0. HostTypes /\ DeviceTypes /\ Ring /\ Owned /\ Sequenced /\ LaunchesOK /\ CacheIsTrue /\ SourceUnchanged /\ NothingUsedAfterFree
  BY DEF QueueInv
<1>1. /\ call = "batch" /\ call' = "ready" /\ bc3' \in {bc3, None}
      /\ UNCHANGED <<api, cache, host, queued, nextSlot, want, buf, back, faulted, lost, inflight>>
  BY DEF Batch
<1>2. queued = <<>> /\ want' \in Maybe(Windows) /\ bc3' \in Maybe(Windows) /\ Len(queued) = 0
  BY <1>0, <1>1, EmptySeq DEF Owned, HostTypes, Maybe
<1>3. \A k \in 1 .. Len(pending) : pending[k].op = "batch"
  BY <1>1, <1>2, NoKernelPending
<1>4. CASE ~runs
  <2>1. UNCHANGED pending
    BY <1>4 DEF Batch
  <2> QED
    BY <1>1, <1>2, <1>3, <2>1, CallMoves
<1>5. CASE runs
  <2> DEFINE c == [slot |-> Depth, op |-> "batch"]
  <2>1. pending' = Append(pending, c) /\ ~lost
    BY <1>5 DEF Batch
  <2>2. c \in CommandSet /\ pending \in Seq(CommandSet) /\ Len(pending) \in Nat
    BY <1>0, LenProperties DEF CommandSet, DeviceTypes
  <2>3. c.op = "batch" /\ c.slot = Depth
    OBVIOUS
  <2> HIDE DEF c
  <2>4. /\ pending' \in Seq(CommandSet) /\ Len(pending') = Len(pending) + 1 /\ pending'[Len(pending) + 1] = c
        /\ \A k \in 1 .. Len(pending) : pending'[k] = pending[k]
    BY <2>1, <2>2, AppendProperties
  <2>5. \A k \in 1 .. Len(pending') : pending'[k].op = "batch"
    <3>1. \A k \in 1 .. Len(pending') : k \in 1 .. Len(pending) \/ k = Len(pending) + 1
      BY <2>2, <2>4
    <3> QED
      BY <1>3, <2>3, <2>4, <3>1
  <2>6. \A k \in 1 .. Len(pending') : pending'[k].slot \notin Slots
    <3>1. \A k \in 1 .. Len(pending') : pending'[k] \in CommandSet
      BY <2>4, ElementOfSeq
    <3> QED
      BY <2>5, <3>1, QueueAssumption DEF CommandSet, Slots
  <2>7. DOMAIN pending' = 1 .. Len(pending')
    BY <2>4, LenProperties
  <2>8. HostTypes' /\ DeviceTypes' /\ Ring'
    BY <1>0, <1>1, <1>2, <2>4 DEF HostTypes, DeviceTypes, Ring
  <2>9. Owned' /\ Sequenced'
    BY <1>1, <2>1, <2>5, <2>6 DEF Owned, Sequenced, InOrder, Current
  <2>10. LaunchesOK' /\ CacheIsTrue'
    BY <1>0, <1>1, <1>2 DEF LaunchesOK, CacheIsTrue, InUse, Current
  <2>11. SourceUnchanged' /\ NothingUsedAfterFree'
    BY <2>5, <2>7 DEF SourceUnchanged, NothingUsedAfterFree, Inputs
  <2> QED
    BY <2>8, <2>9, <2>10, <2>11 DEF QueueInv
<1> QED
  BY <1>4, <1>5

\* abandon: nothing is pending, and nothing is thought to be known.
LEMMA Forgets ==
    ASSUME QueueInv, pending = <<>>, pending' = <<>>, queued' = <<>>, inflight' = <<>>, cache' = Forgotten, buf' = LeftBehind,
           faulted' = {}, bc3' \in Maybe(Windows), want' \in Maybe(Windows), call' \in {"ready", "load"},
           UNCHANGED <<api, host, nextSlot, back, lost>>
    PROVE  QueueInv'
<1>0. HostTypes /\ DeviceTypes
  BY DEF QueueInv
<1>1. Len(queued') = 0 /\ Len(inflight') = 0 /\ queued' \in Seq(Slots) /\ inflight' \in Seq(Tagged) /\ Depth \in Nat \ {0}
  BY EmptySeq, QueueAssumption
<1>2. HostTypes'
  BY <1>0 DEF HostTypes, Forgotten, Known, Unknown, Maybe
<1>3. DeviceTypes'
  <2>1. Anything \in Buffers
    BY DEF Anything, Buffers, AnyHits
  <2> QED
    BY <1>0, <2>1, NothingPending DEF DeviceTypes, LeftBehind
<1>4. Ring' /\ Owned'
  BY <1>1, NothingPending DEF Ring, Owned
<1>5. LaunchesOK'
  BY <1>1 DEF LaunchesOK
<1>6. CacheIsTrue'
  <2>1. \A i \in Slots, f \in Inputs : cache'[i][f] = None
    BY DEF Forgotten, Unknown, Inputs
  <2> QED
    BY <1>1, <2>1 DEF CacheIsTrue
<1> QED
  BY <1>2, <1>3, <1>4, <1>5, <1>6, NothingPending DEF QueueInv

LEMMA AbandonKeeps == QueueInv /\ Abandon => QueueInv'
<1> SUFFICES ASSUME QueueInv, Abandon PROVE QueueInv'
  OBVIOUS
<1>1. /\ pending = <<>> /\ pending' = <<>> /\ queued' = <<>> /\ inflight' = <<>> /\ cache' = Forgotten /\ buf' = LeftBehind
      /\ faulted' = {} /\ bc3' \in {bc3, None} /\ want' = want /\ call' = "ready" /\ UNCHANGED <<api, host, nextSlot, back, lost>>
  BY DEF Abandon, Finished
<1>2. bc3' \in Maybe(Windows) /\ want' \in Maybe(Windows)
  BY <1>1 DEF QueueInv, HostTypes, Maybe
<1> QED
  BY <1>1, <1>2, Forgets

LEMMA PrepareStartsKeeps == ASSUME QueueInv, NEW w \in Windows, PrepareStarts(w) PROVE QueueInv'
<1>1. /\ pending = <<>> /\ pending' = <<>> /\ queued' = <<>> /\ inflight' = <<>> /\ cache' = Forgotten /\ buf' = LeftBehind
      /\ faulted' = {} /\ bc3' = None /\ want' = w /\ call' = "load" /\ UNCHANGED <<api, host, nextSlot, back, lost>>
  BY DEF PrepareStarts, DropWhen, Finished
<1>2. bc3' \in Maybe(Windows) /\ want' \in Maybe(Windows)
  BY <1>1 DEF Maybe
<1> QED
  BY <1>1, <1>2, Forgets

LEMMA EnqueueStartsKeeps == ASSUME QueueInv, NEW l \in Launches, EnqueueStarts(l) PROVE QueueInv'
<1>0. HostTypes /\ DeviceTypes /\ Ring /\ Owned /\ Sequenced /\ LaunchesOK /\ CacheIsTrue /\ SourceUnchanged /\ NothingUsedAfterFree
  BY DEF QueueInv
<1>1. /\ call = "ready" /\ bc3 # None /\ Len(queued) < Depth
      /\ call' = "queueing" /\ launch' = l /\ todo' = Commands(nextSlot, l)
      /\ UNCHANGED <<api, bc3, cache, host, queued, nextSlot, want, buf, back, pending, faulted, lost, inflight>>
  BY DEF EnqueueStarts, MayEnqueue, hostVars, deviceVars
<1>2. nextSlot \in Slots /\ ~InUse(nextSlot)
  BY <1>0, <1>1, RingFacts DEF HostTypes
<1>3. \A k \in 1 .. Len(pending) : pending[k].slot # nextSlot
  <2>1. \A k \in 1 .. Len(pending) : pending[k] \in CommandSet
    BY <1>0, ElementOfSeq DEF DeviceTypes
  <2>2. \A k \in 1 .. Len(pending) : pending[k].op = "batch" => pending[k].slot # nextSlot
    BY <1>2, <2>1, QueueAssumption DEF CommandSet, Slots
  <2> QED
    BY <1>0, <1>1, <1>2, <2>2 DEF Owned, Current
<1>4. /\ todo' \in Lists /\ {"zero", "kernel", "read"} \subseteq Ops(todo')
      /\ \A f \in Inputs : f \in Ops(todo') \/ cache[nextSlot][f] = l[f]
  BY <1>1, CommandsFacts
<1>5. HostTypes'
  BY <1>0, <1>1, <1>4 DEF HostTypes
<1>6. DeviceTypes' /\ Ring'
  BY <1>0, <1>1 DEF DeviceTypes, Ring
<1>7. Owned'
  BY <1>0, <1>1 DEF Owned, InUse, Current
<1>8. Sequenced'
  BY <1>0, <1>1, <1>3 DEF Sequenced, Current
<1>9. LaunchesOK'
  <2> SUFFICES ASSUME ~lost PROVE LaunchesOK'
    BY <1>1 DEF LaunchesOK
  <2>1. nextSlot \notin faulted /\ \A f \in Inputs : cache[nextSlot][f] = None \/ buf[nextSlot][f] = cache[nextSlot][f]
    BY <1>0, <1>1, <1>2 DEF CacheIsTrue, Current
  <2>2. \A f \in Inputs : l[f] # None
    BY QueueAssumption DEF Launches, Inputs
  <2>3. \A f \in Inputs : f \in Ops(todo') \/ buf[nextSlot][f] = l[f]
    BY <1>4, <2>1, <2>2
  <2>4. ThisLaunch' = [header |-> l.header, target |-> l.target, start |-> l.start, window |-> bc3]
    BY <1>1 DEF ThisLaunch
  <2>5. \A f \in Inputs : ThisLaunch'[f] = l[f]
    BY <2>4 DEF Inputs
  <2>6. \A op : Due(pending, nextSlot, op, Ops(todo')) <=> op \in Ops(todo')
    BY <1>3 DEF Due, Has
  <2>7. LaunchOK(pending, nextSlot, buf[nextSlot], back[nextSlot], ThisLaunch', Ops(todo'))
    BY <1>3, <1>4, <2>3, <2>5, <2>6 DEF LaunchOK
  <2> QED
    BY <1>0, <1>1, <2>7 DEF LaunchesOK
<1>10. CacheIsTrue'
  BY <1>0, <1>1, <1>4 DEF CacheIsTrue, InUse, Current
<1>11. SourceUnchanged' /\ NothingUsedAfterFree'
  BY <1>0, <1>1 DEF SourceUnchanged, NothingUsedAfterFree, Copied, Place
<1> QED
  BY <1>5, <1>6, <1>7, <1>8, <1>9, <1>10, <1>11 DEF QueueInv

\* Staging a copy's source touches no pending copy's: those of the slot are of
\* commands that come before this one.
LEMMA StagedFacts ==
    ASSUME QueueInv, call = "queueing", NEW op, op = Head(todo)
    PROVE  /\ Staged(op) \in [Slots -> Known]
           /\ op \in Inputs /\ api = "opencl" => Staged(op)[nextSlot][op] = launch[op]
           /\ \A k \in 1 .. Len(pending) : pending[k].op \in Inputs =>
                 Staged(op)[pending[k].slot][pending[k].op] = host[pending[k].slot][pending[k].op]
<1>0. /\ nextSlot \in Slots /\ host \in [Slots -> Known] /\ launch \in Launches /\ todo \in Lists
      /\ launch.header \in Headers /\ launch.target \in Targets
  BY DEF QueueInv, HostTypes, Launches
<1>1. op \in {"header", "target", "zero", "kernel", "read", "submit"}
  BY <1>0, ListFacts
<1>2. ASSUME NEW k \in 1 .. Len(pending), pending[k].slot = nextSlot PROVE pending[k].op # op
  <2>1. Order(pending[k].op) < Order(op)
    BY <1>2 DEF QueueInv, Sequenced, Current
  <2>2. Order(op) \in Nat
    BY DEF Order
  <2> QED
    BY <2>1, <2>2
<1>3. CASE ~(op \in Inputs /\ api = "opencl")
  BY <1>0, <1>3 DEF Staged
<1>4. CASE op \in Inputs /\ api = "opencl"
  <2>1. Staged(op) = [host EXCEPT ![nextSlot] = [host[nextSlot] EXCEPT ![op] = launch[op]]]
    BY <1>0, <1>4 DEF Staged, Place
  <2>2. host[nextSlot] \in Known
    BY <1>0
  <2>3. /\ [host[nextSlot] EXCEPT ![op] = launch[op]] \in Known
        /\ [host[nextSlot] EXCEPT ![op] = launch[op]][op] = launch[op]
        /\ \A f \in Inputs : f # op => [host[nextSlot] EXCEPT ![op] = launch[op]][f] = host[nextSlot][f]
    BY <1>0, <1>4, <2>2 DEF Known, Maybe, Inputs
  <2>4. Staged(op) \in [Slots -> Known] /\ Staged(op)[nextSlot][op] = launch[op]
    BY <1>0, <2>1, <2>3
  <2>5. ASSUME NEW k \in 1 .. Len(pending), pending[k].op \in Inputs
        PROVE  Staged(op)[pending[k].slot][pending[k].op] = host[pending[k].slot][pending[k].op]
    <3>1. pending[k].slot \in Slots
      <4>1. pending[k] \in CommandSet
        BY ElementOfSeq DEF QueueInv, DeviceTypes
      <4> QED
        BY <2>5, <4>1 DEF CommandSet, Inputs
    <3> QED
      BY <1>0, <1>2, <2>1, <2>3, <2>5, <3>1
  <2> QED
    BY <2>4, <2>5
<1> QED
  BY <1>3, <1>4

LEMMA QueueCommandKeeps == QueueInv /\ QueueCommand => QueueInv'
<1> SUFFICES ASSUME QueueInv, QueueCommand PROVE QueueInv'
  OBVIOUS
<1> DEFINE op == Head(todo)
           c == Command(op)
<1>0. HostTypes /\ DeviceTypes /\ Ring /\ Owned /\ Sequenced /\ LaunchesOK /\ CacheIsTrue /\ SourceUnchanged /\ NothingUsedAfterFree
  BY DEF QueueInv
<1>1. /\ call = "queueing" /\ op # "submit" /\ ~lost /\ pending' = Append(pending, c) /\ host' = Staged(op)
      /\ cache' = (IF op \in Inputs THEN [cache EXCEPT ![nextSlot] = [cache[nextSlot] EXCEPT ![op] = launch[op]]] ELSE cache)
      /\ todo' = Tail(todo)
      /\ UNCHANGED <<api, bc3, queued, nextSlot, call, launch, want, buf, back, faulted, lost, inflight>>
  BY DEF QueueCommand
<1>2. /\ nextSlot \in Slots /\ ~InUse(nextSlot) /\ launch \in Launches /\ todo \in Lists /\ bc3 \in Windows
      /\ launch.header \in Headers /\ launch.target \in Targets /\ launch.start \in Starts
  BY <1>0, <1>1, RingFacts DEF HostTypes, Launches, Maybe
<1>3. /\ op \in Ops(todo) /\ op \in {"header", "target", "zero", "kernel", "read"}
      /\ todo' \in Lists /\ Ops(todo') = Ops(todo) \ {op} /\ Order(op) < Order(Head(todo'))
  BY <1>1, <1>2, ListFacts
<1>4. /\ c.slot = nextSlot /\ c.op = op /\ c \in CommandSet
      /\ op \in Inputs => c.value = launch[op]
      /\ op = "kernel" => c.value = launch.start /\ c.window = bc3
  <2> HIDE DEF op
  <2>1. CASE op \in Inputs
    BY <1>2, <2>1 DEF Command, CommandSet, Inputs
  <2>2. CASE op = "kernel"
    BY <1>2, <2>2 DEF Command, CommandSet, Inputs, Maybe
  <2>3. CASE op \in {"zero", "read"}
    BY <1>2, <2>3 DEF Command, CommandSet, Inputs
  <2> QED
    BY <1>3, <2>1, <2>2, <2>3 DEF Inputs
<1> HIDE DEF op, c
<1>5. /\ pending' \in Seq(CommandSet) /\ Len(pending') = Len(pending) + 1 /\ pending'[Len(pending) + 1] = c
      /\ \A k \in 1 .. Len(pending) : pending'[k] = pending[k]
  BY <1>0, <1>1, <1>4, AppendProperties DEF DeviceTypes
<1>6. /\ Len(pending) \in Nat /\ DOMAIN pending = 1 .. Len(pending) /\ DOMAIN pending' = 1 .. Len(pending')
      /\ Len(pending) + 1 \in 1 .. Len(pending')
      /\ \A k \in 1 .. Len(pending') : k \in 1 .. Len(pending) \/ k = Len(pending) + 1
      /\ \A k \in 1 .. Len(pending) : k \in 1 .. Len(pending')
  <2>1. Len(pending) \in Nat /\ DOMAIN pending = 1 .. Len(pending) /\ DOMAIN pending' = 1 .. Len(pending')
    BY <1>0, <1>5, PendingDomain, LenProperties
  <2> QED
    BY <1>5, <2>1
<1>7. \A o : Order(o) \in Nat
  BY DEF Order
<1>8. /\ cache' \in [Slots -> Known]
      /\ op \in Inputs => cache'[nextSlot][op] = launch[op]
      /\ \A i \in Slots : i # nextSlot => cache'[i] = cache[i]
      /\ \A f \in Inputs : f # op => cache'[nextSlot][f] = cache[nextSlot][f]
  <2>1. cache \in [Slots -> Known] /\ cache[nextSlot] \in Known
    BY <1>0, <1>2 DEF HostTypes
  <2>2. CASE op \notin Inputs
    BY <1>1, <2>1, <2>2
  <2>3. CASE op \in Inputs
    <3> DEFINE r == [cache[nextSlot] EXCEPT ![op] = launch[op]]
    <3>1. r \in Known /\ r[op] = launch[op] /\ \A f \in Inputs : f # op => r[f] = cache[nextSlot][f]
      BY <1>2, <2>1, <2>3 DEF Known, Maybe, Inputs
    <3>2. cache' = [cache EXCEPT ![nextSlot] = r]
      BY <1>1, <2>3
    <3> HIDE DEF r
    <3> QED
      BY <1>2, <2>1, <3>1, <3>2
  <2> QED
    BY <2>2, <2>3
<1>9. /\ host' \in [Slots -> Known]
      /\ op \in Inputs /\ api = "opencl" => host'[nextSlot][op] = launch[op]
      /\ \A k \in 1 .. Len(pending) : pending[k].op \in Inputs =>
            host'[pending[k].slot][pending[k].op] = host[pending[k].slot][pending[k].op]
  <2>1. op = Head(todo)
    BY DEF op
  <2>2. /\ Staged(op) \in [Slots -> Known]
        /\ op \in Inputs /\ api = "opencl" => Staged(op)[nextSlot][op] = launch[op]
        /\ \A k \in 1 .. Len(pending) : pending[k].op \in Inputs =>
              Staged(op)[pending[k].slot][pending[k].op] = host[pending[k].slot][pending[k].op]
    BY <1>1, <2>1, StagedFacts
  <2> QED
    BY <1>1, <2>2
<1>10. HostTypes'
  BY <1>0, <1>1, <1>3, <1>8, <1>9 DEF HostTypes
<1>11. DeviceTypes' /\ Ring'
  BY <1>0, <1>1, <1>5 DEF DeviceTypes, Ring
<1>12. Owned'
  <2>1. \A k \in 1 .. Len(pending') :
           pending'[k].op # "batch" => InUse(pending'[k].slot) \/ Current(pending'[k].slot) \/ call = "error"
    BY <1>0, <1>1, <1>4, <1>5, <1>6 DEF Owned, Current
  <2> QED
    BY <1>1, <2>1 DEF Owned, InUse, Current
<1>13. Sequenced'
  <2>1. InOrder(pending')
    <3> SUFFICES ASSUME NEW j \in 1 .. Len(pending'), NEW k \in 1 .. Len(pending'), j < k,
                        pending'[j].slot = pending'[k].slot, pending'[j].slot \in Slots
                 PROVE  Order(pending'[j].op) < Order(pending'[k].op)
      BY DEF InOrder
    <3>1. j \in 1 .. Len(pending)
      BY <1>5, <1>6
    <3>2. CASE k \in 1 .. Len(pending)
      BY <1>0, <1>5, <3>1, <3>2 DEF Sequenced, InOrder
    <3>3. CASE k = Len(pending) + 1
      <4>1. pending[j].slot = nextSlot /\ pending'[j] = pending[j] /\ pending'[k].op = op
        BY <1>4, <1>5, <3>1, <3>3
      <4>2. Order(pending[j].op) < Order(Head(todo))
        BY <1>0, <1>1, <3>1, <4>1 DEF Sequenced, Current
      <4> QED
        BY <4>1, <4>2 DEF op
    <3> QED
      BY <1>6, <3>2, <3>3
  <2>2. ASSUME NEW k \in 1 .. Len(pending'), pending'[k].slot = nextSlot
        PROVE  Order(pending'[k].op) < Order(Head(todo'))
    <3>1. CASE k \in 1 .. Len(pending)
      <4>1. Order(pending[k].op) < Order(op) /\ pending'[k] = pending[k]
        BY <1>0, <1>1, <1>5, <2>2, <3>1 DEF Sequenced, Current, op
      <4> QED
        BY <1>3, <1>7, <4>1
    <3>2. CASE k = Len(pending) + 1
      BY <1>3, <1>4, <1>5, <3>2
    <3> QED
      BY <1>6, <3>1, <3>2
  <2> QED
    BY <1>1, <2>1, <2>2 DEF Sequenced, Current
<1>14. LaunchesOK'
  <2>1. ASSUME NEW m \in 1 .. Len(queued), queued[m] \notin faulted
        PROVE  LaunchOK(pending', queued[m], buf[queued[m]], back[queued[m]], inflight[m], {})
    <3>1. queued[m] # nextSlot
      BY <1>2 DEF InUse
    <3>2. LaunchOK(pending, queued[m], buf[queued[m]], back[queued[m]], inflight[m], {})
      BY <1>0, <1>1, <2>1 DEF LaunchesOK
    <3>3. /\ \A j \in 1 .. Len(pending') : pending'[j].slot = queued[m] => \E k \in 1 .. Len(pending) : pending'[j] = pending[k]
          /\ \A k \in 1 .. Len(pending) : pending[k].slot = queued[m] => \E j \in 1 .. Len(pending') : pending'[j] = pending[k]
      BY <1>4, <1>5, <1>6, <3>1
    <3> QED
      BY <3>2, <3>3, LaunchElsewhere, SMTT(20)
  <2>2. ASSUME nextSlot \notin faulted
        PROVE  LaunchOK(pending', nextSlot, buf[nextSlot], back[nextSlot], ThisLaunch, Ops(todo'))
    <3>1. LaunchOK(pending, nextSlot, buf[nextSlot], back[nextSlot], ThisLaunch, Ops(todo))
      BY <1>0, <1>1, <2>2 DEF LaunchesOK
    <3>2. /\ c.op \in Inputs => c.value = ThisLaunch[c.op]
          /\ c.op = "kernel" => c.value = ThisLaunch.start /\ c.window = ThisLaunch.window
      BY <1>4 DEF ThisLaunch, Inputs
    <3>3. c.slot = nextSlot /\ c.op \in Ops(todo) /\ Ops(todo') = Ops(todo) \ {c.op}
      BY <1>3, <1>4
    <3>4. LaunchOK(pending', nextSlot, buf[nextSlot], back[nextSlot], ThisLaunch, Ops(todo) \ {c.op})
      BY <1>5, <1>6, <3>1, <3>2, <3>3, LaunchGoesOn
    <3> QED
      BY <3>3, <3>4
  <2>3. ThisLaunch' = ThisLaunch
    BY <1>1 DEF ThisLaunch
  <2> QED
    BY <1>1, <2>1, <2>2, <2>3 DEF LaunchesOK
<1>15. CacheIsTrue'
  <2>1. \A m \in 1 .. Len(queued) : queued[m] \in Slots /\ queued[m] # nextSlot
    BY <1>0, <1>2, ElementOfSeq DEF Ring, InUse
  <2>2. \A m \in 1 .. Len(queued), f \in Inputs : cache'[queued[m]][f] = inflight[m][f]
    BY <1>0, <1>8, <2>1 DEF CacheIsTrue
  <2>3. \A f \in Inputs : f \in Ops(todo') \/ cache'[nextSlot][f] = launch[f]
    BY <1>0, <1>1, <1>3, <1>8 DEF CacheIsTrue
  <2>4. \A i \in Slots : InUse(i) \/ Current(i) \/
            (i \notin faulted /\ \A f \in Inputs : cache'[i][f] = None \/ buf[i][f] = cache'[i][f])
    BY <1>0, <1>1, <1>8 DEF CacheIsTrue, Current
  <2> QED
    BY <1>1, <2>2, <2>3, <2>4 DEF CacheIsTrue, InUse, Current
<1>16. SourceUnchanged'
  <2>1. ASSUME NEW k \in 1 .. Len(pending'), pending'[k].op \in Inputs
        PROVE  api = "opencl" => host'[pending'[k].slot][pending'[k].op] = pending'[k].value
    <3>1. CASE k \in 1 .. Len(pending)
      BY <1>0, <1>5, <1>6, <1>9, <2>1, <3>1 DEF SourceUnchanged, Copied, Place
    <3>2. CASE k = Len(pending) + 1
      BY <1>4, <1>5, <1>9, <2>1, <3>2
    <3> QED
      BY <1>6, <3>1, <3>2
  <2> QED
    BY <1>1, <1>6, <2>1 DEF SourceUnchanged, Copied, Place
<1>17. NothingUsedAfterFree'
  BY <1>0, <1>1, <1>4, <1>5, <1>6 DEF NothingUsedAfterFree
<1> QED
  BY <1>10, <1>11, <1>12, <1>13, <1>14, <1>15, <1>16, <1>17 DEF QueueInv

LEMMA SubmitKeeps == QueueInv /\ Submit => QueueInv'
<1> SUFFICES ASSUME QueueInv, Submit PROVE QueueInv'
  OBVIOUS
<1> DEFINE n == Len(queued)
<1>0. HostTypes /\ DeviceTypes /\ Ring /\ Owned /\ Sequenced /\ LaunchesOK /\ CacheIsTrue /\ SourceUnchanged /\ NothingUsedAfterFree
  BY DEF QueueInv
<1>1. /\ call = "queueing" /\ Head(todo) = "submit" /\ ~lost
      /\ queued' = Append(queued, nextSlot) /\ inflight' = Append(inflight, ThisLaunch) /\ nextSlot' = NextSlot
      /\ call' = "ready"
      /\ UNCHANGED <<api, bc3, cache, host, want, buf, back, pending, faulted, lost>>
  BY DEF Submit, ThisLaunch, deviceVars
<1>2. /\ nextSlot \in Slots /\ launch \in Launches /\ todo \in Lists /\ bc3 \in Windows /\ n < Depth
      /\ ThisLaunch \in Tagged /\ \A f \in Inputs : ThisLaunch[f] = launch[f]
  BY <1>0, <1>1 DEF HostTypes, Launches, Maybe, ThisLaunch, Tagged, Inputs
<1>3. Ops(todo) = {"submit"}
  BY <1>1, <1>2, ListFacts
<1>4. /\ queued \in Seq(Slots) /\ inflight \in Seq(Tagged) /\ Len(inflight) = n /\ n \in Nat /\ Depth \in Nat \ {0}
      /\ nextSlot \in 0 .. Depth - 1
  BY <1>0, <1>2, LenProperties, QueueAssumption DEF Ring, Slots
<1>5. /\ queued' \in Seq(Slots) /\ Len(queued') = n + 1 /\ queued'[n + 1] = nextSlot
      /\ \A k \in 1 .. n : queued'[k] = queued[k]
  BY <1>1, <1>2, <1>4, AppendProperties
<1>6. /\ inflight' \in Seq(Tagged) /\ Len(inflight') = n + 1 /\ inflight'[n + 1] = ThisLaunch
      /\ \A k \in 1 .. n : inflight'[k] = inflight[k]
  BY <1>1, <1>2, <1>4, AppendProperties
<1>7. \A k \in 1 .. n : queued[k] = IF nextSlot >= n + 1 - k THEN nextSlot - (n + 1 - k) ELSE nextSlot - (n + 1 - k) + Depth
  BY <1>0 DEF Ring
<1> HIDE DEF n
<1>8. nextSlot' = IF nextSlot + 1 = Depth THEN 0 ELSE nextSlot + 1
  BY <1>1, <1>2, NextInTurn
<1>9. nextSlot' \in Slots
  BY <1>4, <1>8 DEF Slots
<1>10. \A k \in 1 .. n + 1 : k \in 1 .. n \/ k = n + 1
  BY <1>4
<1>11. Ring'
  <2>1. ASSUME NEW k \in 1 .. n + 1
        PROVE  queued'[k] = IF nextSlot' >= (n + 1) + 1 - k THEN nextSlot' - ((n + 1) + 1 - k) ELSE nextSlot' - ((n + 1) + 1 - k) + Depth
    <3>1. CASE k \in 1 .. n
      <4>1. queued'[k] = queued[k] /\ n < Depth
        BY <1>2, <1>5, <3>1
      <4>2. queued[k] = IF nextSlot >= n + 1 - k THEN nextSlot - (n + 1 - k) ELSE nextSlot - (n + 1 - k) + Depth
        BY <1>7, <3>1
      <4>3. k \in Nat /\ k >= 1 /\ k <= n /\ n \in Nat /\ Depth \in Nat /\ nextSlot \in Nat /\ nextSlot < Depth
        BY <1>4, <3>1
      <4>4. CASE nextSlot + 1 = Depth
        <5>1. nextSlot' = 0
          BY <1>8, <4>4
        <5> QED
          BY ONLY <4>1, <4>2, <4>3, <4>4, <5>1
      <4>5. CASE nextSlot + 1 # Depth
        <5>1. nextSlot' = nextSlot + 1
          BY <1>8, <4>5
        <5> QED
          BY ONLY <4>1, <4>2, <4>3, <4>5, <5>1
      <4> QED
        BY <4>4, <4>5
    <3>2. CASE k = n + 1
      BY <1>4, <1>5, <1>8, <3>2
    <3> QED
      BY <1>10, <3>1, <3>2
  <2>2. n + 1 <= Depth
    BY <1>2, <1>4
  <2> QED
    BY <1>5, <1>6, <2>1, <2>2 DEF Ring
<1>12. \A i : (\E m \in 1 .. Len(queued') : queued'[m] = i) <=> InUse(i) \/ i = nextSlot
  <2>1. \A i : InUse(i) <=> \E m \in 1 .. n : queued[m] = i
    BY DEF InUse, n
  <2>2. n + 1 \in 1 .. n + 1 /\ \A m \in 1 .. n : m \in 1 .. n + 1
    BY <1>4
  <2> QED
    BY <1>5, <1>10, <2>1, <2>2
<1>13. HostTypes' /\ DeviceTypes'
  BY <1>0, <1>1, <1>9 DEF HostTypes, DeviceTypes
<1>14. Owned' /\ Sequenced'
  BY <1>0, <1>1, <1>12 DEF Owned, Sequenced, InUse, Current
<1>15. LaunchesOK'
  <2>1. ASSUME NEW m \in 1 .. n + 1, queued'[m] \notin faulted
        PROVE  LaunchOK(pending, queued'[m], buf[queued'[m]], back[queued'[m]], inflight'[m], {})
    <3>1. CASE m \in 1 .. n
      BY <1>0, <1>1, <1>5, <1>6, <2>1, <3>1 DEF LaunchesOK, n
    <3>2. CASE m = n + 1
      <4>1. LaunchOK(pending, nextSlot, buf[nextSlot], back[nextSlot], ThisLaunch, {"submit"})
        BY <1>0, <1>1, <1>3, <1>5, <2>1, <3>2 DEF LaunchesOK
      <4>2. LaunchOK(pending, nextSlot, buf[nextSlot], back[nextSlot], ThisLaunch, {})
        BY <4>1, LaunchIsQueued
      <4> QED
        BY <1>5, <1>6, <3>2, <4>2
    <3> QED
      BY <1>10, <3>1, <3>2
  <2> QED
    BY <1>1, <1>5, <2>1 DEF LaunchesOK
<1>16. CacheIsTrue'
  <2>1. ASSUME NEW m \in 1 .. n + 1, NEW f \in Inputs PROVE cache[queued'[m]][f] = inflight'[m][f]
    <3>1. CASE m \in 1 .. n
      BY <1>0, <1>5, <1>6, <3>1 DEF CacheIsTrue, n
    <3>2. CASE m = n + 1
      <4>1. cache[nextSlot][f] = launch[f]
        BY <1>0, <1>1, <1>3 DEF CacheIsTrue, Inputs
      <4> QED
        BY <1>2, <1>5, <1>6, <3>2, <4>1
    <3> QED
      BY <1>10, <3>1, <3>2
  <2>2. \A i \in Slots : InUse(i) \/ i = nextSlot \/
            (i \notin faulted /\ \A f \in Inputs : cache[i][f] = None \/ buf[i][f] = cache[i][f])
    BY <1>0, <1>1 DEF CacheIsTrue, Current
  <2>3. \A m \in 1 .. Len(queued'), f \in Inputs : cache'[queued'[m]][f] = inflight'[m][f]
    BY <1>1, <1>5, <2>1
  <2>4. call' # "queueing"
    BY <1>1
  <2>5. \A i \in Slots : (\E m \in 1 .. Len(queued') : queued'[m] = i) \/
            (i \notin faulted' /\ \A f \in Inputs : cache'[i][f] = None \/ buf'[i][f] = cache'[i][f])
    BY <1>1, <1>12, <2>2
  <2> QED
    BY <2>3, <2>4, <2>5 DEF CacheIsTrue, InUse
<1>17. SourceUnchanged' /\ NothingUsedAfterFree'
  BY <1>0, <1>1 DEF SourceUnchanged, NothingUsedAfterFree, Copied, Place
<1> QED
  BY <1>11, <1>13, <1>14, <1>15, <1>16, <1>17 DEF QueueInv

LEMMA QueueFailsKeeps == QueueInv /\ QueueFails => QueueInv'
<1> SUFFICES ASSUME QueueInv, QueueFails PROVE QueueInv'
  OBVIOUS
<1> DEFINE op == Head(todo)
<1>0. HostTypes /\ DeviceTypes /\ Ring /\ Owned /\ Sequenced /\ LaunchesOK /\ CacheIsTrue /\ SourceUnchanged /\ NothingUsedAfterFree
  BY DEF QueueInv
<1>1. /\ call = "queueing" /\ host' = Staged(op) /\ call' = "error"
      /\ cache' \in {cache, [cache EXCEPT ![nextSlot] = Unknown]}
      /\ UNCHANGED <<api, bc3, queued, nextSlot, want, buf, back, pending, faulted, lost, inflight>>
  BY DEF QueueFails, deviceVars
<1>2. nextSlot \in Slots /\ ~InUse(nextSlot)
  BY <1>0, <1>1, RingFacts DEF HostTypes
<1>3. /\ host' \in [Slots -> Known]
      /\ \A k \in 1 .. Len(pending) : pending[k].op \in Inputs =>
            host'[pending[k].slot][pending[k].op] = host[pending[k].slot][pending[k].op]
  BY <1>1, StagedFacts
<1>4. /\ cache' \in [Slots -> Known]
      /\ \A i \in Slots : i # nextSlot => cache'[i] = cache[i]
  BY <1>0, <1>1, <1>2 DEF HostTypes, Known, Unknown, Maybe
<1>5. HostTypes'
  BY <1>0, <1>1, <1>3, <1>4 DEF HostTypes
<1>6. DeviceTypes' /\ Ring'
  BY <1>0, <1>1 DEF DeviceTypes, Ring
<1>7. Owned' /\ Sequenced'
  BY <1>0, <1>1 DEF Owned, Sequenced, Current
<1>8. LaunchesOK'
  BY <1>0, <1>1 DEF LaunchesOK
<1>9. CacheIsTrue'
  <2>1. \A m \in 1 .. Len(queued) : queued[m] \in Slots /\ queued[m] # nextSlot
    BY <1>0, <1>2, ElementOfSeq DEF Ring, InUse
  <2> QED
    BY <1>0, <1>1, <1>4, <2>1 DEF CacheIsTrue
<1>10. SourceUnchanged'
  <2>1. DOMAIN pending = 1 .. Len(pending)
    BY <1>0, PendingDomain
  <2> QED
    BY <1>0, <1>1, <1>3, <2>1 DEF SourceUnchanged, Copied, Place
<1>11. NothingUsedAfterFree'
  BY <1>0, <1>1 DEF NothingUsedAfterFree
<1> QED
  BY <1>5, <1>6, <1>7, <1>8, <1>9, <1>10, <1>11 DEF QueueInv

\* The oldest launch leaves the queue; unless this is an error, its slot is
\* then a free one that holds what the backend thinks it does.
LEMMA OldestLeaves ==
    ASSUME QueueInv, call = "ready", queued # <<>>, queued' = Tail(queued), inflight' = Tail(inflight),
           call' \in {"ready", "error"}, call' = "ready" => ComesBack,
           UNCHANGED <<api, bc3, cache, host, nextSlot, want, buf, back, pending, faulted, lost>>
    PROVE  QueueInv'
<1> DEFINE n == Len(queued)
<1>0. HostTypes /\ DeviceTypes /\ Ring /\ Owned /\ Sequenced /\ LaunchesOK /\ CacheIsTrue /\ SourceUnchanged /\ NothingUsedAfterFree
  BY DEF QueueInv
<1>1. /\ queued \in Seq(Slots) /\ inflight \in Seq(Tagged) /\ Len(inflight) = n /\ n \in Nat \ {0} /\ n <= Depth
      /\ Depth \in Nat \ {0} /\ inflight # <<>> /\ nextSlot \in 0 .. Depth - 1
  BY <1>0, LenProperties, EmptySeq, QueueAssumption DEF Ring, HostTypes, Slots
<1>2. /\ queued' \in Seq(Slots) /\ Len(queued') = n - 1 /\ \A k \in 1 .. Len(queued') : queued'[k] = queued[k + 1]
      /\ inflight' \in Seq(Tagged) /\ Len(inflight') = n - 1 /\ \A k \in 1 .. Len(inflight') : inflight'[k] = inflight[k + 1]
      /\ Head(queued) = queued[1] /\ queued[1] \in Slots
  BY <1>1, HeadTailProperties, ElementOfSeq
<1>3. \A k \in 1 .. n : queued[k] = IF nextSlot >= n + 1 - k THEN nextSlot - (n + 1 - k) ELSE nextSlot - (n + 1 - k) + Depth
  BY <1>0 DEF Ring
<1>4. \A i : InUse(i) <=> \E m \in 1 .. n : queued[m] = i
  BY DEF InUse
<1> HIDE DEF n
<1>5. \A k \in 1 .. n - 1 : k + 1 \in 1 .. n
  BY <1>1
<1>6. \A k \in 1 .. n : k = 1 \/ (k - 1 \in 1 .. n - 1 /\ queued'[k - 1] = queued[k])
  <2>1. ASSUME NEW k \in 1 .. n, k # 1 PROVE k - 1 \in 1 .. n - 1 /\ (k - 1) + 1 = k
    BY <1>1, <2>1
  <2> QED
    BY <1>2, <2>1
<1>7. Ring'
  <2>1. ASSUME NEW k \in 1 .. n - 1
        PROVE  queued'[k] = IF nextSlot >= (n - 1) + 1 - k THEN nextSlot - ((n - 1) + 1 - k) ELSE nextSlot - ((n - 1) + 1 - k) + Depth
    <3>1. k + 1 \in 1 .. n /\ n + 1 - (k + 1) = (n - 1) + 1 - k
      BY <1>1
    <3> QED
      BY <1>2, <1>3, <3>1
  <2>2. n - 1 <= Depth
    BY <1>1
  <2> QED
    BY <1>2, <2>1, <2>2 DEF Ring
<1>8. \A i : InUse(i) /\ i # queued[1] => \E m \in 1 .. Len(queued') : queued'[m] = i
  <2>1. ASSUME NEW i, InUse(i), i # queued[1] PROVE \E m \in 1 .. Len(queued') : queued'[m] = i
    <3>1. PICK k \in 1 .. n : queued[k] = i
      BY <1>4, <2>1
    <3>2. k - 1 \in 1 .. n - 1 /\ queued'[k - 1] = queued[k]
      BY <1>6, <2>1, <3>1
    <3>3. k - 1 \in 1 .. Len(queued') /\ queued'[k - 1] = i
      BY <1>2, <3>1, <3>2
    <3> QED
      BY <3>3
  <2> QED
    BY <2>1
<1>9. \A i : (\E m \in 1 .. Len(queued') : queued'[m] = i) => InUse(i)
  BY <1>2, <1>4, <1>5
<1>10. HostTypes' /\ DeviceTypes'
  BY <1>0 DEF HostTypes, DeviceTypes
<1>11. DOMAIN pending = 1 .. Len(pending)
  BY <1>0, PendingDomain
<1>12. Owned'
  <2>1. ASSUME call' = "ready", NEW k \in 1 .. Len(pending), pending[k].op # "batch"
        PROVE  \E m \in 1 .. Len(queued') : queued'[m] = pending[k].slot
    <3>1. InUse(pending[k].slot)
      BY <1>0, <2>1 DEF Owned, Current
    <3>2. pending[k].slot # queued[1]
      BY <1>2, <1>11, <2>1 DEF ComesBack, Done
    <3> QED
      BY <1>8, <3>1, <3>2
  <2> QED
    BY <1>0, <2>1 DEF Owned, InUse
<1>13. Sequenced'
  BY <1>0 DEF Sequenced, Current
<1>14. LaunchesOK'
  <2>1. ASSUME ~lost, NEW m \in 1 .. n - 1, queued'[m] \notin faulted
        PROVE  LaunchOK(pending, queued'[m], buf[queued'[m]], back[queued'[m]], inflight'[m], {})
    <3>1. m + 1 \in 1 .. Len(queued) /\ queued'[m] = queued[m + 1] /\ inflight'[m] = inflight[m + 1]
      BY <1>2, <1>5 DEF n
    <3> QED
      BY <1>0, <2>1, <3>1 DEF LaunchesOK
  <2> QED
    BY <1>2, <2>1 DEF LaunchesOK
<1>15. CacheIsTrue'
  <2>1. ASSUME NEW m \in 1 .. n - 1, NEW f \in Inputs PROVE cache[queued'[m]][f] = inflight'[m][f]
    <3>1. m + 1 \in 1 .. Len(queued) /\ queued'[m] = queued[m + 1] /\ inflight'[m] = inflight[m + 1]
      BY <1>2, <1>5 DEF n
    <3> QED
      BY <1>0, <3>1 DEF CacheIsTrue
  <2>2. ASSUME ~lost, call' = "ready", NEW i \in Slots, ~ \E m \in 1 .. Len(queued') : queued'[m] = i
        PROVE  i \notin faulted /\ \A f \in Inputs : cache[i][f] = None \/ buf[i][f] = cache[i][f]
    <3>1. CASE ~InUse(i)
      BY <1>0, <2>2, <3>1 DEF CacheIsTrue, Current
    <3>2. CASE InUse(i)
      <4>1. i = queued[1] /\ 1 \in 1 .. Len(queued)
        BY <1>1, <1>8, <2>2, <3>2 DEF n
      <4>2. i \notin faulted /\ \A k \in 1 .. Len(pending) : pending[k].slot # i
        BY <1>2, <1>11, <2>2, <4>1 DEF ComesBack, Done
      <4>3. LaunchOK(pending, i, buf[i], back[i], inflight[1], {})
        BY <1>0, <2>2, <4>1, <4>2 DEF LaunchesOK
      <4>4. \A f \in Inputs : ~Due(pending, i, f, {})
        BY <4>2 DEF Due, Has
      <4>5. \A f \in Inputs : buf[i][f] = inflight[1][f] /\ cache[i][f] = inflight[1][f]
        BY <1>0, <4>1, <4>3, <4>4 DEF LaunchOK, CacheIsTrue
      <4> QED
        BY <4>2, <4>5
    <3> QED
      BY <3>1, <3>2
  <2>3. UNCHANGED <<cache, buf, faulted, lost, nextSlot>> /\ call' \in {"ready", "error"} /\ Len(queued') = n - 1
    BY <1>2
  <2>4. \A m \in 1 .. Len(queued'), f \in Inputs : cache'[queued'[m]][f] = inflight'[m][f]
    BY ONLY <2>1, <2>3
  <2>5. ASSUME ~lost', call' \notin {"error", "closed"}, NEW i \in Slots, ~InUse(i)'
        PROVE  i \notin faulted' /\ \A f \in Inputs : cache'[i][f] = None \/ buf'[i][f] = cache'[i][f]
    <3>1. ~lost /\ call' = "ready" /\ ~ \E m \in 1 .. Len(queued') : queued'[m] = i
      BY <2>3, <2>5 DEF InUse
    <3> QED
      BY <2>2, <2>3, <3>1
  <2>6. call' # "queueing"
    BY <2>3
  <2> QED
    BY <2>4, <2>5, <2>6, Zenon DEF CacheIsTrue
<1>16. SourceUnchanged' /\ NothingUsedAfterFree'
  BY <1>0 DEF SourceUnchanged, NothingUsedAfterFree, Copied, Place
<1> QED
  BY <1>7, <1>10, <1>12, <1>13, <1>14, <1>15, <1>16 DEF QueueInv

LEMMA QueueKeeps == QueueInv /\ [Next]_vars => QueueInv'
<1> SUFFICES ASSUME QueueInv, [Next]_vars PROVE QueueInv'
  OBVIOUS
<1>1. CASE Collect
  BY <1>1, OldestLeaves DEF Collect, MayCollect, callVars, deviceVars
<1>2. CASE CollectFails
  BY <1>2, OldestLeaves DEF CollectFails, MayCollect, deviceVars
<1>3. ASSUME NEW ok \in BOOLEAN, BuildBc3(ok) \/ LoadModule(ok) \/ BuildTables(ok) PROVE QueueInv'
  <2>1. want \in Maybe(Windows) /\ None \in Maybe(Windows)
    BY DEF QueueInv, HostTypes, Maybe
  <2>2. CASE BuildBc3(ok)
    BY <2>1, <2>2, LoadStepKeeps DEF BuildBc3
  <2>3. CASE LoadModule(ok)
    BY <2>1, <2>3, LoadStepKeeps DEF LoadModule
  <2>4. CASE BuildTables(ok)
    BY <2>1, <2>4, LoadStepKeeps DEF BuildTables
  <2> QED
    BY <1>3, <2>2, <2>3, <2>4
<1>4. CASE UNCHANGED vars
  <2>1. UNCHANGED <<api, bc3, cache, host, queued, nextSlot, call, launch, todo, want, buf, back, pending, faulted, lost, inflight>>
    BY <1>4 DEF vars, hostVars, callVars, deviceVars
  <2>2. HostTypes' /\ DeviceTypes' /\ Ring'
    BY <2>1 DEF QueueInv, HostTypes, DeviceTypes, Ring
  <2>3. Owned' /\ Sequenced'
    BY <2>1 DEF QueueInv, Owned, Sequenced, InUse, Current
  <2>4. LaunchesOK' /\ CacheIsTrue'
    BY <2>1 DEF QueueInv, LaunchesOK, CacheIsTrue, InUse, Current, ThisLaunch
  <2>5. SourceUnchanged' /\ NothingUsedAfterFree'
    BY <2>1 DEF QueueInv, SourceUnchanged, NothingUsedAfterFree, Copied, Place
  <2> QED
    BY <2>2, <2>3, <2>4, <2>5 DEF QueueInv
<1> QED
  BY <1>1, <1>2, <1>3, <1>4, ExecuteKeeps, FaultKeeps, DeviceLostKeeps, EnqueueRefusedKeeps, QueueCommandKeeps, SubmitKeeps,
     QueueFailsKeeps, AbandonKeeps, CloseKeeps, EnqueueStartsKeeps, PrepareStartsKeeps, BatchKeeps, SelfTestEndsKeeps DEF Next

(***************************************************************************)
(* What collect returns is of the launch it is about, for any depth of the *)
(* queue and any headers, targets and windows: a slot's commands are done  *)
(* in their order, its buffers hold what header_of and target_of say once  *)
(* its launch is done, and whatever went wrong is forgotten by abandon     *)
(* before the slot is used again (enqueue, collect, abandon of opencl.rs   *)
(* and cuda.rs).                                                           *)
(***************************************************************************)
THEOREM HitsAreOfTheirLaunch == Spec => []ScanIsOfItsLaunch
<1>1. QueueInv => ScanIsOfItsLaunch
  <2> SUFFICES ASSUME QueueInv, ComesBack PROVE back[Head(queued)] = {Head(inflight)}
    BY DEF ScanIsOfItsLaunch
  <2>1. queued # <<>> /\ Done(Head(queued)) /\ Head(queued) \notin faulted /\ ~lost
    BY DEF ComesBack
  <2>2. queued \in Seq(Slots) /\ inflight \in Seq(Tagged) /\ Len(inflight) = Len(queued)
    BY DEF QueueInv, Ring
  <2>3. Len(queued) \in Nat \ {0} /\ inflight # <<>> /\ 1 \in 1 .. Len(queued)
    BY <2>1, <2>2, LenProperties, EmptySeq
  <2>4. Head(queued) = queued[1] /\ Head(inflight) = inflight[1]
    BY <2>1, <2>2, <2>3
  <2>5. LaunchOK(pending, queued[1], buf[queued[1]], back[queued[1]], inflight[1], {})
    BY <2>1, <2>3, <2>4 DEF QueueInv, LaunchesOK
  <2>6. DOMAIN pending = 1 .. Len(pending)
    BY PendingDomain DEF QueueInv
  <2>7. ~Due(pending, queued[1], "read", {})
    BY <2>1, <2>4, <2>6 DEF Due, Has, Done
  <2> QED
    BY <2>4, <2>5, <2>7 DEF LaunchOK
<1> QED
  BY <1>1, QueueStarts, QueueKeeps, PTL DEF Spec

(***************************************************************************)
(* write_async's source stays as it was until the device has copied it: a  *)
(* slot's host memory is written again only when nothing of its last       *)
(* launch is pending (enqueue of opencl.rs).                               *)
(***************************************************************************)
THEOREM SourcesStay == Spec => []SourceUnchanged
<1>1. QueueInv => SourceUnchanged
  BY DEF QueueInv
<1> QED
  BY <1>1, QueueStarts, QueueKeeps, PTL DEF Spec

(***************************************************************************)
(* No kernel of a launch is pending when its tables leave the device, and  *)
(* nothing of a launch when the backend is dropped (prepare_bc3hash, drop).*)
(***************************************************************************)
THEOREM FreedWhenIdle == Spec => []NothingUsedAfterFree
<1>1. QueueInv => NothingUsedAfterFree
  BY DEF QueueInv
<1> QED
  BY <1>1, QueueStarts, QueueKeeps, PTL DEF Spec

-----------------------------------------------------------------------------
(***************************************************************************)
(* The devices.                                                            *)
(***************************************************************************)

\* A worker of CUDA's is for one of the rig's cards.
CudaOnCards == \A w \in CudaWorkers : w.card \in Cards

\* No two workers were started for one card.
OneWorkerEach == \A v, w \in Workers : v.card = w.card => v = w

\* Workers are CUDA's or OpenCL's, all of them.
OneKind == CudaWorkers = {} \/ CudaWorkers = Workers

\* What an OpenCL platform lists at all are the same cards on every platform,
\* and those of CUDA's among them.
AllOrNone(S) == cuda \subseteq S /\ \A p \in Platforms : sees[p] \in {{}, S}

DriverIsWhole == cuda # {} => \E S \in SUBSET Cards : AllOrNone(S)

\* As long as OpenCL lists the cards it did, a worker's number is that of its device.
Numbered ==
    ~shrunk => \A w \in Workers : w.platform # Cuda => w \in OpenclList /\ index[w] = Number(OpenclList, w)

\* An open worker is on its own card, unless it is the only one of its rig.
OnItsOwn ==
    \A w \in Workers :
        status[w] = "open" /\ (IF w.platform = Cuda THEN cuda = Cards ELSE ~shrunk) =>
            on[w] = w.card \/ (w.platform = Cuda /\ Cards = {w.card})

\* OpenCL loses no card that CUDA does not.
ShrinksWithCuda == shrunk => cuda # Cards

DevicesInv ==
    /\ DevicesTypeOK /\ CudaOnCards /\ OneWorkerEach /\ OneKind
    /\ DriverIsWhole /\ Numbered /\ ShrinksWithCuda /\ OnItsOwn /\ NoCardLost

LEMMA DeviceFacts ==
    ASSUME NEW p, NEW c
    PROVE  /\ Device(p, c).platform = p /\ Device(p, c).card = c
           /\ Device(p, c).vendor = IF c = IGpu THEN "intel" ELSE "nvidia"
           /\ Device(p, c).name = IF c = IGpu THEN "igpu" ELSE IF renamed /\ p # Cuda THEN "renamed" ELSE model[c]
  BY DEF Device

LEMMA RigFacts ==
    /\ Platforms \subseteq Nat \ {Cuda} /\ Cards \cup {IGpu} \subseteq Nat /\ IGpu \notin Cards
    /\ IsFiniteSet(Platforms) /\ IsFiniteSet(Cards) /\ IsFiniteSet(Cards \cup {IGpu})
<1>1. Platforms \subseteq Nat \ {Cuda} /\ Cards \cup {IGpu} \subseteq Nat /\ IGpu \notin Cards
  BY DevicesAssumption DEF Platforms, Cuda, IGpu
<1>2. IsFiniteSet(Platforms)
  BY DevicesAssumption, FS_Interval DEF Platforms
<1>3. IsFiniteSet(Cards)
  BY DevicesAssumption
<1> QED
  BY <1>1, <1>2, <1>3, FS_AddElement

(***************************************************************************)
(* Places in a list.                                                       *)
(***************************************************************************)
LEMMA AheadIsNat ==
    ASSUME NEW L, IsFiniteSet(L), NEW d
    PROVE  Ahead(L, d) \in Nat /\ IsFiniteSet({x \in L : Earlier(x, d)})
<1> DEFINE A == {x \in L : Earlier(x, d)}
<1>1. A \in SUBSET L
  OBVIOUS
<1> HIDE DEF A
<1>2. IsFiniteSet(A)
  BY <1>1, FS_Subset
<1>3. Cardinality(A) \in Nat
  BY <1>2, FS_CardinalityType
<1> QED
  BY <1>2, <1>3 DEF A, Ahead

LEMMA AheadAtLeast ==
    ASSUME NEW L, IsFiniteSet(L), NEW d, NEW T, T \subseteq L, \A t \in T : Earlier(t, d)
    PROVE  IsFiniteSet(T) /\ Cardinality(T) <= Ahead(L, d)
<1> DEFINE A == {x \in L : Earlier(x, d)}
<1>1. IsFiniteSet(A) /\ T \in SUBSET A
  BY AheadIsNat
<1> HIDE DEF A
<1>2. IsFiniteSet(T) /\ Cardinality(T) <= Cardinality(A)
  BY <1>1, FS_Subset
<1> QED
  BY <1>2 DEF A, Ahead

LEMMA AheadGrows ==
    ASSUME NEW L, IsFiniteSet(L), \A x \in L : x.platform \in Nat /\ x.card \in Nat,
           NEW d \in L, NEW e \in L, Earlier(d, e)
    PROVE  Ahead(L, d) < Ahead(L, e)
<1> DEFINE A == {x \in L : Earlier(x, d)}
<1>1. IsFiniteSet(A) /\ Ahead(L, d) = Cardinality(A) /\ Ahead(L, d) \in Nat /\ Ahead(L, e) \in Nat
  BY AheadIsNat DEF Ahead
<1>2. d \notin A
  BY DEF Earlier
<1>3. A \cup {d} \subseteq L /\ \A t \in A \cup {d} : Earlier(t, e)
  BY DEF Earlier
<1> HIDE DEF A
<1>4. Cardinality(A \cup {d}) = Cardinality(A) + 1
  BY <1>1, <1>2, FS_AddElement
<1>5. Cardinality(A \cup {d}) <= Ahead(L, e)
  BY <1>3, AheadAtLeast
<1> QED
  BY <1>1, <1>4, <1>5

\* No two devices of a platform have one place.
LEMMA SamePlace ==
    ASSUME NEW L, IsFiniteSet(L), \A x \in L : x.platform \in Nat /\ x.card \in Nat,
           NEW d \in L, NEW e \in L, d.platform = e.platform, Ahead(L, d) = Ahead(L, e)
    PROVE  d.card = e.card
<1>1. Ahead(L, d) \in Nat
  BY AheadIsNat
<1>2. ~Earlier(d, e)
  <2>1. Earlier(d, e) => Ahead(L, d) < Ahead(L, e)
    BY AheadGrows
  <2> QED
    BY <1>1, <2>1
<1>3. ~Earlier(e, d)
  <2>1. Earlier(e, d) => Ahead(L, e) < Ahead(L, d)
    BY AheadGrows
  <2> QED
    BY <1>1, <2>1
<1> QED
  BY <1>2, <1>3 DEF Earlier

\* A platform lists as many devices as cards.
LEMMA OnPlatform ==
    ASSUME NEW p, NEW T, IsFiniteSet(T)
    PROVE  IsFiniteSet({Device(p, c) : c \in T}) /\ Cardinality({Device(p, c) : c \in T}) = Cardinality(T)
<1> DEFINE D == {Device(p, c) : c \in T}
           f == [c \in T |-> Device(p, c)]
<1>1. f \in [T -> D] /\ \A x, y \in T : f[x] = f[y] => x = y
  BY DeviceFacts
<1>2. \A y \in D : \E x \in T : f[x] = y
  OBVIOUS
<1>3. f \in Bijection(T, D)
  BY <1>1, <1>2 DEF Bijection, Injection, Surjection, IsInjective
<1> HIDE DEF D, f
<1>4. ExistsBijection(T, D)
  BY <1>3 DEF ExistsBijection
<1>5. IsFiniteSet(D) /\ Cardinality(D) = Cardinality(T)
  BY <1>4, FS_Bijection
<1> QED
  BY <1>5 DEF D

LEMMA OpenclFacts ==
    ASSUME DevicesTypeOK
    PROVE  /\ \A d \in OpenclList :
                 /\ d.platform \in Platforms /\ d = Device(d.platform, d.card)
                 /\ d.card = IGpu \/ (d.card \in Cards /\ d.card \in sees[d.platform])
           /\ \A p \in Platforms : \A c \in sees[p] : Device(p, c) \in OpenclList
<1>1. \A d \in Other : d.platform \in Platforms /\ d = Device(d.platform, d.card) /\ d.card = IGpu
  BY DeviceFacts DEF Other
<1>2. ASSUME NEW p \in Platforms, NEW d \in Listed(p)
      PROVE  d.platform = p /\ d = Device(p, d.card) /\ d.card \in Cards /\ d.card \in sees[p]
  BY <1>2, DeviceFacts DEF Listed, DevicesTypeOK
<1>3. ASSUME NEW p \in Platforms, NEW c \in sees[p] PROVE Device(p, c) \in OpenclList
  BY DEF OpenclList, Listed
<1>4. ASSUME NEW d \in OpenclList PROVE d \in Other \/ \E p \in Platforms : d \in Listed(p)
  BY DEF OpenclList
<1> QED
  BY <1>1, <1>2, <1>3, <1>4

LEMMA OpenclIsFinite == DevicesTypeOK => IsFiniteSet(OpenclList)
<1> SUFFICES ASSUME DevicesTypeOK PROVE IsFiniteSet(OpenclList)
  OBVIOUS
<1> DEFINE X == Platforms \X (Cards \cup {IGpu})
           f == [x \in X |-> Device(x[1], x[2])]
           D == {Device(x[1], x[2]) : x \in X}
<1>1. IsFiniteSet(X)
  BY RigFacts, FS_Product
<1>2. f \in Surjection(X, D)
  BY DEF Surjection
<1>3. OpenclList \in SUBSET D
  <2>1. ASSUME NEW d \in OpenclList PROVE d \in D
    <3>1. <<d.platform, d.card>> \in X /\ d = Device(d.platform, d.card)
      BY OpenclFacts
    <3> QED
      BY <3>1
  <2> QED
    BY <2>1
<1> HIDE DEF X, f, D
<1>4. IsFiniteSet(D)
  BY <1>1, <1>2, FS_Surjection
<1> QED
  BY <1>3, <1>4, FS_Subset

(***************************************************************************)
(* The rank of a card, and the OpenCL devices of its name.                 *)
(***************************************************************************)
Fellows(k) == {c \in cuda : model[c] = model[k]}

RankOf(k) == Cardinality({c \in Fellows(k) : c < k})

LEMMA RankFacts ==
    ASSUME DevicesTypeOK, NEW k \in cuda
    PROVE  /\ RankOf(k) \in Nat /\ IsFiniteSet(Fellows(k)) /\ Cardinality(Fellows(k)) \in Nat
           /\ RankOf(k) < Cardinality(Fellows(k))
           /\ Rank(CudaList, Device(Cuda, k)) = {RankOf(k)}
<1> DEFINE F == Fellows(k)
           G == {c \in F : c < k}
           w == Device(Cuda, k)
           named == {d \in CudaList : d.name = w.name}
<1>1. F \in SUBSET Cards /\ k \in F /\ G \in SUBSET F /\ k \notin G /\ cuda \in SUBSET Cards
  BY RigFacts DEF Fellows, DevicesTypeOK
<1>2. {d \in named : Earlier(d, w)} = {Device(Cuda, c) : c \in G}
  <2>1. ASSUME NEW c \in cuda
        PROVE  Device(Cuda, c) \in named /\ Earlier(Device(Cuda, c), w) <=> c \in G
    <3>1. Device(Cuda, c).name = model[c] /\ w.name = model[k]
      BY <1>1, RigFacts, DeviceFacts
    <3>2. Device(Cuda, c) \in CudaList
      BY DEF CudaList
    <3>3. Earlier(Device(Cuda, c), w) <=> c < k
      BY <1>1, RigFacts, DeviceFacts DEF Earlier, Cuda
    <3> QED
      BY <3>1, <3>2, <3>3 DEF Fellows
  <2>2. \A d \in named : \E c \in cuda : d = Device(Cuda, c)
    BY DEF CudaList
  <2>3. \A c \in G : c \in cuda
    BY DEF Fellows
  <2> HIDE DEF named, G, w
  <2> QED
    BY <2>1, <2>2, <2>3
<1>3. w \in CudaList
  BY DEF CudaList
<1> HIDE DEF F, G
<1>4. IsFiniteSet(F) /\ IsFiniteSet(G)
  BY <1>1, RigFacts, FS_Subset
<1>5. Cardinality(F) \in Nat /\ Cardinality(G) \in Nat
  BY <1>4, FS_CardinalityType
<1>6. Cardinality(G) < Cardinality(F)
  <2>1. Cardinality(G) <= Cardinality(F) /\ (Cardinality(F) = Cardinality(G) => F = G)
    BY <1>1, <1>4, FS_Subset
  <2> QED
    BY <1>1, <1>5, <2>1
<1>7. Ahead(named, w) = Cardinality(G)
  BY <1>2, <1>4, OnPlatform DEF Ahead
<1>8. Rank(CudaList, w) = {Cardinality(G)}
  BY <1>3, <1>7 DEF Rank
<1> QED
  BY <1>4, <1>5, <1>6, <1>8 DEF RankOf, F, G

\* Of two cards of one name, the later has the higher rank.
LEMMA RankGrows ==
    ASSUME DevicesTypeOK, NEW j \in cuda, NEW k \in cuda, model[j] = model[k], j < k
    PROVE  RankOf(j) < RankOf(k)
<1> DEFINE G == {c \in Fellows(j) : c < j}
           H == {c \in Fellows(k) : c < k}
<1>1. Fellows(j) = Fellows(k) /\ j \in Nat /\ k \in Nat /\ Fellows(j) \subseteq Nat
  BY RigFacts DEF Fellows, DevicesTypeOK
<1>2. G \cup {j} \in SUBSET H /\ j \notin G /\ G \in SUBSET Fellows(j) /\ H \in SUBSET Fellows(j)
  BY <1>1 DEF Fellows
<1>3. RankOf(j) = Cardinality(G) /\ RankOf(k) = Cardinality(H) /\ RankOf(j) \in Nat /\ RankOf(k) \in Nat
  BY RankFacts DEF RankOf
<1> HIDE DEF G, H
<1>4. IsFiniteSet(G) /\ IsFiniteSet(H)
  BY <1>2, RankFacts, FS_Subset
<1>5. Cardinality(G \cup {j}) = Cardinality(G) + 1
  BY <1>2, <1>4, FS_AddElement
<1>6. Cardinality(G \cup {j}) <= Cardinality(H)
  BY <1>2, <1>4, FS_Subset
<1> QED
  BY <1>3, <1>5, <1>6

LEMMA SameRank ==
    ASSUME DevicesTypeOK, NEW j \in cuda, NEW k \in cuda, model[j] = model[k], RankOf(j) = RankOf(k)
    PROVE  j = k
<1>1. j \in Nat /\ k \in Nat
  BY RigFacts DEF DevicesTypeOK
<1>2. RankOf(j) \in Nat /\ RankOf(k) \in Nat
  BY RankFacts
<1>3. ~(j < k)
  BY <1>2, RankGrows
<1>4. ~(k < j)
  BY <1>2, RankGrows
<1> QED
  BY <1>1, <1>3, <1>4

Alike(k) == {d \in OpenclList : d.name = model[k]}

LEMMA AlikeFacts ==
    ASSUME DevicesTypeOK, NEW k \in Cards
    PROVE  /\ IsFiniteSet(Alike(k)) /\ \A d \in Alike(k) : d.platform \in Nat /\ d.card \in Nat
           /\ \A d \in Alike(k) :
                 /\ ~renamed /\ d = Device(d.platform, d.card) /\ d.platform \in Platforms
                 /\ d.card \in Cards /\ d.card \in sees[d.platform] /\ model[d.card] = model[k]
           /\ ~renamed => \A p \in Platforms : \A c \in sees[p] : model[c] = model[k] => Device(p, c) \in Alike(k)
<1>1. IsFiniteSet(Alike(k))
  <2>1. Alike(k) \in SUBSET OpenclList
    BY DEF Alike
  <2> QED
    BY <2>1, OpenclIsFinite, FS_Subset
<1>2. model[k] \notin {"renamed", "igpu"}
  BY DevicesAssumption DEF DevicesTypeOK
<1>3. ASSUME NEW d \in Alike(k)
      PROVE  /\ ~renamed /\ d = Device(d.platform, d.card) /\ d.platform \in Platforms
             /\ d.card \in Cards /\ d.card \in sees[d.platform] /\ model[d.card] = model[k]
  <2>1. d \in OpenclList /\ d.name = model[k]
    BY DEF Alike
  <2>2. /\ d.platform \in Platforms /\ d = Device(d.platform, d.card)
        /\ d.card = IGpu \/ (d.card \in Cards /\ d.card \in sees[d.platform])
    BY <2>1, OpenclFacts
  <2>3. PICK p, c : p = d.platform /\ c = d.card
    OBVIOUS
  <2>4. d.name = IF c = IGpu THEN "igpu" ELSE IF renamed /\ p # Cuda THEN "renamed" ELSE model[c]
    BY <2>2, <2>3, DeviceFacts
  <2>5. p # Cuda
    BY <2>2, <2>3, RigFacts
  <2>6. c # IGpu /\ ~renamed /\ model[c] = model[k]
    BY <1>2, <2>1, <2>4, <2>5 DEF DevicesTypeOK
  <2> QED
    BY <2>2, <2>3, <2>6
<1>4. ASSUME ~renamed, NEW p \in Platforms, NEW c \in sees[p], model[c] = model[k] PROVE Device(p, c) \in Alike(k)
  <2>1. c # IGpu
    BY RigFacts DEF DevicesTypeOK
  <2>2. Device(p, c).name = model[c]
    BY <1>4, <2>1, DeviceFacts
  <2>3. Device(p, c) \in OpenclList
    BY OpenclFacts
  <2> QED
    BY <1>4, <2>2, <2>3 DEF Alike
<1> QED
  BY <1>1, <1>3, <1>4, RigFacts

\* A device on a later platform comes after all the devices of its name on an
\* earlier one.
LEMMA LaterPlatform ==
    ASSUME DevicesTypeOK, NEW S \in SUBSET Cards, AllOrNone(S), NEW k \in cuda, NEW d \in Alike(k),
           NEW q \in Platforms, sees[q] = S, q < d.platform
    PROVE  RankOf(k) < Ahead(Alike(k), d)
<1> DEFINE T == {Device(q, c) : c \in Fellows(k)}
<1>1. k \in Cards /\ ~renamed
  BY AlikeFacts DEF DevicesTypeOK
<1>2. T \subseteq Alike(k)
  <2>1. ASSUME NEW c \in Fellows(k) PROVE Device(q, c) \in Alike(k)
    <3>1. c \in sees[q] /\ model[c] = model[k]
      BY DEF Fellows, AllOrNone
    <3> QED
      BY <1>1, <3>1, AlikeFacts
  <2> QED
    BY <2>1
<1>3. \A t \in T : Earlier(t, d)
  <2>1. \A t \in T : t.platform = q
    BY DeviceFacts
  <2> QED
    BY <2>1 DEF Earlier
<1>4. Cardinality(T) = Cardinality(Fellows(k))
  BY RankFacts, OnPlatform
<1>5. IsFiniteSet(Alike(k))
  BY <1>1, AlikeFacts
<1> HIDE DEF T
<1>6. Cardinality(T) <= Ahead(Alike(k), d)
  BY <1>2, <1>3, <1>5, AheadAtLeast
<1>7. Ahead(Alike(k), d) \in Nat
  BY <1>5, AheadIsNat
<1> QED
  BY <1>4, <1>6, <1>7, RankFacts

\* pick_opencl_for_cuda: the mapping by rank is injective.
LEMMA RankedApart ==
    ASSUME DevicesTypeOK, DriverIsWhole, NEW j \in cuda, NEW k \in cuda, j # k,
           NEW d \in Alike(j), Ahead(Alike(j), d) = RankOf(j),
           NEW e \in Alike(k), Ahead(Alike(k), e) = RankOf(k)
    PROVE  d.card # e.card
<1> SUFFICES ASSUME d.card = e.card PROVE FALSE
  OBVIOUS
<1>1. PICK S \in SUBSET Cards : AllOrNone(S)
  BY DEF DriverIsWhole
<1>2. j \in Cards /\ k \in Cards
  BY DEF DevicesTypeOK
<1>3. /\ d = Device(d.platform, d.card) /\ d.platform \in Platforms /\ model[d.card] = model[j] /\ d.card \in sees[d.platform]
      /\ e = Device(e.platform, e.card) /\ e.platform \in Platforms /\ model[e.card] = model[k] /\ e.card \in sees[e.platform]
  BY <1>2, AlikeFacts
<1>4. model[j] = model[k]
  BY <1>3
<1>5. Alike(j) = Alike(k)
  BY <1>4 DEF Alike
<1>6. RankOf(j) # RankOf(k)
  BY <1>4, SameRank
<1>7. d.platform # e.platform
  BY <1>3, <1>5, <1>6
<1>8. sees[d.platform] = S /\ sees[e.platform] = S
  BY <1>1, <1>3 DEF AllOrNone
<1>9. RankOf(j) \in Nat /\ RankOf(k) \in Nat
  BY RankFacts
<1>10. ~(d.platform < e.platform)
  <2>1. d.platform < e.platform => RankOf(k) < Ahead(Alike(k), e)
    BY <1>1, <1>3, <1>8, LaterPlatform
  <2> QED
    BY <2>1, <1>9
<1>11. ~(e.platform < d.platform)
  <2>1. e.platform < d.platform => RankOf(j) < Ahead(Alike(j), d)
    BY <1>1, <1>3, <1>8, LaterPlatform
  <2> QED
    BY <2>1, <1>9
<1>12. d.platform \in Nat /\ e.platform \in Nat
  BY <1>3, RigFacts
<1> QED
  BY <1>7, <1>10, <1>11, <1>12

\* As long as CUDA lists every card, on the first platform that lists any a
\* device has the place that its card has with CUDA.
LEMMA FirstPlatform ==
    ASSUME DevicesTypeOK, AllOrNone(Cards), cuda = Cards, NEW k \in Cards, NEW d \in Alike(k),
           \A q \in Platforms : q < d.platform => sees[q] # Cards
    PROVE  Ahead(Alike(k), d) = RankOf(d.card)
<1>1. PICK p, c : p = d.platform /\ c = d.card
  OBVIOUS
<1>2. d = Device(p, c) /\ p \in Platforms /\ c \in Cards /\ ~renamed /\ c \in sees[p] /\ model[c] = model[k]
  BY <1>1, AlikeFacts
<1> DEFINE G == {x \in Fellows(c) : x < c}
           E == {e \in Alike(k) : Earlier(e, d)}
<1>3. sees[p] = Cards
  BY <1>2 DEF AllOrNone
<1>4. ASSUME NEW e \in E PROVE \E x \in G : e = Device(p, x)
  <2>1. PICK q, x : q = e.platform /\ x = e.card
    OBVIOUS
  <2>2. e = Device(q, x) /\ q \in Platforms /\ x \in Cards /\ x \in sees[q] /\ model[x] = model[k]
    BY <2>1, AlikeFacts
  <2>3. sees[q] = Cards
    BY <2>2 DEF AllOrNone
  <2>4. q < p \/ (q = p /\ x < c)
    BY <1>1, <2>1 DEF Earlier
  <2>5. q = p /\ x < c
    BY <1>1, <2>2, <2>3, <2>4
  <2> QED
    BY <1>2, <2>2, <2>5 DEF Fellows
<1>5. ASSUME NEW x \in G PROVE Device(p, x) \in E
  <2>1. x \in Cards /\ model[x] = model[k] /\ x < c
    BY <1>2 DEF Fellows
  <2>2. Device(p, x) \in Alike(k)
    BY <1>2, <1>3, <2>1, AlikeFacts
  <2>3. Device(p, x).platform = p /\ Device(p, x).card = x
    BY DeviceFacts
  <2>4. Earlier(Device(p, x), d)
    BY <1>1, <2>1, <2>3 DEF Earlier
  <2> QED
    BY <2>2, <2>4
<1>6. G \in SUBSET Fellows(c) /\ IsFiniteSet(Fellows(c))
  BY <1>2, RankFacts
<1> HIDE DEF G, E
<1>7. E = {Device(p, x) : x \in G}
  BY <1>4, <1>5
<1>8. IsFiniteSet(G)
  BY <1>6, FS_Subset
<1>9. Cardinality(E) = Cardinality(G)
  BY <1>7, <1>8, OnPlatform
<1> QED
  BY <1>1, <1>9 DEF G, E, Ahead, RankOf

LEMMA RankedIsOwn ==
    ASSUME DevicesTypeOK, DriverIsWhole, cuda = Cards, NEW k \in Cards,
           NEW d \in Alike(k), Ahead(Alike(k), d) = RankOf(k)
    PROVE  d.card = k
<1>1. AllOrNone(Cards)
  <2>1. PICK S \in SUBSET Cards : AllOrNone(S)
    BY DEF DriverIsWhole
  <2>2. S = Cards
    BY <2>1 DEF AllOrNone
  <2> QED
    BY <2>1, <2>2
<1>2. d.card \in Cards /\ model[d.card] = model[k]
  BY AlikeFacts
<1>3. RankOf(k) \in Nat
  BY RankFacts
<1>4. \A q \in Platforms : q < d.platform => sees[q] # Cards
  <2>1. ASSUME NEW q \in Platforms, q < d.platform, sees[q] = Cards PROVE FALSE
    <3>1. RankOf(k) < Ahead(Alike(k), d)
      BY <1>1, <2>1, LaterPlatform
    <3> QED
      BY <1>3, <3>1
  <2> QED
    BY <2>1
<1>5. RankOf(d.card) = RankOf(k)
  BY <1>1, <1>4, FirstPlatform
<1> QED
  BY <1>2, <1>5, SameRank

\* ... and there is such a device, when OpenCL tells the name.
LEMMA OwnIsRanked ==
    ASSUME DevicesTypeOK, DriverIsWhole, cuda = Cards, ~renamed, NEW k \in Cards,
           \E p \in Platforms : sees[p] = Cards
    PROVE  \E d \in Alike(k) : Ahead(Alike(k), d) = RankOf(k)
<1>1. AllOrNone(Cards)
  <2>1. PICK S \in SUBSET Cards : AllOrNone(S)
    BY DEF DriverIsWhole
  <2>2. S = Cards
    BY <2>1 DEF AllOrNone
  <2> QED
    BY <2>1, <2>2
<1> DEFINE P == {p \in Platforms : sees[p] = Cards}
<1>2. P \subseteq Nat /\ P # {}
  BY RigFacts
<1>3. PICK p \in P : \A q \in P : ~(<<q, p>> \in OpToRel(<, Nat))
  <2> HIDE DEF P
  <2> QED
    BY <1>2, WFMin, NatLessThanWellFounded, Zenon
<1>4. \A q \in Platforms : q < p => sees[q] # Cards
  <2>1. ASSUME NEW q \in Platforms, q < p, sees[q] = Cards PROVE FALSE
    <3>1. q \in P /\ q \in Nat /\ p \in Nat
      BY <1>2, <2>1
    <3>2. ~(<<q, p>> \in {ss \in Nat \X Nat : ss[1] < ss[2]})
      BY <1>3, <3>1, Zenon DEF OpToRel
    <3> QED
      BY <2>1, <3>1, <3>2
  <2> QED
    BY <2>1
<1>5. p \in Platforms /\ sees[p] = Cards
  OBVIOUS
<1> HIDE DEF P
<1>6. Device(p, k) \in Alike(k)
  BY <1>5, AlikeFacts
<1>7. Device(p, k).platform = p /\ Device(p, k).card = k
  BY DeviceFacts
<1>8. Ahead(Alike(k), Device(p, k)) = RankOf(k)
  BY <1>1, <1>4, <1>6, <1>7, FirstPlatform
<1> QED
  BY <1>6, <1>8

LEMMA WorkerFacts ==
    ASSUME DevicesTypeOK
    PROVE  /\ \A w \in Workers : /\ w = Device(w.platform, w.card) /\ w.platform \in {Cuda} \cup Platforms
                                 /\ w.card \in Cards \cup {IGpu}
           /\ \A w \in CudaWorkers : w \in Workers /\ w.platform = Cuda /\ w = Device(Cuda, w.card)
<1>1. ASSUME NEW w \in Workers
      PROVE /\ w = Device(w.platform, w.card) /\ w.platform \in {Cuda} \cup Platforms
            /\ w.card \in Cards \cup {IGpu}
  <2>1. PICK p \in {Cuda} \cup Platforms, c \in Cards \cup {IGpu} : w = Device(p, c)
    BY DEF DevicesTypeOK, AnyDevice
  <2>2. w.platform = p /\ w.card = c
    BY <2>1, DeviceFacts
  <2> QED
    BY <2>1, <2>2
<1> QED
  BY <1>1 DEF CudaWorkers

LEMMA PickedFacts ==
    ASSUME DevicesTypeOK, CudaOnCards, NEW w \in CudaWorkers
    PROVE  /\ Picked(w) \subseteq OpenclList
           /\ Cardinality(cuda) # 1 =>
                 \A d \in Picked(w) : /\ w.card \in cuda /\ d \in Alike(w.card)
                                      /\ Ahead(Alike(w.card), d) = RankOf(w.card)
           /\ w.card \in cuda /\ (\E d \in Alike(w.card) : Ahead(Alike(w.card), d) = RankOf(w.card)) =>
                 Picked(w) # {}
<1>1. PICK k : k = w.card
  OBVIOUS
<1>2. w = Device(Cuda, k) /\ w.platform = Cuda /\ k \in Cards
  BY <1>1, WorkerFacts DEF CudaOnCards
<1>3. w.name = model[k]
  BY <1>2, DeviceFacts, RigFacts
<1> DEFINE ranked == {d \in Alike(k) : Ahead(Alike(k), d) \in Rank(CudaList, w)}
           nvidia == {d \in OpenclList : d.vendor = "nvidia"}
           alone == Cardinality(CudaList) = 1
<1>4. Picked(w) = IF ranked # {} THEN ranked
                  ELSE IF Cardinality(nvidia) = 1 /\ alone THEN nvidia
                  ELSE IF Cardinality(OpenclList) = 1 /\ alone THEN OpenclList
                  ELSE {}
  BY <1>2, <1>3 DEF Picked, Pick, Alike
<1>5. ranked \subseteq OpenclList /\ nvidia \subseteq OpenclList
  BY DEF Alike
<1>6. Cardinality(CudaList) = Cardinality(cuda)
  <2>1. IsFiniteSet(cuda)
    <3>1. cuda \in SUBSET Cards
      BY DEF DevicesTypeOK
    <3> QED
      BY <3>1, RigFacts, FS_Subset
  <2> QED
    BY <2>1, OnPlatform DEF CudaList
<1>7. k \notin cuda => Rank(CudaList, w) = {}
  <2>1. w \in CudaList => k \in cuda
    <3>1. \A c : Device(Cuda, c).card = c
      BY DeviceFacts
    <3> QED
      BY <1>2, <3>1 DEF CudaList
  <2> QED
    BY <2>1 DEF Rank
<1>8. k \in cuda => Rank(CudaList, w) = {RankOf(k)}
  BY <1>2, RankFacts
<1>9. \A d \in ranked : k \in cuda /\ d \in Alike(k) /\ Ahead(Alike(k), d) = RankOf(k)
  BY <1>7, <1>8
<1>10. k \in cuda => \A d \in Alike(k) : Ahead(Alike(k), d) = RankOf(k) => d \in ranked
  BY <1>8
<1> HIDE DEF ranked, nvidia
<1>11. Picked(w) \subseteq OpenclList
  BY <1>4, <1>5
<1>12. Cardinality(cuda) # 1 => Picked(w) = ranked
  BY <1>4, <1>6
<1>13. ranked # {} => Picked(w) # {}
  BY <1>4
<1>14. ASSUME k \in cuda, \E d \in Alike(k) : Ahead(Alike(k), d) = RankOf(k) PROVE ranked # {}
  BY <1>10, <1>14
<1> QED
  BY <1>1, <1>9, <1>11, <1>12, <1>13, <1>14

\* What a worker falls back to, as long as CUDA lists every card.
LEMMA FallbackFacts ==
    ASSUME DevicesTypeOK, CudaOnCards, DriverIsWhole, NEW w \in CudaWorkers, cuda = Cards
    PROVE  /\ \A d \in Picked(w) : d.card = w.card \/ Cards = {w.card}
           /\ ~renamed /\ (\E p \in Platforms : sees[p] = Cards) => Picked(w) # {}
<1>1. w.card \in Cards
  BY DEF CudaOnCards
<1>2. CASE Cardinality(cuda) # 1
  <2>1. ASSUME NEW d \in Picked(w) PROVE d.card = w.card
    <3>1. d \in Alike(w.card) /\ Ahead(Alike(w.card), d) = RankOf(w.card)
      BY <1>2, PickedFacts
    <3> QED
      BY <1>1, <3>1, RankedIsOwn
  <2>2. ASSUME ~renamed, \E p \in Platforms : sees[p] = Cards PROVE Picked(w) # {}
    BY <1>1, <2>2, OwnIsRanked, PickedFacts
  <2> QED
    BY <2>1, <2>2
<1>3. CASE Cardinality(cuda) = 1
  <2>1. Cards = {w.card}
    <3>1. \E x : Cards = {x}
      BY <1>3, RigFacts, FS_Singleton
    <3> QED
      BY <1>1, <3>1
  <2>2. ASSUME ~renamed, \E p \in Platforms : sees[p] = Cards PROVE Picked(w) # {}
    BY <1>1, <2>2, OwnIsRanked, PickedFacts
  <2> QED
    BY <2>1, <2>2
<1> QED
  BY <1>2, <1>3

LEMMA NumberFacts ==
    ASSUME DevicesTypeOK
    PROVE  /\ \A d : Number(OpenclList, d) \in Nat
           /\ \A d, e \in OpenclList :
                 d.platform = e.platform /\ Number(OpenclList, d) = Number(OpenclList, e) => d = e
<1> DEFINE L(p) == {x \in OpenclList : x.platform = p}
<1>1. ASSUME NEW p PROVE IsFiniteSet(L(p)) /\ \A x \in L(p) : x.platform \in Nat /\ x.card \in Nat
  <2>1. L(p) \in SUBSET OpenclList
    OBVIOUS
  <2>2. IsFiniteSet(L(p))
    BY <2>1, OpenclIsFinite, FS_Subset
  <2>3. \A x \in OpenclList : x.platform \in Nat /\ x.card \in Nat
    BY OpenclFacts, RigFacts
  <2> QED
    BY <2>2, <2>3
<1>2. ASSUME NEW d PROVE Number(OpenclList, d) \in Nat
  BY <1>1, AheadIsNat DEF Number
<1>3. ASSUME NEW d \in OpenclList, NEW e \in OpenclList, d.platform = e.platform,
             Number(OpenclList, d) = Number(OpenclList, e)
      PROVE  d = e
  <2>1. PICK p : p = d.platform
    OBVIOUS
  <2>2. Ahead(L(p), d) = Ahead(L(p), e) /\ d \in L(p) /\ e \in L(p)
    BY <1>3, <2>1 DEF Number
  <2>3. d.card = e.card
    <3> HIDE DEF L
    <3> QED
      BY <1>1, <1>3, <2>2, SamePlace
  <2> QED
    BY <1>3, <2>3, OpenclFacts
<1> QED
  BY <1>2, <1>3

LEMMA SameDevices == UNCHANGED rig => AnyDevice' = AnyDevice
  BY DEF AnyDevice, Device, rig, Platforms

LEMMA SameLists ==
    ASSUME UNCHANGED <<rig, sees>>
    PROVE  OpenclList' = OpenclList /\ \A d : Number(OpenclList, d)' = Number(OpenclList, d)
<1>1. OpenclList' = OpenclList
  BY DEF OpenclList, Other, Listed, Device, Platforms, rig
<1> QED
  BY <1>1 DEF Number, Ahead

LEMMA DevicesStart == DevicesInit => DevicesInv
<1> SUFFICES ASSUME DevicesInit PROVE DevicesInv
  OBVIOUS
<1>1. Workers = {} /\ CudaWorkers = {}
  BY DEF DevicesInit, Workers, CudaWorkers
<1>2. cuda \subseteq Cards /\ sees \in [Platforms -> SUBSET Cards]
  BY DEF DevicesInit
<1>3. DevicesTypeOK
  <2>1. /\ status \in [{} -> {"closed", "open", "failed", "stopped"}] /\ on \in [{} -> Cards \cup {IGpu}]
        /\ index \in [{} -> Nat]
    BY DEF DevicesInit
  <2>2. /\ model \in [Cards -> Models] /\ renamed \in BOOLEAN /\ igpu \in BOOLEAN
        /\ shrunk \in BOOLEAN /\ started \in BOOLEAN
    BY DEF DevicesInit
  <2> QED
    BY <1>1, <1>2, <2>1, <2>2 DEF DevicesTypeOK
<1>4. DriverIsWhole
  <2>1. ASSUME cuda # {} PROVE AllOrNone(Cards)
    BY <1>2, <2>1 DEF DevicesInit, AllOrNone
  <2> QED
    BY <2>1 DEF DriverIsWhole
<1>5. ~shrunk
  BY DEF DevicesInit
<1> QED
  BY <1>1, <1>3, <1>4, <1>5 DEF DevicesInv, CudaOnCards, OneWorkerEach, OneKind, Numbered, ShrinksWithCuda, OnItsOwn,
                               NoCardLost

\* detect_gpus finds no card twice, and one runtime's devices only.
LEMMA FoundFacts ==
    ASSUME DevicesTypeOK, NEW kind \in {"auto", "cuda", "opencl"}
    PROVE  /\ \A d \in Found(kind) : /\ d = Device(d.platform, d.card) /\ d.platform \in {Cuda} \cup Platforms
                                     /\ d.card \in Cards \cup {IGpu}
                                     /\ d.platform = Cuda => d.card \in Cards
                                     /\ d.platform # Cuda => d \in OpenclList
           /\ \A d, e \in Found(kind) : (d.card = e.card => d = e) /\ (d.platform = Cuda <=> e.platform = Cuda)
<1>1. \A d \in CudaList : d = Device(Cuda, d.card) /\ d.platform = Cuda /\ d.card \in Cards
  BY DeviceFacts DEF CudaList, DevicesTypeOK
<1>2. ASSUME NEW d \in Dedup(OpenclList)
      PROVE  d \in OpenclList /\ d = Device(d.platform, d.card) /\ d.platform \in Platforms
             /\ d.card \in Cards \cup {IGpu} /\ d.platform # Cuda
  <2>1. d \in OpenclList
    BY DEF Dedup
  <2> QED
    BY <2>1, OpenclFacts, RigFacts
<1>3. ASSUME NEW d \in Dedup(OpenclList), NEW e \in Dedup(OpenclList), d.card = e.card PROVE d = e
  <2>1. PICK p, q, c : p = d.platform /\ q = e.platform /\ c = d.card
    OBVIOUS
  <2>2. d = Device(p, c) /\ e = Device(q, c) /\ p # Cuda /\ q # Cuda
    BY <1>2, <1>3, <2>1
  <2>3. d.vendor = e.vendor /\ d.name = e.name
    BY <2>2, DeviceFacts
  <2>4. <<d.vendor, d.name>> = <<e.vendor, e.name>>
    BY <2>3
  <2>5. d.platform = e.platform
    BY <2>4 DEF Dedup
  <2> QED
    BY <2>1, <2>2, <2>5
<1>4. Found(kind) = CudaList \/ Found(kind) = Dedup(OpenclList) \/ Found(kind) = {}
  BY DEF Found
<1> QED
  BY <1>1, <1>2, <1>3, <1>4

LEMMA StartKeeps ==
    ASSUME DevicesInv, NEW kind \in {"auto", "cuda", "opencl"}, NEW gpuId, Start(kind, gpuId)
    PROVE  DevicesInv'
<1>1. PICK devices : /\ devices \subseteq Found(kind)
                     /\ status' = [w \in devices |-> "closed"] /\ on' = [w \in devices |-> IGpu]
                     /\ index' = [w \in devices |-> Number(OpenclList, w)]
  BY DEF Start, Closed
<1>2. UNCHANGED <<rig, cuda, sees, shrunk>> /\ started' = TRUE
  BY DEF Start
<1>3. Workers' = devices /\ CudaWorkers' = {w \in devices : w.platform = Cuda}
  BY <1>1 DEF Workers, CudaWorkers
<1>4. /\ \A d \in devices : /\ d = Device(d.platform, d.card) /\ d.platform \in {Cuda} \cup Platforms
                            /\ d.card \in Cards \cup {IGpu}
                            /\ d.platform = Cuda => d.card \in Cards
                            /\ d.platform # Cuda => d \in OpenclList
      /\ \A d, e \in devices : (d.card = e.card => d = e) /\ (d.platform = Cuda <=> e.platform = Cuda)
  BY <1>1, FoundFacts DEF DevicesInv
<1>5. DevicesTypeOK'
  <2>1. Workers' \subseteq AnyDevice'
    <3>1. ASSUME NEW d \in devices PROVE d \in AnyDevice
      BY <1>4 DEF AnyDevice
    <3> QED
      BY <1>2, <1>3, <3>1, SameDevices
  <2>2. /\ status' \in [devices -> {"closed", "open", "failed", "stopped"}] /\ on' \in [devices -> Cards \cup {IGpu}]
        /\ index' \in [devices -> Nat]
    <3>1. \A w \in devices : Number(OpenclList, w) \in Nat
      BY NumberFacts DEF DevicesInv
    <3> QED
      BY <1>1, <3>1
  <2>3. /\ model' \in [Cards -> Models] /\ renamed' \in BOOLEAN /\ igpu' \in BOOLEAN
        /\ shrunk' \in BOOLEAN /\ started' \in BOOLEAN
        /\ cuda' \subseteq Cards /\ sees' \in [Platforms -> SUBSET Cards]
    BY <1>2 DEF DevicesInv, DevicesTypeOK, rig
  <2> QED
    BY <1>3, <2>1, <2>2, <2>3 DEF DevicesTypeOK
<1>6. (CudaOnCards /\ OneWorkerEach /\ OneKind)'
  BY <1>3, <1>4 DEF CudaOnCards, OneWorkerEach, OneKind
<1>7. DriverIsWhole'
  BY <1>2 DEF DevicesInv, DriverIsWhole, AllOrNone, Platforms
<1>8. \A w \in devices : status'[w] = "closed"
  BY <1>1
<1>9. OnItsOwn' /\ NoCardLost' /\ ShrinksWithCuda'
  BY <1>2, <1>3, <1>8 DEF OnItsOwn, NoCardLost, ShrinksWithCuda, DevicesInv
<1>10. Numbered'
  <2>1. ASSUME NEW w \in devices, w.platform # Cuda
        PROVE  w \in OpenclList' /\ index'[w] = Number(OpenclList, w)'
    BY <1>1, <1>2, <1>4, <2>1, SameLists
  <2> QED
    BY <1>3, <2>1 DEF Numbered
<1> QED
  BY <1>5, <1>6, <1>7, <1>9, <1>10 DEF DevicesInv

LEMMA BecomesKeeps ==
    ASSUME DevicesInv, NEW w \in Workers, NEW st \in {"open", "failed", "stopped"}, NEW card \in Cards \cup {IGpu},
           Becomes(w, st, card),
           st = "open" /\ (IF w.platform = Cuda THEN cuda = Cards ELSE ~shrunk) =>
               card = w.card \/ (w.platform = Cuda /\ Cards = {w.card}),
           st = "stopped" /\ w \in CudaWorkers /\ cuda = Cards /\ ~renamed => \A p \in Platforms : sees[p] # Cards
    PROVE  DevicesInv'
<1>1. UNCHANGED <<rig, cuda, sees, shrunk, started, index>> /\ Workers' = Workers /\ CudaWorkers' = CudaWorkers
  BY DEF Becomes, Workers, CudaWorkers
<1>2. /\ status'[w] = st /\ on'[w] = card
      /\ \A v \in Workers : v # w => status'[v] = status[v] /\ on'[v] = on[v]
  BY DEF Becomes, DevicesInv, DevicesTypeOK, Workers
<1>3. DevicesTypeOK'
  <2>1. /\ status' \in [Workers -> {"closed", "open", "failed", "stopped"}] /\ on' \in [Workers -> Cards \cup {IGpu}]
        /\ index' \in [Workers -> Nat]
    BY DEF Becomes, DevicesInv, DevicesTypeOK
  <2>2. Workers' \subseteq AnyDevice'
    BY <1>1, SameDevices DEF DevicesInv, DevicesTypeOK
  <2> QED
    BY <1>1, <2>1, <2>2 DEF DevicesInv, DevicesTypeOK, rig
<1>4. (CudaOnCards /\ OneWorkerEach /\ OneKind /\ DriverIsWhole /\ ShrinksWithCuda)'
  BY <1>1 DEF DevicesInv, CudaOnCards, OneWorkerEach, OneKind, DriverIsWhole, AllOrNone, ShrinksWithCuda, Platforms
<1>5. Numbered'
  <2>1. OpenclList' = OpenclList /\ \A d : Number(OpenclList, d)' = Number(OpenclList, d)
    BY <1>1, SameLists
  <2> QED
    BY <1>1, <2>1 DEF DevicesInv, Numbered
<1>6. OnItsOwn'
  BY <1>1, <1>2 DEF DevicesInv, OnItsOwn
<1>7. NoCardLost'
  <2> SUFFICES ASSUME NEW v \in CudaWorkers, cuda = Cards, ~renamed, \E p \in Platforms : sees[p] = Cards
               PROVE  status'[v] # "stopped"
    BY <1>1 DEF NoCardLost, rig, Platforms
  <2>1. status[v] # "stopped" /\ v \in Workers
    BY DEF DevicesInv, NoCardLost, CudaWorkers
  <2> QED
    BY <1>2, <2>1
<1> QED
  BY <1>3, <1>4, <1>5, <1>6, <1>7 DEF DevicesInv

LEMMA OpensKeeps == ASSUME DevicesInv, NEW w \in Workers, Opens(w) PROVE DevicesInv'
<1>1. DevicesTypeOK /\ Numbered
  BY DEF DevicesInv
<1>2. PICK d \in CudaList \cup OpenclList :
        /\ IF w.platform = Cuda THEN d = w
           ELSE d.platform = w.platform /\ Number(OpenclList, d) = index[w]
        /\ Becomes(w, "open", d.card)
  BY DEF Opens
<1>3. CASE w.platform = Cuda
  <2>1. d = w /\ w.card \in Cards \cup {IGpu}
    BY <1>1, <1>2, <1>3, WorkerFacts
  <2> QED
    BY <1>2, <2>1, BecomesKeeps
<1>4. CASE w.platform # Cuda
  <2>1. \A x \in CudaList : x.platform = Cuda
    BY DeviceFacts DEF CudaList
  <2>2. d \in OpenclList /\ d.platform = w.platform /\ Number(OpenclList, d) = index[w]
    BY <1>2, <1>4, <2>1
  <2>3. d.card \in Cards \cup {IGpu}
    BY <1>1, <2>2, OpenclFacts
  <2>4. ~shrunk => d = w
    BY <1>1, <1>4, <2>2, NumberFacts DEF Numbered
  <2> QED
    BY <1>2, <1>4, <2>3, <2>4, BecomesKeeps
<1> QED
  BY <1>3, <1>4

LEMMA FallsBackKeeps == ASSUME DevicesInv, NEW w \in Workers, FallsBack(w) PROVE DevicesInv'
<1>1. DevicesTypeOK /\ CudaOnCards /\ DriverIsWhole
  BY DEF DevicesInv
<1>2. w.platform = Cuda <=> w \in CudaWorkers
  BY DEF CudaWorkers
<1>3. CASE Picked(w) = {}
  <2>1. Becomes(w, "stopped", IGpu)
    BY <1>3 DEF FallsBack
  <2>2. w \in CudaWorkers /\ cuda = Cards /\ ~renamed => \A p \in Platforms : sees[p] # Cards
    BY <1>1, <1>3, FallbackFacts
  <2> QED
    BY <2>1, <2>2, BecomesKeeps
<1>4. CASE Picked(w) # {}
  <2>1. w \in CudaWorkers
    BY <1>2, <1>4 DEF Picked
  <2>2. PICK d \in Picked(w) : Becomes(w, "open", d.card) \/ Becomes(w, "failed", IGpu)
    BY <1>4 DEF FallsBack
  <2>3. d.card \in Cards \cup {IGpu}
    BY <1>1, <2>1, PickedFacts, OpenclFacts
  <2>4. cuda = Cards => d.card = w.card \/ Cards = {w.card}
    BY <1>1, <2>1, FallbackFacts
  <2>5. CASE Becomes(w, "open", d.card)
    BY <1>2, <2>1, <2>3, <2>4, <2>5, BecomesKeeps
  <2>6. CASE Becomes(w, "failed", IGpu)
    BY <2>6, BecomesKeeps
  <2> QED
    BY <2>2, <2>5, <2>6
<1> QED
  BY <1>3, <1>4

LEMMA VanishesKeeps ==
    ASSUME DevicesInv, NEW c \in Cards, NEW fromOpencl \in BOOLEAN, Vanishes(c, fromOpencl)
    PROVE  DevicesInv'
<1>1. /\ c \in cuda /\ cuda' = cuda \ {c} /\ UNCHANGED <<rig, started, index, on>>
      /\ (\A p \in Platforms : sees'[p] = sees[p] \ {c}) \/ sees' = sees
  BY DEF Vanishes
<1>2. sees' \in [Platforms -> SUBSET Cards]
  BY DEF Vanishes, DevicesInv, DevicesTypeOK
<1>3. shrunk' \in BOOLEAN /\ (~shrunk' => ~shrunk /\ sees' = sees)
  BY DEF Vanishes, DevicesInv, DevicesTypeOK
<1>4. /\ status' \in [Workers -> {"closed", "open", "failed", "stopped"}]
      /\ \A w \in Workers : status'[w] = "open" => status[w] = "open"
  BY DEF Vanishes, DevicesInv, DevicesTypeOK
<1>5. Workers' = Workers /\ CudaWorkers' = CudaWorkers
  <2>1. Workers' = Workers
    BY DEF Vanishes, Workers
  <2> QED
    BY <2>1 DEF CudaWorkers
<1>6. DevicesTypeOK'
  <2>1. Workers' \subseteq AnyDevice'
    BY <1>1, <1>5, SameDevices DEF DevicesInv, DevicesTypeOK
  <2>2. cuda' \subseteq Cards
    BY <1>1 DEF DevicesInv, DevicesTypeOK
  <2> QED
    BY <1>1, <1>2, <1>3, <1>4, <1>5, <2>1, <2>2 DEF DevicesInv, DevicesTypeOK, rig
<1>7. (CudaOnCards /\ OneWorkerEach /\ OneKind)'
  BY <1>5 DEF DevicesInv, CudaOnCards, OneWorkerEach, OneKind
<1>8. DriverIsWhole'
  <2>1. PICK S \in SUBSET Cards : AllOrNone(S)
    BY <1>1 DEF DevicesInv, DriverIsWhole
  <2>2. CASE \A p \in Platforms : sees'[p] = sees[p] \ {c}
    <3>1. cuda' \subseteq S \ {c} /\ \A p \in Platforms : sees'[p] \in {{}, S \ {c}}
      BY <1>1, <2>1, <2>2 DEF AllOrNone
    <3> QED
      BY <3>1 DEF DriverIsWhole, AllOrNone, Platforms
  <2>3. CASE sees' = sees
    <3>1. cuda' \subseteq S /\ \A p \in Platforms : sees'[p] \in {{}, S}
      BY <1>1, <2>1, <2>3 DEF AllOrNone
    <3> QED
      BY <3>1 DEF DriverIsWhole, AllOrNone, Platforms
  <2> QED
    BY <1>1, <2>2, <2>3
<1>9. cuda' # Cards
  BY <1>1
<1>10. OnItsOwn'
  BY <1>1, <1>3, <1>4, <1>5, <1>9 DEF DevicesInv, OnItsOwn
<1>11. NoCardLost' /\ ShrinksWithCuda'
  BY <1>9 DEF NoCardLost, ShrinksWithCuda
<1>12. Numbered'
  <2> SUFFICES ASSUME ~shrunk', NEW w \in Workers, w.platform # Cuda
               PROVE  w \in OpenclList' /\ index'[w] = Number(OpenclList, w)'
    BY <1>5 DEF Numbered
  <2>1. OpenclList' = OpenclList /\ Number(OpenclList, w)' = Number(OpenclList, w)
    BY <1>1, <1>3, SameLists
  <2> QED
    BY <1>1, <1>3, <2>1 DEF DevicesInv, Numbered
<1> QED
  BY <1>6, <1>7, <1>8, <1>10, <1>11, <1>12 DEF DevicesInv

LEMMA DevicesKeep == DevicesInv /\ [DevicesNext]_devicesVars => DevicesInv'
<1> SUFFICES ASSUME DevicesInv, [DevicesNext]_devicesVars PROVE DevicesInv'
  OBVIOUS
<1>1. CASE DevicesNext
  <2>1. ASSUME NEW kind \in {"auto", "cuda", "opencl"}, NEW gpuId \in {{}} \cup {{c - 1} : c \in Cards},
               Start(kind, gpuId)
        PROVE  DevicesInv'
    BY <2>1, StartKeeps
  <2>2. ASSUME NEW w \in Workers, Opens(w) \/ FallsBack(w) PROVE DevicesInv'
    BY <2>2, OpensKeeps, FallsBackKeeps
  <2>3. ASSUME NEW c \in Cards, NEW fromOpencl \in BOOLEAN, Vanishes(c, fromOpencl) PROVE DevicesInv'
    BY <2>3, VanishesKeeps
  <2> QED
    BY <1>1, <2>1, <2>2, <2>3 DEF DevicesNext
<1>2. CASE UNCHANGED devicesVars
  <2>1. UNCHANGED <<model, renamed, igpu, cuda, sees, shrunk, started, index, status, on>>
    BY <1>2 DEF devicesVars, rig
  <2>2. /\ AnyDevice' = AnyDevice
        /\ OpenclList' = OpenclList /\ \A d : Number(OpenclList, d)' = Number(OpenclList, d)
    BY <2>1, SameLists, SameDevices DEF rig
  <2>3. DevicesTypeOK'
    BY <2>1, <2>2 DEF DevicesInv, DevicesTypeOK, Workers
  <2>4. Numbered'
    BY <2>1, <2>2 DEF DevicesInv, Numbered, Workers
  <2> QED
    BY <2>1, <2>3, <2>4 DEF DevicesInv, ShrinksWithCuda, CudaOnCards, OneWorkerEach, OneKind, DriverIsWhole, AllOrNone, OnItsOwn,
                      NoCardLost, Workers, CudaWorkers, Platforms
<1> QED
  BY <1>1, <1>2

LEMMA KeptApart == DevicesInv => CardsKeptApart
<1> SUFFICES ASSUME DevicesInv PROVE CardsKeptApart
  OBVIOUS
<1>1. DevicesTypeOK /\ CudaOnCards /\ OneWorkerEach /\ OneKind /\ DriverIsWhole /\ OnItsOwn /\ ShrinksWithCuda
  BY DEF DevicesInv
<1>2. NoSharedCard
  <2> SUFFICES ASSUME cuda = Cards \/ (CudaWorkers = {} /\ ~shrunk), NEW v \in Workers, NEW w \in Workers, v # w,
                      status[v] = "open", status[w] = "open"
               PROVE  on[v] # on[w]
    BY DEF NoSharedCard
  <2>1. v.card # w.card
    BY <1>1 DEF OneWorkerEach
  <2>2. \A x \in Workers : IF x.platform = Cuda THEN cuda = Cards ELSE ~shrunk
    BY <1>1 DEF CudaWorkers, ShrinksWithCuda
  <2>3. ASSUME NEW x \in Workers, x.platform = Cuda, Cards = {x.card} PROVE v = w
    <3>1. v \in CudaWorkers /\ w \in CudaWorkers
      BY <1>1, <2>3 DEF OneKind, CudaWorkers
    <3>2. v.card = x.card /\ w.card = x.card
      BY <1>1, <2>3, <3>1 DEF CudaOnCards
    <3> QED
      BY <2>1, <3>2
  <2>4. on[v] = v.card /\ on[w] = w.card
    BY <1>1, <2>2, <2>3 DEF OnItsOwn
  <2> QED
    BY <2>1, <2>4
<1>3. PicksApart
  <2> SUFFICES ASSUME Cardinality(cuda) # 1
               PROVE  /\ \A v, w \in CudaWorkers : v # w => \A d \in Picked(v), e \in Picked(w) : d.card # e.card
                      /\ \A w \in CudaWorkers : w.card \notin cuda => Picked(w) = {}
    BY DEF PicksApart
  <2>1. ASSUME NEW w \in CudaWorkers, w.card \notin cuda PROVE Picked(w) = {}
    BY <1>1, <2>1, PickedFacts
  <2>2. ASSUME NEW v \in CudaWorkers, NEW w \in CudaWorkers, v # w, NEW d \in Picked(v), NEW e \in Picked(w)
        PROVE  d.card # e.card
    <3>1. v.card # w.card
      BY <1>1, <2>2, WorkerFacts
    <3>2. v.card \in cuda /\ d \in Alike(v.card) /\ Ahead(Alike(v.card), d) = RankOf(v.card)
      BY <1>1, PickedFacts
    <3>3. w.card \in cuda /\ e \in Alike(w.card) /\ Ahead(Alike(w.card), e) = RankOf(w.card)
      BY <1>1, PickedFacts
    <3> QED
      BY <1>1, <3>1, <3>2, <3>3, RankedApart
  <2> QED
    BY <2>1, <2>2
<1> QED
  BY <1>2, <1>3 DEF CardsKeptApart

\* Detection, selection and fallback keep the devices as DevicesInv says.
THEOREM DevicesAreSound == DevicesSpec => []DevicesInv
<1>1. DevicesInit => DevicesInv
  BY DevicesStart
<1>2. DevicesInv /\ [DevicesNext]_devicesVars => DevicesInv'
  BY DevicesKeep
<1> QED
  BY <1>1, <1>2, PTL DEF DevicesSpec

\* dedup_opencl and pick_opencl_for_cuda, for any rig: no two workers are on one
\* card, and no two ever pick one card's device.
THEOREM CardsStayApart == DevicesSpec => []CardsKeptApart
<1>1. DevicesInv => CardsKeptApart
  BY KeptApart
<1> QED
  BY <1>1, DevicesAreSound, PTL

\* pick_opencl_for_cuda, for any rig: a card that CUDA cannot open is found
\* through OpenCL, if it is listed there by the same name.
THEOREM EveryCardIsFound == DevicesSpec => []NoCardLost
<1>1. DevicesInv => NoCardLost
  BY DEF DevicesInv
<1> QED
  BY <1>1, DevicesAreSound, PTL

=============================================================================
