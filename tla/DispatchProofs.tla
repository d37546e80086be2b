--------------------------- MODULE DispatchProofs ---------------------------
(***************************************************************************)
(* Proofs of the safety properties of module Dispatch, for any number of   *)
(* CPU threads, cards and jobs.  Inductive is proved in four parts, each   *)
(* with one step per action: the types, the job slot (BoardSafe), the two  *)
(* counters (Counts) with the watchdog (WatchSafe), and the hand-over      *)
(* between GPUs and stand-ins (HandOver).                                  *)
(***************************************************************************)
EXTENDS Dispatch, FiniteSetTheorems, TLAPS

USE DEF boardVars, claimVars, guardVars, watchVars, otherGuardVars, cpuVars, gpuVars, notCpu, notGpu, restOfBoard, outsideBoard, Workers

\* Shared::new and main start every thread in a well-typed state.
LEMMA TypeInit == Init => TypeOK
<1>1. Cardinality(Gpus) \in Nat
  BY BoardAssumption, FS_CardinalityType
<1> QED
  BY <1>1, BoardAssumption, ReopenAssumption, FS_CardinalityType
     DEF Init, BoardInit, ClaimsInit, CpuInit, GpuInit, TypeOK, BoardTypeOK, ClaimsTypeOK, CpuTypeOK, GpuTypeOK,
         GpuPc, CallerPc, GuardPc, WatchPc, CpuPc

\* No action of any thread leaves the types.
LEMMA TypeStep == TypeOK /\ [Next]_vars => TypeOK'
<1> SUFFICES ASSUME TypeOK, [Next]_vars PROVE TypeOK'
  OBVIOUS
<1> USE BoardAssumption, ReopenAssumption DEF TypeOK, BoardTypeOK, ClaimsTypeOK, CpuTypeOK, GpuTypeOK,
         GpuPc, CallerPc, GuardPc, WatchPc, CpuPc
<1>1. CASE PoolSends
  BY <1>1 DEF PoolSends, NotePow, AlgoOf
<1>2. CASE StratumPublishes
  BY <1>2 DEF StratumPublishes, PublishJob
<1>3. CASE SessionEnds
  BY <1>3 DEF SessionEnds, ClearSlot
<1>4. CASE StratumBumps
  BY <1>4 DEF StratumBumps, ClearBump
<1>5. ASSUME NEW c \in Cpus, CpuSteps(c) PROVE TypeOK'
  <2>1. CASE CpuTakes(c)
    BY <1>5, <2>1 DEF CpuSteps, CpuTakes, Take, CpuGoes
  <2>2. CASE CpuSleeps(c)
    BY <1>5, <2>2 DEF CpuSteps, CpuSleeps, FallAsleep, WakeSpuriously
  <2>3. CASE ReadCapable(c)
    BY <1>5, <2>3 DEF CpuSteps, ReadCapable, CpuGoes
  <2>4. CASE ReadSlot(c)
    BY <1>5, <2>4 DEF CpuSteps, ReadSlot
  <2>5. CASE DecideRole(c)
    BY <1>5, <2>5 DEF CpuSteps, DecideRole, CpuGoes, SitOut
  <2>6. CASE PassGate(c)
    BY <1>5, <2>6 DEF CpuSteps, PassGate, CpuGoes, SitOut
  <2>7. CASE CpuJobChanged(c)
    BY <1>5, <2>7 DEF CpuSteps, CpuJobChanged, CpuGoes, LetGo
  <2>8. CASE CpuExhausted(c)
    BY <1>5, <2>8 DEF CpuSteps, CpuExhausted, CpuGoes, SitOut
  <2> QED
    BY <1>5, <2>1, <2>2, <2>3, <2>4, <2>5, <2>6, <2>7, <2>8 DEF CpuSteps, CpuStep, CpuProgress
<1>6. ASSUME NEW g \in Gpus, GpuSteps(g) PROVE TypeOK'
  <2> USE DEF GpuGoes, CallSet, NotOverdue, Claim
  <2>1. CASE OpenDevice(g)
    BY <1>6, <2>1 DEF GpuSteps, OpenDevice
  <2>2. CASE GpuTakes(g)
    BY <1>6, <2>2 DEF GpuSteps, GpuTakes, Take
  <2>3. CASE GpuSleeps(g)
    BY <1>6, <2>3 DEF GpuSteps, GpuSleeps, FallAsleep, WakeSpuriously
  <2>4. CASE GateRefuses(g)
    BY <1>6, <2>4 DEF GpuSteps, GateRefuses, SitOut
  <2>5. CASE KernelThere(g)
    BY <1>6, <2>5 DEF GpuSteps, KernelThere
  <2>6. CASE SwitchFails(g)
    BY <1>6, <2>6 DEF GpuSteps, SwitchFails
  <2>7. CASE LoadKernel(g)
    BY <1>6, <2>7 DEF GpuSteps, LoadKernel
  <2>8. CASE FinishLaunch(g)
    BY <1>6, <2>8 DEF GpuSteps, FinishLaunch
  <2>9. CASE GpuJobChanged(g)
    BY <1>6, <2>9 DEF GpuSteps, GpuJobChanged, SpentReopens, LetGo
  <2>10. CASE GpuExhausted(g)
    BY <1>6, <2>10 DEF GpuSteps, GpuExhausted, SpentReopens, SitOut
  <2>11. CASE DeviceGone(g)
    BY <1>6, <2>11, SMTT(20) DEF GpuSteps, DeviceGone, SpentReopens, OutOfReopens, LetGo
  <2>12. CASE Reopen(g)
    BY <1>6, <2>12 DEF GpuSteps, Reopen
  <2>13. CASE LeaveAlive(g)
    BY <1>6, <2>13 DEF GpuSteps, LeaveAlive
  <2> QED
    BY <1>6, <2>1, <2>2, <2>3, <2>4, <2>5, <2>6, <2>7, <2>8, <2>9, <2>10, <2>11, <2>12, <2>13
       DEF GpuSteps, GpuStep
<1>7. ASSUME NEW g \in Gpus, SetSteps(g) PROVE TypeOK'
  <2>1. CASE SetCount(g)
    BY <1>7, <2>1 DEF SetSteps, SetCount
  <2>2. CASE SetCheck(g)
    BY <1>7, <2>2 DEF SetSteps, SetCheck, Returns
  <2>3. CASE SetNudge(g)
    BY <1>7, <2>3 DEF SetSteps, SetNudge, Returns, Nudge
  <2> QED
    BY <1>7, <2>1, <2>2, <2>3 DEF SetSteps
<1>8. CASE GuardSteps
  <2> USE DEF GuardSteps, GuardRests, GuardGoes, Nudge
  <2>1. CASE GuardStart
    BY <1>8, <2>1 DEF GuardStart
  <2>2. CASE GuardFinish
    BY <1>8, <2>2 DEF GuardFinish
  <2>3. CASE GuardCheck
    BY <1>8, <2>3 DEF GuardCheck
  <2>4. CASE GuardNudge
    BY <1>8, <2>4 DEF GuardNudge
  <2>5. ASSUME NEW g \in Gpus, GuardRead(g) PROVE TypeOK'
    BY <1>8, <2>5 DEF GuardRead, Verdict
  <2>6. ASSUME NEW g \in Gpus, GuardAct(g) PROVE TypeOK'
    BY <1>8, <2>6 DEF GuardAct
  <2> QED
    BY <1>8, <2>1, <2>2, <2>3, <2>4, <2>5, <2>6
<1>9. CASE WatchSteps
  <2>1. CASE WatchAlive
    BY <1>9, <2>1 DEF WatchSteps, WatchAlive
  <2>2. CASE WatchReadsAlgo
    BY <1>9, <2>2 DEF WatchSteps, WatchReadsAlgo
  <2>3. CASE WatchDevices
    BY <1>9, <2>3 DEF WatchSteps, WatchDevices, CpuMining
  <2> QED
    BY <1>9, <2>1, <2>2, <2>3 DEF WatchSteps
<1>10. CASE TablesBuilt
  BY <1>10 DEF TablesBuilt, Bc3Initialized
<1>11. ASSUME NEW g \in Gpus, TimePasses(g) PROVE TypeOK'
  BY <1>11 DEF TimePasses, Ages
<1>12. CASE UNCHANGED vars
  BY <1>12 DEF vars
<1> QED
  BY <1>1, <1>2, <1>3, <1>4, <1>5, <1>6, <1>7, <1>8, <1>9, <1>10, <1>11, <1>12 DEF Next, Running, Gone

-----------------------------------------------------------------------------
(***************************************************************************)
(* The slot: one job per generation, and nobody asleep with a job to take. *)
(***************************************************************************)
BoardSafe == PowMatches /\ WaitersWait /\ OneJobPerGeneration /\ NoLostWakeup

\* Every action on the slot, publish_job, clear_job, nudge and the waits,
\* keeps one job per generation and nobody asleep with a job to take.
LEMMA BoardStep == TypeOK /\ BoardSafe /\ [Next]_vars => BoardSafe'
<1> SUFFICES ASSUME TypeOK, BoardSafe, [Next]_vars PROVE BoardSafe'
  OBVIOUS
<1> USE BoardAssumption DEF TypeOK, BoardTypeOK, ClaimsTypeOK, CpuTypeOK, GpuTypeOK, CallerPc,
        BoardSafe, PowMatches, WaitersWait, OneJobPerGeneration, NoLostWakeup, CanTake
<1>1. CASE PoolSends
  BY <1>1 DEF PoolSends, NotePow, AlgoOf, StratumIdle
<1>2. CASE StratumPublishes
  BY <1>2 DEF StratumPublishes, PublishJob, AlgoOf
<1>3. CASE SessionEnds
  BY <1>3 DEF SessionEnds, ClearSlot, StratumIdle
<1>4. CASE StratumBumps
  BY <1>4 DEF StratumBumps, ClearBump
<1>5. ASSUME NEW c \in Cpus, CpuSteps(c) PROVE BoardSafe'
  <2> USE DEF CpuSteps, CpuGoes
  <2>1. CASE CpuTakes(c)
    BY <1>5, <2>1 DEF CpuTakes, Take
  <2>2. CASE CpuSleeps(c)
    BY <1>5, <2>2 DEF CpuSleeps, FallAsleep, WakeSpuriously
  <2>3. CASE ReadCapable(c)
    BY <1>5, <2>3 DEF ReadCapable
  <2>4. CASE ReadSlot(c)
    BY <1>5, <2>4 DEF ReadSlot
  <2>5. CASE DecideRole(c)
    BY <1>5, <2>5 DEF DecideRole, SitOut
  <2>6. CASE PassGate(c)
    BY <1>5, <2>6 DEF PassGate, SitOut
  <2>7. CASE CpuJobChanged(c)
    BY <1>5, <2>7 DEF CpuJobChanged, LetGo
  <2>8. CASE CpuExhausted(c)
    BY <1>5, <2>8 DEF CpuExhausted, SitOut
  <2> QED
    BY <1>5, <2>1, <2>2, <2>3, <2>4, <2>5, <2>6, <2>7, <2>8 DEF CpuStep, CpuProgress
<1>6. ASSUME NEW g \in Gpus, GpuSteps(g) PROVE BoardSafe'
  <2> USE DEF GpuSteps, GpuGoes, CallSet, NotOverdue
  <2>1. CASE OpenDevice(g)
    BY <1>6, <2>1 DEF OpenDevice, Claim
  <2>2. CASE GpuTakes(g)
    BY <1>6, <2>2 DEF GpuTakes, Take
  <2>3. CASE GpuSleeps(g)
    BY <1>6, <2>3 DEF GpuSleeps, FallAsleep, WakeSpuriously
  <2>4. CASE GateRefuses(g)
    BY <1>6, <2>4 DEF GateRefuses, SitOut
  <2>5. CASE KernelThere(g)
    BY <1>6, <2>5 DEF KernelThere
  <2>6. CASE SwitchFails(g)
    BY <1>6, <2>6 DEF SwitchFails
  <2>7. CASE LoadKernel(g)
    BY <1>6, <2>7 DEF LoadKernel
  <2>8. CASE FinishLaunch(g)
    BY <1>6, <2>8 DEF FinishLaunch
  <2>9. CASE GpuJobChanged(g)
    BY <1>6, <2>9 DEF GpuJobChanged, LetGo
  <2>10. CASE GpuExhausted(g)
    BY <1>6, <2>10 DEF GpuExhausted, SitOut
  <2>11. CASE DeviceGone(g)
    BY <1>6, <2>11 DEF DeviceGone, LetGo
  <2>12. CASE Reopen(g)
    BY <1>6, <2>12 DEF Reopen, Claim
  <2>13. CASE LeaveAlive(g)
    BY <1>6, <2>13 DEF LeaveAlive
  <2> QED
    BY <1>6, <2>1, <2>2, <2>3, <2>4, <2>5, <2>6, <2>7, <2>8, <2>9, <2>10, <2>11, <2>12, <2>13 DEF GpuStep
<1>7. ASSUME NEW g \in Gpus, SetSteps(g) PROVE BoardSafe'
  <2>1. CASE SetCount(g)
    BY <1>7, <2>1 DEF SetSteps, SetCount
  <2>2. CASE SetCheck(g)
    BY <1>7, <2>2 DEF SetSteps, SetCheck, Returns
  <2>3. CASE SetNudge(g)
    BY <1>7, <2>3 DEF SetSteps, SetNudge, Returns, Nudge
  <2> QED
    BY <1>7, <2>1, <2>2, <2>3 DEF SetSteps
<1>8. CASE GuardSteps
  BY <1>8 DEF GuardSteps, GuardStart, GuardFinish, GuardCheck, GuardNudge, GuardRead, GuardAct, Nudge
<1>9. CASE WatchSteps
  BY <1>9 DEF WatchSteps, WatchAlive, WatchReadsAlgo, WatchDevices
<1>10. CASE TablesBuilt
  BY <1>10 DEF TablesBuilt, Bc3Initialized
<1>11. ASSUME NEW g \in Gpus, TimePasses(g) PROVE BoardSafe'
  BY <1>11 DEF TimePasses, Ages
<1>12. CASE UNCHANGED vars
  BY <1>12 DEF vars
<1> QED
  BY <1>1, <1>2, <1>3, <1>4, <1>5, <1>6, <1>7, <1>8, <1>9, <1>10, <1>11, <1>12 DEF Next, Running, Gone

-----------------------------------------------------------------------------
(***************************************************************************)
(* The counters: gpu_capable is the number of counted claims, and          *)
(* gpu_workers_alive the number of workers still there.                    *)
(***************************************************************************)
Counts == ClaimsReleased /\ CounterMatchesClaims /\ AliveCounts

\* The two sets that are counted are finite: there are finitely many slots.
LEMMA FiniteCounts == IsFiniteSet(CountedClaims) /\ IsFiniteSet(Living)
  BY BoardAssumption, FS_Subset DEF CountedClaims, Living

\* GpuCapability::set, drop and GpuWorkerAlive keep both counters exact.
LEMMA CountsStep == TypeOK /\ Counts /\ [Next]_vars => Counts'
<1> SUFFICES ASSUME TypeOK, Counts, [Next]_vars PROVE Counts'
  OBVIOUS
<1> USE DEF TypeOK, ClaimsTypeOK, GpuPc, CallerPc, Counts, ClaimsReleased, ClaimFree, SetPending
<1> DEFINE Same == /\ ClaimsReleased'
                   /\ CountedClaims' = CountedClaims /\ gpuCapable' = gpuCapable
                   /\ Living' = Living /\ alive' = alive
<1>a. ASSUME Same PROVE Counts'
  BY <1>a DEF CounterMatchesClaims, AliveCounts
<1>b. ASSUME UNCHANGED <<claims, gpuCapable, gpc, then, alive>> PROVE Counts'
  <2>1. Same
    BY <1>b DEF CountedClaims, Living
  <2> QED
    BY <2>1, <1>a
<1>1. ASSUME NEW g \in Gpus, GpuSteps(g) PROVE Counts'
  <2> USE DEF GpuSteps, GpuGoes, CallSet, CountedClaims, Living
  <2>1. CASE OpenDevice(g)
    BY <1>1, <2>1, <1>a DEF OpenDevice, Claim, CpuMaySupport
  <2>2. CASE GpuTakes(g)
    BY <1>1, <2>2, <1>a DEF GpuTakes
  <2>3. CASE GpuSleeps(g)
    BY <1>1, <2>3, <1>a DEF GpuSleeps
  <2>4. CASE GateRefuses(g)
    BY <1>1, <2>4, <1>a DEF GateRefuses
  <2>5. CASE KernelThere(g)
    BY <1>1, <2>5, <1>a DEF KernelThere
  <2>6. CASE SwitchFails(g)
    BY <1>1, <2>6, <1>a DEF SwitchFails
  <2>7. CASE LoadKernel(g)
    BY <1>1, <2>7, <1>a DEF LoadKernel
  <2>8. CASE FinishLaunch(g)
    BY <1>1, <2>8, <1>a DEF FinishLaunch
  <2>9. CASE GpuJobChanged(g)
    BY <1>1, <2>9, <1>a DEF GpuJobChanged
  <2>10. CASE GpuExhausted(g)
    BY <1>1, <2>10, <1>a DEF GpuExhausted
  <2>11. CASE DeviceGone(g)
    BY <1>1, <2>11, <1>a DEF DeviceGone
  <2>12. CASE Reopen(g)
    BY <1>1, <2>12, <1>a DEF Reopen, Claim, CpuMaySupport
  <2>13. CASE LeaveAlive(g)
    <3>1. ClaimsReleased' /\ CountedClaims' = CountedClaims /\ gpuCapable' = gpuCapable
      BY <1>1, <2>13 DEF LeaveAlive
    <3>2. Living' = Living \ {g} /\ g \in Living /\ alive' = alive - 1
      BY <1>1, <2>13 DEF LeaveAlive
    <3>3. Cardinality(Living \ {g}) = Cardinality(Living) - 1
      BY <3>2, FiniteCounts, FS_RemoveElement
    <3> QED
      BY <3>1, <3>2, <3>3 DEF CounterMatchesClaims, AliveCounts
  <2> QED
    BY <1>1, <2>1, <2>2, <2>3, <2>4, <2>5, <2>6, <2>7, <2>8, <2>9, <2>10, <2>11, <2>12, <2>13 DEF GpuStep
<1>2. ASSUME NEW g \in Gpus, SetSteps(g) PROVE Counts'
  <2>1. CASE SetCount(g)
    <3>1. ClaimsReleased' /\ Living' = Living /\ alive' = alive
      BY <1>2, <2>1 DEF SetSteps, SetCount, Living
    <3>2. CASE g \in claims
      <4>1. CountedClaims' = CountedClaims \cup {g} /\ g \notin CountedClaims
        BY <1>2, <2>1, <3>2 DEF SetSteps, SetCount, CountedClaims
      <4>2. Cardinality(CountedClaims \cup {g}) = Cardinality(CountedClaims) + 1
        BY <4>1, FiniteCounts, FS_AddElement
      <4>3. gpuCapable' = gpuCapable + 1
        BY <2>1, <3>2 DEF SetCount
      <4> QED
        BY <3>1, <4>1, <4>2, <4>3 DEF CounterMatchesClaims, AliveCounts
    <3>3. CASE g \notin claims
      <4>1. CountedClaims' = CountedClaims \ {g} /\ g \in CountedClaims
        BY <1>2, <2>1, <3>3 DEF SetSteps, SetCount, CountedClaims
      <4>2. Cardinality(CountedClaims \ {g}) = Cardinality(CountedClaims) - 1
        BY <4>1, FiniteCounts, FS_RemoveElement
      <4>3. gpuCapable' = gpuCapable - 1
        BY <2>1, <3>3 DEF SetCount
      <4> QED
        BY <3>1, <4>1, <4>2, <4>3 DEF CounterMatchesClaims, AliveCounts
    <3> QED
      BY <3>2, <3>3
  <2>2. CASE SetCheck(g)
    BY <1>2, <2>2, <1>a DEF SetSteps, SetCheck, Returns, CountedClaims, Living
  <2>3. CASE SetNudge(g)
    BY <1>2, <2>3, <1>a DEF SetSteps, SetNudge, Returns, CountedClaims, Living
  <2> QED
    BY <1>2, <2>1, <2>2, <2>3 DEF SetSteps
<1>3. ASSUME NEW c \in Cpus, CpuSteps(c) PROVE Counts'
  BY <1>3, <1>b DEF CpuSteps, CpuStep, CpuProgress, CpuTakes, CpuSleeps, ReadCapable, ReadSlot,
                    DecideRole, PassGate, CpuJobChanged, CpuExhausted
<1>4. CASE PoolSends \/ StratumPublishes \/ SessionEnds \/ StratumBumps
  BY <1>4, <1>b DEF PoolSends, StratumPublishes, SessionEnds, StratumBumps
<1>5. CASE GuardSteps
  BY <1>5, <1>b DEF GuardSteps, GuardStart, GuardFinish, GuardCheck, GuardNudge, GuardRead, GuardAct
<1>6. CASE WatchSteps \/ TablesBuilt
  BY <1>6, <1>b DEF WatchSteps, WatchAlive, WatchReadsAlgo, WatchDevices, TablesBuilt, Bc3Initialized
<1>7. ASSUME NEW g \in Gpus, TimePasses(g) PROVE Counts'
  BY <1>7, <1>b DEF TimePasses
<1>8. CASE UNCHANGED vars
  BY <1>8, <1>b DEF vars
<1> QED
  BY <1>1, <1>2, <1>3, <1>4, <1>5, <1>6, <1>7, <1>8 DEF Next, Running, Gone

-----------------------------------------------------------------------------
(***************************************************************************)
(* The watchdog: it reads the counter of workers after the counter of      *)
(* claims has lost theirs.                                                 *)
(***************************************************************************)
WatchSafe == WatchSawNoneAlive /\ WatchdogSparesMiners

\* With every GPU worker gone, gpus_mine is false: no claim outlives its worker.
LEMMA NoneLeft ==
    ASSUME TypeOK, Counts, \A g \in Gpus : gpc[g] = "dead"
    PROVE  ~GpusMine
<1>1. CountedClaims = {} /\ stalled \cap claims = {}
  BY DEF CountedClaims, Counts, ClaimsReleased, ClaimFree, TypeOK, ClaimsTypeOK
<1>2. gpuCapable = 0 /\ Cardinality(stalled \cap claims) = 0
  BY <1>1, FS_EmptySet DEF Counts, CounterMatchesClaims
<1> QED
  BY <1>2 DEF GpusMine

\* The watchdog's three reads, taken apart, still decide rightly.
LEMMA WatchStep == TypeOK /\ Counts /\ WatchSafe /\ [Next]_vars => WatchSafe'
<1> SUFFICES ASSUME TypeOK, Counts, WatchSafe, [Next]_vars PROVE WatchSafe'
  OBVIOUS
<1> USE DEF TypeOK, ClaimsTypeOK, WatchSafe, WatchSawNoneAlive, WatchdogSparesMiners, Exited
<1>1. CASE UNCHANGED vars
  BY <1>1 DEF vars
<1>2. CASE ~Exited /\ Running
  <2>a. ASSUME UNCHANGED <<watchPc, gpc>> PROVE WatchSafe'
    BY <1>2, <2>a
  <2>1. CASE WatchSteps
    <3>1. CASE WatchAlive
      <4>1. Living = {}
        BY <3>1, FiniteCounts, FS_EmptySet DEF WatchAlive, Counts, AliveCounts
      <4> QED
        BY <1>2, <3>1, <4>1 DEF WatchAlive, Living
    <3>2. CASE WatchReadsAlgo
      BY <3>2 DEF WatchReadsAlgo
    <3>3. CASE WatchDevices
      <4>1. ~GpusMine
        BY <3>3, NoneLeft DEF WatchDevices
      <4> QED
        BY <3>3, <4>1 DEF WatchDevices, CpuMining, CpuMaySupport, WatchPc
    <3> QED
      BY <2>1, <3>1, <3>2, <3>3 DEF WatchSteps
  <2>2. ASSUME NEW g \in Gpus, GpuSteps(g) \/ SetSteps(g) PROVE WatchSafe'
    <3>1. gpc[g] # "dead" /\ watchPc' = watchPc
      BY <2>2 DEF GpuSteps, GpuStep, OpenDevice, GpuTakes, GpuSleeps, GateRefuses, KernelThere, SwitchFails,
                  LoadKernel, FinishLaunch, GpuJobChanged, GpuExhausted, DeviceGone, Reopen, LeaveAlive,
                  SetSteps, SetCount, SetCheck, SetNudge
    <3> QED
      BY <1>2, <3>1
  <2>3. ASSUME NEW c \in Cpus, CpuSteps(c) PROVE WatchSafe'
    BY <2>3, <2>a DEF CpuSteps, CpuStep, CpuProgress, CpuTakes, CpuSleeps, ReadCapable, ReadSlot,
                      DecideRole, PassGate, CpuJobChanged, CpuExhausted
  <2>4. CASE PoolSends \/ StratumPublishes \/ SessionEnds \/ StratumBumps
    BY <2>4, <2>a DEF PoolSends, StratumPublishes, SessionEnds, StratumBumps
  <2>5. CASE GuardSteps
    BY <2>5, <2>a DEF GuardSteps, GuardStart, GuardFinish, GuardCheck, GuardNudge, GuardRead, GuardAct
  <2>6. CASE TablesBuilt
    BY <2>6, <2>a DEF TablesBuilt, Bc3Initialized
  <2>7. ASSUME NEW g \in Gpus, TimePasses(g) PROVE WatchSafe'
    BY <2>7, <2>a DEF TimePasses
  <2> QED
    BY <1>2, <2>1, <2>2, <2>3, <2>4, <2>5, <2>6, <2>7 DEF Running
<1> QED
  BY <1>1, <1>2 DEF Next, Gone

-----------------------------------------------------------------------------
(***************************************************************************)
(* The hand-over: every change of the claims and marks that could take a   *)
(* GPU away is followed by a nudge, so a decision made on reads that were  *)
(* not atomic either still stands or is about to be made again.            *)
(***************************************************************************)
HandOver == GuardSound /\ ReadsStand /\ DeferredJobIsBc3 /\ DeferralStands

\* A step that sets no further slot aside and leaves the counter alone, as
\* when check_gpu_stalls takes a slot back, keeps gpus_mine true.
LEMMA FewerAside ==
    ASSUME TypeOK, gpuCapable' = gpuCapable, GpusMine,
           stalled' \cap claims' \subseteq stalled \cap claims,
           gpuCapable \in Int
    PROVE  GpusMine'
<1>1. IsFiniteSet(stalled \cap claims)
  BY BoardAssumption, FS_Subset DEF TypeOK, ClaimsTypeOK
<1>2. /\ Cardinality(stalled' \cap claims') <= Cardinality(stalled \cap claims)
      /\ Cardinality(stalled' \cap claims') \in Nat /\ Cardinality(stalled \cap claims) \in Nat
  <2>1. IsFiniteSet(stalled' \cap claims') /\ Cardinality(stalled' \cap claims') <= Cardinality(stalled \cap claims)
    BY <1>1, FS_Subset
  <2> QED
    BY <1>1, <2>1, FS_CardinalityType
<1> QED
  BY <1>2 DEF GpusMine

\* What a thread has read bounds what is so.
LEMMA ReadDecides ==
    ASSUME TypeOK, NEW c \in Cpus, capRead[c] = gpuCapable,
           stalled \cap claims \subseteq aside[c],
           capRead[c] > Cardinality(aside[c])
    PROVE  GpusMine
<1>1. IsFiniteSet(aside[c])
  BY BoardAssumption, FS_Subset DEF TypeOK, CpuTypeOK
<1>2. /\ Cardinality(stalled \cap claims) <= Cardinality(aside[c])
      /\ Cardinality(stalled \cap claims) \in Nat /\ Cardinality(aside[c]) \in Nat
  <2>1. IsFiniteSet(stalled \cap claims) /\ Cardinality(stalled \cap claims) <= Cardinality(aside[c])
    BY <1>1, FS_Subset
  <2> QED
    BY <1>1, <2>1, FS_CardinalityType
<1> QED
  BY <1>2 DEF GpusMine, TypeOK, ClaimsTypeOK

\* A thread's decision to leave the job to the GPUs stands, or a wakeup is
\* pending, after every action of GpuCapability::set and check_gpu_stalls.
LEMMA HandOverStep == TypeOK /\ BoardSafe /\ HandOver /\ [Next]_vars => HandOver'
<1> SUFFICES ASSUME TypeOK, BoardSafe, HandOver, [Next]_vars PROVE HandOver'
  OBVIOUS
<1> USE BoardAssumption DEF TypeOK, BoardTypeOK, ClaimsTypeOK, CpuTypeOK, CallerPc,
        HandOver, GuardSound, ReadsStand, DeferredJobIsBc3, DeferralStands
<1> DEFINE Quiet == UNCHANGED <<gpuCapable, claims, stalled>>
<1>a. ASSUME Quiet PROVE GpusMine' <=> GpusMine
  BY <1>a DEF GpusMine
<1>b. ASSUME Quiet, ChangePending' <=> ChangePending, GuardSound',
             UNCHANGED <<job, cpuVars>>,
             \A c \in Cpus : (c \in fresh' <=> c \in fresh) /\ holding'[c] = holding[c]
      PROVE  HandOver'
  BY <1>a, <1>b
<1>c. ASSUME UNCHANGED <<incoming, guardChanges, guardAlgo, gpc>> PROVE ChangePending' <=> ChangePending
  BY <1>c DEF ChangePending, SetPending, GuardPending
<1>d. ASSUME NEW c \in Cpus, c \in fresh, job # NoJob, cpc[c] = "slots" PROVE holding[c] = job
  BY <1>d DEF BoardSafe, OneJobPerGeneration, WaitersWait
\* A change to another proof of work than the slot's leaves nobody to tell.
<1>e. ASSUME pow # "bc3", job # NoJob, incoming = NoJob PROVE job \notin Bc3Jobs
  BY <1>e DEF BoardSafe, PowMatches, AlgoOf
<1>1. CASE PoolSends
  BY <1>1 DEF PoolSends, NotePow, ChangePending, GuardPending
<1>2. CASE StratumPublishes
  BY <1>2 DEF StratumPublishes, PublishJob
<1>3. CASE SessionEnds
  BY <1>3 DEF SessionEnds, ClearSlot
<1>4. CASE StratumBumps
  BY <1>4 DEF StratumBumps, ClearBump
<1>5. ASSUME NEW c \in Cpus, CpuSteps(c) PROVE HandOver'
  <2>a. Quiet /\ UNCHANGED <<job, incoming, guardVars, gpc>>
    BY <1>5 DEF CpuSteps, CpuStep, CpuProgress, CpuTakes, CpuSleeps, ReadCapable, ReadSlot, DecideRole,
                PassGate, CpuJobChanged, CpuExhausted, Take, FallAsleep, WakeSpuriously, SitOut, LetGo
  <2>b. (ChangePending' <=> ChangePending) /\ (GpusMine' <=> GpusMine)
    BY <2>a, <1>a, <1>c
  <2> USE DEF CpuSteps, CpuGoes
  <2>1. CASE CpuTakes(c)
    BY <1>5, <2>1, <2>a, <2>b DEF CpuTakes, Take, CanTake
  <2>2. CASE CpuSleeps(c)
    BY <1>5, <2>2, <2>a, <2>b DEF CpuSleeps, FallAsleep, WakeSpuriously
  <2>3. CASE ReadCapable(c)
    BY <1>5, <2>3, <2>a, <2>b DEF ReadCapable
  <2>4. CASE ReadSlot(c)
    BY <1>5, <2>4, <2>a, <2>b DEF ReadSlot
  <2>5. CASE DecideRole(c)
    <3>1. CASE Takes(c)
      BY <1>5, <2>5, <2>a, <2>b, <3>1 DEF DecideRole
    <3>2. CASE ~Takes(c)
      <4>a. Cardinality(aside[c]) \in Nat
        BY FS_Subset, FS_CardinalityType
      <4>1. (c \in fresh /\ job # NoJob) => job \in Bc3Jobs
        BY <1>d, <2>5, <3>2, <4>a DEF DecideRole, Takes
      <4>2. (c \in fresh /\ job # NoJob) => GpusMine \/ ChangePending
        BY <1>d, <2>5, <3>2, <4>1, ReadDecides DEF DecideRole, Takes
      <4> QED
        BY <1>5, <2>5, <2>a, <2>b, <3>2, <4>1, <4>2 DEF DecideRole, SitOut
    <3> QED
      BY <3>1, <3>2
  <2>6. CASE PassGate(c)
    BY <1>5, <2>6, <2>a, <2>b DEF PassGate, SitOut
  <2>7. CASE CpuJobChanged(c)
    BY <1>5, <2>7, <2>a, <2>b DEF CpuJobChanged, LetGo
  <2>8. CASE CpuExhausted(c)
    BY <1>5, <2>8, <2>a, <2>b DEF CpuExhausted, SitOut
  <2> QED
    BY <1>5, <2>1, <2>2, <2>3, <2>4, <2>5, <2>6, <2>7, <2>8 DEF CpuStep, CpuProgress
<1>6. ASSUME NEW g \in Gpus, GpuSteps(g) PROVE HandOver'
  <2>a. /\ UNCHANGED <<job, incoming, gpuCapable, stalled, otherGuardVars, cpuVars>>
        /\ \A c \in Cpus : (c \in fresh' <=> c \in fresh) /\ holding'[c] = holding[c]
        /\ guardDue' \subseteq guardDue
    <3> USE DEF GpuSteps, GpuGoes, CallSet, NotOverdue
    <3>1. CASE OpenDevice(g)
      BY <1>6, <3>1 DEF OpenDevice, Claim, CpuMaySupport
    <3>2. CASE GpuTakes(g)
      BY <1>6, <3>2 DEF GpuTakes, Take
    <3>3. CASE GpuSleeps(g)
      BY <1>6, <3>3 DEF GpuSleeps, FallAsleep, WakeSpuriously
    <3>4. CASE GateRefuses(g)
      BY <1>6, <3>4 DEF GateRefuses, SitOut
    <3>5. CASE KernelThere(g)
      BY <1>6, <3>5 DEF KernelThere
    <3>6. CASE SwitchFails(g)
      BY <1>6, <3>6 DEF SwitchFails
    <3>7. CASE LoadKernel(g)
      BY <1>6, <3>7 DEF LoadKernel
    <3>8. CASE FinishLaunch(g)
      BY <1>6, <3>8 DEF FinishLaunch
    <3>9. CASE GpuJobChanged(g)
      BY <1>6, <3>9 DEF GpuJobChanged, LetGo
    <3>10. CASE GpuExhausted(g)
      BY <1>6, <3>10 DEF GpuExhausted, SitOut
    <3>11. CASE DeviceGone(g)
      BY <1>6, <3>11 DEF DeviceGone, LetGo
    <3>12. CASE Reopen(g)
      BY <1>6, <3>12 DEF Reopen, Claim, CpuMaySupport
    <3>13. CASE LeaveAlive(g)
      BY <1>6, <3>13 DEF LeaveAlive
    <3> QED
      BY <1>6, <3>1, <3>2, <3>3, <3>4, <3>5, <3>6, <3>7, <3>8, <3>9, <3>10, <3>11, <3>12, <3>13 DEF GpuStep
  <2>b. \/ gpc'[g] = "count"
        \/ claims' = claims /\ ~SetPending(g) /\ ~SetPending(g)'
    <3> USE DEF GpuSteps, GpuGoes, CallSet, SetPending
    <3>1. CASE OpenDevice(g)
      BY <1>6, <3>1 DEF OpenDevice, Claim, CpuMaySupport
    <3>2. CASE GpuTakes(g)
      BY <1>6, <3>2 DEF GpuTakes
    <3>3. CASE GpuSleeps(g)
      BY <1>6, <3>3 DEF GpuSleeps
    <3>4. CASE GateRefuses(g)
      BY <1>6, <3>4 DEF GateRefuses
    <3>5. CASE KernelThere(g)
      BY <1>6, <3>5 DEF KernelThere
    <3>6. CASE SwitchFails(g)
      BY <1>6, <3>6 DEF SwitchFails
    <3>7. CASE LoadKernel(g)
      BY <1>6, <3>7 DEF LoadKernel
    <3>8. CASE FinishLaunch(g)
      BY <1>6, <3>8 DEF FinishLaunch
    <3>9. CASE GpuJobChanged(g)
      BY <1>6, <3>9 DEF GpuJobChanged
    <3>10. CASE GpuExhausted(g)
      BY <1>6, <3>10 DEF GpuExhausted
    <3>11. CASE DeviceGone(g)
      BY <1>6, <3>11 DEF DeviceGone
    <3>12. CASE Reopen(g)
      BY <1>6, <3>12 DEF Reopen, Claim, CpuMaySupport
    <3>13. CASE LeaveAlive(g)
      BY <1>6, <3>13 DEF LeaveAlive
    <3> QED
      BY <1>6, <3>1, <3>2, <3>3, <3>4, <3>5, <3>6, <3>7, <3>8, <3>9, <3>10, <3>11, <3>12, <3>13 DEF GpuStep
  <2>c. \A h \in Gpus \ {g} : gpc'[h] = gpc[h]
    BY <1>6 DEF GpuSteps, GpuStep, GpuGoes, CallSet, OpenDevice, GpuTakes, GpuSleeps, GateRefuses, KernelThere,
                SwitchFails, LoadKernel, FinishLaunch, GpuJobChanged, GpuExhausted, DeviceGone, Reopen,
                LeaveAlive, Claim
  <2>d. GuardSound'
    BY <2>a
  <2>1. CASE gpc'[g] = "count"
    <3>1. ChangePending'
      BY <2>1 DEF ChangePending, SetPending
    <3> QED
      BY <2>a, <2>d, <3>1
  <2>2. CASE claims' = claims /\ ~SetPending(g) /\ ~SetPending(g)'
    <3>1. ChangePending' <=> ChangePending
      BY <2>2, <2>a, <2>c DEF ChangePending, SetPending, GuardPending
    <3> QED
      BY <2>2, <2>a, <2>d, <3>1, <1>b
  <2> QED
    BY <2>b, <2>1, <2>2
<1>7. ASSUME NEW g \in Gpus, SetSteps(g) PROVE HandOver'
  <2>1. CASE SetCount(g)
    <3>1. ChangePending'
      BY <1>7, <2>1 DEF SetCount, ChangePending, SetPending
    <3> QED
      BY <1>7, <2>1, <3>1 DEF SetSteps, SetCount
  <2>2. CASE SetCheck(g)
    <3>1. CASE pow = "bc3"
      <4>1. ChangePending'
        BY <1>7, <2>2, <3>1 DEF SetCheck, ChangePending, SetPending
      <4> QED
        BY <1>7, <2>2, <4>1 DEF SetSteps, SetCheck
    <3>2. CASE pow # "bc3"
      <4>1. UNCHANGED <<boardVars, guardVars, cpuVars>>
        BY <1>7, <2>2 DEF SetSteps, SetCheck
      <4>2. incoming # NoJob => ChangePending'
        BY <4>1 DEF ChangePending
      <4>3. (job # NoJob /\ ~ChangePending') => job \notin Bc3Jobs
        BY <3>2, <4>2, <1>e
      <4> QED
        BY <4>1, <4>3, <1>d
    <3> QED
      BY <3>1, <3>2
  <2>3. CASE SetNudge(g)
    BY <1>7, <2>3 DEF SetSteps, SetNudge, Nudge
  <2> QED
    BY <1>7, <2>1, <2>2, <2>3 DEF SetSteps
<1>8. CASE GuardSteps
  <2> USE DEF GuardSteps
  <2>1. CASE GuardStart
    <3>1. ChangePending' <=> ChangePending
      BY <1>8, <2>1 DEF GuardStart, ChangePending, SetPending, GuardPending
    <3> QED
      BY <1>8, <2>1, <3>1, <1>b DEF GuardStart
  <2>2. CASE GuardFinish
    <3>1. ChangePending' <=> ChangePending
      BY <1>8, <2>2 DEF GuardFinish, GuardRests, GuardGoes, ChangePending, SetPending, GuardPending
    <3> QED
      BY <1>8, <2>2, <3>1, <1>b DEF GuardFinish, GuardRests, GuardGoes
  <2>3. CASE GuardCheck
    <3>1. UNCHANGED <<boardVars, claimVars, gpc, cpuVars>> /\ GuardSound'
      BY <1>8, <2>3 DEF GuardCheck, GuardRests, GuardGoes
    <3>2. CASE pow = guardAlgo
      <4>1. ChangePending' <=> ChangePending
        BY <2>3, <3>2, <1>c, <3>1 DEF GuardCheck, GuardGoes
      <4> QED
        BY <3>1, <4>1, <1>b
    <3>3. CASE guardAlgo # "bc3"
      <4>1. ChangePending' <=> ChangePending
        BY <2>3, <3>3, <3>1 DEF GuardCheck, GuardRests, GuardGoes, ChangePending, SetPending, GuardPending
      <4> QED
        BY <3>1, <4>1, <1>b
    <3>4. CASE pow # guardAlgo /\ guardAlgo = "bc3"
      <4>1. incoming # NoJob => ChangePending'
        BY <3>1 DEF ChangePending
      <4>2. (job # NoJob /\ ~ChangePending') => job \notin Bc3Jobs
        BY <3>4, <4>1, <1>e
      <4> QED
        BY <3>1, <4>2, <1>d
    <3> QED
      BY <3>2, <3>3, <3>4
  <2>4. CASE GuardNudge
    BY <1>8, <2>4 DEF GuardNudge, GuardRests, Nudge
  <2>5. ASSUME NEW g \in Gpus, GuardRead(g) PROVE HandOver'
    <3>1. ChangePending' <=> ChangePending
      BY <1>8, <2>5, <1>c DEF GuardRead
    <3>2. GuardSound'
      BY <2>5 DEF GuardRead, Verdict
    <3> QED
      BY <1>8, <2>5, <3>1, <3>2, <1>b DEF GuardRead
  <2>6. ASSUME NEW g \in Gpus, GuardAct(g) PROVE HandOver'
    <3>1. GuardSound' /\ UNCHANGED <<boardVars, claims, gpuCapable, gpc, guardAlgo, cpuVars>>
      BY <1>8, <2>6 DEF GuardAct
    <3>2. CASE guardVerdict = "stall"
      <4>1. ChangePending'
        BY <2>6, <3>2 DEF GuardAct, ChangePending, GuardPending
      <4> QED
        BY <3>1, <4>1
    <3>3. CASE guardVerdict # "stall"
      <4>1. stalled' \subseteq stalled
        BY <2>6, <3>3 DEF GuardAct
      <4>2. ChangePending => ChangePending'
        BY <2>6, <3>1 DEF GuardAct, ChangePending, SetPending, GuardPending
      <4>3. GpusMine => GpusMine'
        BY <3>1, <4>1, FewerAside
      <4> QED
        BY <3>1, <4>1, <4>2, <4>3
    <3> QED
      BY <3>2, <3>3
  <2> QED
    BY <1>8, <2>1, <2>2, <2>3, <2>4, <2>5, <2>6
<1>9. CASE WatchSteps \/ TablesBuilt
  <2>1. UNCHANGED <<boardVars, claimVars, gpc, guardVars, cpuVars>>
    BY <1>9 DEF WatchSteps, WatchAlive, WatchReadsAlgo, WatchDevices, TablesBuilt, Bc3Initialized
  <2> QED
    BY <2>1, <1>b, <1>c
<1>10. ASSUME NEW g \in Gpus, TimePasses(g) PROVE HandOver'
  <2>1. UNCHANGED <<job, incoming, fresh, holding, claimVars, gpc, guardVars, cpuVars>>
    BY <1>10 DEF TimePasses, Ages
  <2> QED
    BY <2>1, <1>b, <1>c
<1>11. CASE UNCHANGED vars
  <2>1. UNCHANGED <<boardVars, claimVars, gpc, guardVars, cpuVars>>
    BY <1>11 DEF vars
  <2> QED
    BY <2>1, <1>b, <1>c
<1> QED
  BY <1>1, <1>2, <1>3, <1>4, <1>5, <1>6, <1>7, <1>8, <1>9, <1>10, <1>11 DEF Next, Running, Gone

-----------------------------------------------------------------------------
(***************************************************************************)
(* Every reachable state satisfies Inductive, whatever the numbers of CPU  *)
(* threads and cards and whatever the pool and the drivers do.             *)
(***************************************************************************)
THEOREM Invariance == Spec => []Inductive
<1>1. Init => Inductive
  <2> SUFFICES ASSUME Init PROVE Inductive
    OBVIOUS
  <2> USE BoardAssumption DEF Init, BoardInit, ClaimsInit, CpuInit, GpuInit
  <2>1. TypeOK
    BY TypeInit
  <2>2. BoardSafe
    BY DEF BoardSafe, PowMatches, WaitersWait, OneJobPerGeneration, NoLostWakeup
  <2>3. Counts
    <3>1. CountedClaims = {} /\ Living = Gpus
      BY DEF CountedClaims, Living
    <3> QED
      BY <3>1, FS_EmptySet DEF Counts, ClaimsReleased, ClaimFree, SetPending, CounterMatchesClaims, AliveCounts
  <2>4. WatchSafe
    BY DEF WatchSafe, WatchSawNoneAlive, WatchdogSparesMiners, Exited
  <2>5. HandOver
    BY DEF HandOver, GuardSound, ReadsStand, DeferredJobIsBc3, DeferralStands
  <2> QED
    BY <2>1, <2>2, <2>3, <2>4, <2>5 DEF Inductive, BoardSafe, Counts, WatchSafe, HandOver
<1>2. Inductive /\ [Next]_vars => Inductive'
  BY TypeStep, BoardStep, CountsStep, WatchStep, HandOverStep
     DEF Inductive, BoardSafe, Counts, WatchSafe, HandOver
<1> QED
  BY <1>1, <1>2, PTL DEF Spec

(***************************************************************************)
(* The states stay well-typed (JobBoard, GpuClaims, CpuLoop, GpuLoop).     *)
(***************************************************************************)
THEOREM TypeCorrect == Spec => []TypeOK
<1>1. Inductive => TypeOK
  BY DEF Inductive
<1> QED
  BY <1>1, Invariance, PTL

(***************************************************************************)
(* A generation names one job: no worker whose generation is current works *)
(* on anything but the slot's job (publish_job, clear_job, nudge).         *)
(***************************************************************************)
THEOREM GenerationNamesJob == Spec => []OneJobPerGeneration
<1>1. Inductive => OneJobPerGeneration
  BY DEF Inductive
<1> QED
  BY <1>1, Invariance, PTL

(***************************************************************************)
(* No wake-up is lost: nobody sleeps on job_cv with a job to take.         *)
(***************************************************************************)
THEOREM NobodyOversleeps == Spec => []NoLostWakeup
<1>1. Inductive => NoLostWakeup
  BY DEF Inductive
<1> QED
  BY <1>1, Invariance, PTL

(***************************************************************************)
(* The stand-ins take over: a CPU thread that left the current job to the  *)
(* GPUs, on reads of separate relaxed atomics, does so rightly or is about *)
(* to be woken (run_worker, GpuCapability::set, check_gpu_stalls).         *)
(***************************************************************************)
THEOREM StandInsTakeOver == Spec => []DeferralStands
<1>1. Inductive => DeferralStands
  BY DEF Inductive
<1> QED
  BY <1>1, Invariance, PTL

(***************************************************************************)
(* gpu_capable never drifts from the claims, on any exit path.             *)
(***************************************************************************)
THEOREM CounterIsExact == Spec => []CounterMatchesClaims
<1>1. Inductive => CounterMatchesClaims
  BY DEF Inductive
<1> QED
  BY <1>1, Invariance, PTL

(***************************************************************************)
(* The watchdog never ends a process that could still mine the proof of    *)
(* work it asked about (main.rs).                                          *)
(***************************************************************************)
THEOREM WatchdogIsSafe == Spec => []WatchdogSparesMiners
<1>1. Inductive => WatchdogSparesMiners
  BY DEF Inductive
<1> QED
  BY <1>1, Invariance, PTL

=============================================================================
