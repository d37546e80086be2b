--------------------------- MODULE StratumProofs ---------------------------
(***************************************************************************)
(* Proofs of the safety properties of module Stratum, for any number of    *)
(* workers, any queue and any number of connections and messages.          *)
(***************************************************************************)
EXTENDS Stratum, FiniteSetTheorems, SequenceTheorems, TLAPS

USE DEF sessionVars, backoffVars, jobVars

\* The job slot is emptied before the wait, and stays empty until a session
\* of the next connection has heard its extranonce1.
SlotEmptyBetween == spc \in {"cleared", "backoff", "connect"} => slot = "none"

\* Once the queue has been emptied, shares of the old job still come in, but
\* all of them are late ones: connecting makes none of them "old".
OnlyLateBetween ==
    spc \in {"backoff", "connect"} => \A i \in 1 .. Len(queue) : queue[i] # "cur"

\* A session starts with nothing to count.
NothingAwaited == spc = "connect" => awaiting = 0

\* Only a job brings a worker to work, and jobs have a proof of work.
HeldAfterJob == (\E w \in Workers : holding[w] # "none") => pow # "none"

SlotInv == SlotOfThisConnection /\ SlotEmptyBetween
QueueInv == QueueStaysWithConnection /\ OnlyLateBetween
CountInv == CountedOnce /\ NothingAwaited
BestInv == BestOfCurrentPow /\ HeldAfterJob

\* Messages of either direction.
Upward == Requests \X (Shares \cup {"none"})
Downward == (Requests \X Answers) \cup ({0} \X Said)

-----------------------------------------------------------------------------
(***************************************************************************)
(* The types.                                                              *)
(***************************************************************************)
LEMMA TypeInit == Init => TypeOK
<1> SUFFICES ASSUME Init PROVE TypeOK
  OBVIOUS
<1>1. queue \in Seq(Shares) /\ Len(queue) = 0
  BY EmptySeq DEF Init
<1>2. up \in Seq(Upward) /\ down \in Seq(Downward)
  BY EmptySeq DEF Init
<1>3. quiet \in 0 .. SilencePolls /\ ladder \in 1 .. MaxSecs /\ wait \in 0 .. MaxSecs /\ awaiting \in Int
          /\ Len(queue) <= QueueMax
  BY <1>1, StratumAssumption DEF Init
<1>4. slot \in Connections /\ holding \in [Workers -> Connections]
  BY DEF Init, Connections
<1> QED
  BY <1>1, <1>2, <1>3, <1>4 DEF Init, TypeOK, Upward, Downward

\* What Ended does to a queue of shares.
LEMMA EndedQueue ==
    ASSUME NEW q \in Seq(Shares)
    PROVE  /\ [i \in 1 .. Len(q) |-> Ended(q[i])] \in Seq(Shares)
           /\ Len([i \in 1 .. Len(q) |-> Ended(q[i])]) = Len(q)
  BY DEF Ended, Shares

\* No step of the client, the workers or the pool leaves the types.
LEMMA TypeStep == TypeOK /\ [Next]_vars => TypeOK'
<1> SUFFICES ASSUME TypeOK, [Next]_vars PROVE TypeOK'
  OBVIOUS
<1> USE StratumAssumption
<1>1. ASSUME Fails, queue' = queue \/ (queue # <<>> /\ queue' = Tail(queue)) PROVE TypeOK'
  <2>1. ladder' \in 1 .. MaxSecs /\ wait' \in 0 .. MaxSecs
    BY <1>1 DEF Fails, TypeOK, Doubled, LadderStart
  <2>2. queue' \in Seq(Shares) /\ Len(queue') <= QueueMax
    <3>1. CASE queue' = queue
      BY <3>1 DEF TypeOK
    <3>2. CASE queue # <<>> /\ queue' = Tail(queue)
      <4>1. Tail(queue) \in Seq(Shares) /\ Len(Tail(queue)) = Len(queue) - 1 /\ Len(queue) \in Nat
        BY <3>2, HeadTailProperties, LenProperties DEF TypeOK
      <4> QED
        BY <3>2, <4>1 DEF TypeOK
    <3> QED
      BY <1>1, <3>1, <3>2
  <2>3. up' \in Seq(Upward) /\ down' \in Seq(Downward)
    BY <1>1, EmptySeq DEF Fails
  <2> QED
    BY <1>1, <2>1, <2>2, <2>3 DEF Fails, TypeOK, Upward, Downward
<1>2. CASE Connect
  <2>1. up' \in Seq(Upward)
    <3>1. <<SubscribeId, "none">> \in Upward /\ <<SuggestId, "none">> \in Upward
              /\ <<AuthorizeId, "none">> \in Upward
      BY DEF Upward, Requests
    <3>2. (IF Suggests THEN <<<<SuggestId, "none">>>> ELSE <<>>) \in Seq(Upward)
      BY <3>1, EmptySeq
    <3> HIDE DEF Upward
    <3> QED
      BY <1>2, <3>1, <3>2, ConcatProperties DEF Connect
  <2>2. queue' \in Seq(Shares) /\ Len(queue') <= QueueMax
    BY <1>2, EndedQueue DEF Connect, TypeOK
  <2>3. slot' \in Connections /\ holding' \in [Workers -> Connections]
    BY <1>2 DEF Connect, Ended, TypeOK, Connections
  <2> QED
    BY <1>2, <2>1, <2>2, <2>3 DEF Connect, TypeOK, Upward
<1>3. CASE LinkBreaks
  BY <1>1, <1>3 DEF LinkBreaks
<1>4. CASE ClearJob \/ DropQueued \/ WaitOver
  <2>1. <<>> \in Seq(Shares) /\ Len(<<>>) = 0
    BY EmptySeq
  <2>2. CASE ClearJob
    BY <2>2 DEF ClearJob, SlotCleared, TypeOK, Connections
  <2>3. CASE DropQueued
    <3>1. queue' \in Seq(Shares) /\ Len(queue') = 0
      BY <2>1, <2>3 DEF DropQueued, QueueDropped
    <3> QED
      BY <2>3, <3>1 DEF DropQueued, TypeOK
  <2>4. CASE WaitOver
    <3>1. wait' \in 0 .. MaxSecs /\ awaiting' \in Int
      BY <2>4 DEF WaitOver
    <3>2. subscribed' \in BOOLEAN
      BY <2>4 DEF WaitOver
    <3> QED
      BY <2>4, <3>1, <3>2 DEF WaitOver, TypeOK
  <2> QED
    BY <1>4, <2>2, <2>3, <2>4
<1>5. CASE ReportHashrate
  <2>1. up' \in Seq(Upward)
    BY <1>5 DEF ReportHashrate, TypeOK, Upward, Requests
  <2> QED
    BY <1>5, <2>1 DEF ReportHashrate, TypeOK, Upward
<1>6. CASE SendShare
  <2>1. up' \in Seq(Upward) /\ queue' \in Seq(Shares) /\ Len(queue') <= QueueMax
    BY <1>6 DEF SendShare, TypeOK, Upward, Requests
  <2> QED
    BY <1>6, <2>1 DEF SendShare, TypeOK, Upward
<1>7. CASE QueueSent \/ TurnsHealthy
  BY <1>7 DEF QueueSent, TurnsHealthy, TypeOK
<1>8. CASE ReadTimesOut
  <2>1. CASE quiet >= SilencePolls
    BY <1>1, <1>8, <2>1 DEF ReadTimesOut
  <2>2. CASE ~(quiet >= SilencePolls)
    BY <1>8, <2>2 DEF ReadTimesOut, PollIsSilence, TypeOK
  <2> QED
    BY <2>1, <2>2
<1>9. ASSUME down # <<>>, Handled,
             subscribed' \in BOOLEAN, authorized' \in {"no", "yes", "healthy"},
             report' \in {"off", "on", "refused"}, awaiting' \in Int,
             slot' \in Connections, pow' \in {"none", "bc3", "other"}, best' \in {"none", "bc3"},
             holding' = holding
      PROVE  TypeOK'
  <2>1. down' \in Seq(Downward)
    BY <1>9 DEF Handled, TypeOK, Downward
  <2> QED
    BY <1>9, <2>1 DEF Handled, TypeOK, Downward
<1>10. CASE HearSubscribed
  <2>1. CASE Answer = "ok"
    BY <1>9, <1>10, <2>1 DEF HearSubscribed, Heard, TypeOK
  <2>2. CASE Answer # "ok"
    BY <1>1, <1>10, <2>2 DEF HearSubscribed
  <2> QED
    BY <2>1, <2>2
<1>11. CASE HearAuthorized
  <2>1. CASE Answer = "ok"
    BY <1>9, <1>11, <2>1 DEF HearAuthorized, Heard, TypeOK
  <2>2. CASE Answer # "ok"
    BY <1>1, <1>11, <2>2 DEF HearAuthorized
  <2> QED
    BY <2>1, <2>2
<1>12. CASE HearHashrate
  BY <1>9, <1>12 DEF HearHashrate, Heard, TypeOK
<1>13. CASE HearAnswer
  BY <1>9, <1>13 DEF HearAnswer, TypeOK
<1>14. CASE HearNotify
  BY <1>9, <1>14 DEF HearNotify, Heard, TypeOK, Connections
<1>15. CASE HearDifficulty
  BY <1>9, <1>15 DEF HearDifficulty, Heard, TypeOK
<1>16. CASE HearReconnect
  BY <1>1, <1>16 DEF HearReconnect
<1>17. ASSUME NEW w \in Workers, WorkerSteps(w) PROVE TypeOK'
  <2>1. CASE WorkerTakes(w) \/ WorkerLetsGo(w)
    <3>1. holding' \in [Workers -> Connections]
      BY <2>1 DEF WorkerTakes, WorkerLetsGo, TypeOK, Connections
    <3> QED
      BY <2>1, <3>1 DEF WorkerTakes, WorkerLetsGo, TypeOK
  <2>2. CASE WorkerFinds(w)
    <3>1. best' \in {"none", "bc3"}
      BY <2>2 DEF WorkerFinds, BestWith, TypeOK
    <3>2. queue' \in Seq(Shares) /\ Len(queue') <= QueueMax
      BY <2>2 DEF WorkerFinds, TypeOK, Shares
    <3> QED
      BY <2>2, <3>1, <3>2 DEF WorkerFinds, TypeOK
  <2> QED
    BY <1>17, <2>1, <2>2 DEF WorkerSteps
<1>18. CASE PoolAnswers
  <2>1. Head(up) \in Upward /\ up' \in Seq(Upward)
    BY <1>18 DEF PoolAnswers, TypeOK, Upward
  <2>2. PICK a \in Answers : down' = Append(down, <<Head(up)[1], a>>)
    BY <1>18 DEF PoolAnswers
  <2>3. <<Head(up)[1], a>> \in Downward
    BY <2>1 DEF Upward, Downward
  <2>4. down' \in Seq(Downward)
    BY <2>2, <2>3 DEF TypeOK, Downward
  <2> QED
    BY <1>18, <2>1, <2>4 DEF PoolAnswers, TypeOK, Upward, Downward
<1>19. CASE PoolSends
  <2>1. down' \in Seq(Downward)
    BY <1>19 DEF PoolSends, TypeOK, Downward
  <2> QED
    BY <1>19, <2>1 DEF PoolSends, TypeOK, Downward
<1>20. CASE UNCHANGED vars
  BY <1>20 DEF vars, TypeOK
<1> QED
  BY <1>2, <1>3, <1>4, <1>5, <1>6, <1>7, <1>8, <1>10, <1>11, <1>12, <1>13, <1>14, <1>15, <1>16,
     <1>17, <1>18, <1>19, <1>20 DEF Next, ClientProgress

\* run_client's and the workers' state keeps its types, the queue its limit and
\* the ladder its bounds, for any number of workers and connections.
THEOREM StratumTypeCorrect == Spec => []TypeOK
  BY TypeInit, TypeStep, PTL DEF Spec

-----------------------------------------------------------------------------
(***************************************************************************)
(* The slot, the queue and the best share.                                 *)
(***************************************************************************)
LEMMA SlotInit == Init => SlotInv
  BY DEF Init, SlotInv, SlotOfThisConnection, SlotEmptyBetween

LEMMA SlotStep == TypeOK /\ SlotInv /\ [Next]_vars => SlotInv'
<1> SUFFICES ASSUME TypeOK, SlotInv, [Next]_vars PROVE SlotInv'
  OBVIOUS
<1> USE DEF SlotInv, SlotOfThisConnection, SlotEmptyBetween
<1>1. CASE Connect
  BY <1>1 DEF Connect, Ended
<1>2. CASE LinkBreaks \/ ClearJob \/ DropQueued \/ WaitOver
  BY <1>2 DEF LinkBreaks, Fails, InSession, ClearJob, SlotCleared, DropQueued, WaitOver
<1>3. CASE ReportHashrate \/ SendShare \/ QueueSent \/ TurnsHealthy
  BY <1>3 DEF ReportHashrate, SendShare, QueueSent, TurnsHealthy
<1>4. CASE ReadTimesOut \/ HearSubscribed \/ HearAuthorized \/ HearReconnect
  BY <1>4 DEF ReadTimesOut, HearSubscribed, HearAuthorized, HearReconnect, Fails, Handled, Heard
<1>5. CASE HearHashrate \/ HearAnswer \/ HearDifficulty
  BY <1>5 DEF HearHashrate, HearAnswer, HearDifficulty, Handled, Heard
<1>6. CASE HearNotify
  BY <1>6 DEF HearNotify, Handled, Heard
<1>7. CASE PoolAnswers \/ PoolSends
  BY <1>7 DEF PoolAnswers, PoolSends
<1>8. CASE \E w \in Workers : WorkerSteps(w)
  BY <1>8 DEF WorkerSteps, WorkerTakes, WorkerLetsGo, WorkerFinds
<1>9. CASE UNCHANGED vars
  BY <1>9 DEF vars
<1> QED
  BY <1>1, <1>2, <1>3, <1>4, <1>5, <1>6, <1>7, <1>8, <1>9 DEF Next, ClientProgress

LEMMA QueueInit == Init => QueueInv
<1>1. Len(<<>>) = 0
  BY EmptySeq
<1> QED
  BY <1>1 DEF Init, QueueInv, QueueStaysWithConnection, OnlyLateBetween

\* Taking the oldest share out of the queue.
LEMMA TailOfQueue ==
    ASSUME NEW q \in Seq(Shares), q # <<>>, NEW x, \A i \in 1 .. Len(q) : q[i] # x
    PROVE  \A i \in 1 .. Len(Tail(q)) : Tail(q)[i] # x
  BY HeadTailProperties, LenProperties

LEMMA QueueStep == TypeOK /\ QueueInv /\ [Next]_vars => QueueInv'
<1> SUFFICES ASSUME TypeOK, QueueInv, [Next]_vars PROVE QueueInv'
  OBVIOUS
<1> USE DEF QueueInv, QueueStaysWithConnection, OnlyLateBetween
<1>1. CASE Connect
  <2>1. queue \in Seq(Shares) /\ \A i \in 1 .. Len(queue) : queue[i] \notin {"cur", "old"}
    BY <1>1 DEF Connect, TypeOK
  <2>2. Len(queue') = Len(queue) /\ \A i \in 1 .. Len(queue) : queue'[i] \notin {"cur", "old"}
    BY <1>1, <2>1, EndedQueue DEF Connect, Ended
  <2> QED
    BY <2>2
<1>2. ASSUME spc' \notin {"backoff", "connect"}, queue' = queue PROVE QueueInv'
  BY <1>2
<1>3. CASE LinkBreaks
  BY <1>2, <1>3, TailOfQueue DEF LinkBreaks, Fails, TypeOK
<1>4. CASE ClearJob \/ QueueSent \/ ReportHashrate
  BY <1>4 DEF ClearJob, QueueSent, ReportHashrate
<1>5. CASE DropQueued
  <2>1. Len(queue') = 0
    BY <1>5, EmptySeq DEF DropQueued, QueueDropped
  <2> QED
    BY <2>1
<1>6. CASE WaitOver \/ TurnsHealthy \/ PoolAnswers \/ PoolSends \/ UNCHANGED vars
  BY <1>6 DEF WaitOver, TurnsHealthy, PoolAnswers, PoolSends, vars
<1>7. CASE SendShare
  BY <1>7, TailOfQueue DEF SendShare, TypeOK
<1>8. CASE ReadTimesOut \/ HearSubscribed \/ HearAuthorized \/ HearReconnect
  BY <1>2, <1>8 DEF ReadTimesOut, HearSubscribed, HearAuthorized, HearReconnect, Fails, Handled
<1>9. CASE HearHashrate \/ HearAnswer \/ HearNotify \/ HearDifficulty
  BY <1>2, <1>9 DEF HearHashrate, HearAnswer, HearNotify, HearDifficulty, Handled
<1>10. ASSUME NEW w \in Workers, WorkerSteps(w) PROVE QueueInv'
  <2>1. CASE WorkerTakes(w) \/ WorkerLetsGo(w)
    BY <2>1 DEF WorkerTakes, WorkerLetsGo
  <2>2. CASE WorkerFinds(w)
    <3>1. CASE queue' = queue
      BY <2>2, <3>1 DEF WorkerFinds
    <3>2. ASSUME NEW share \in {"cur", "late"}, queue' = Append(queue, share),
                 spc \in {"backoff", "connect"} => share = "late"
          PROVE  QueueInv'
      <4>1. /\ Len(queue') = Len(queue) + 1 /\ Len(queue) \in Nat
            /\ queue'[Len(queue) + 1] = share
            /\ \A i \in 1 .. Len(queue) : queue'[i] = queue[i]
        BY <3>2, AppendProperties, LenProperties DEF TypeOK, Shares
      <4>2. spc' = spc
        BY <2>2 DEF WorkerFinds
      <4> QED
        BY <3>2, <4>1, <4>2
    <3> QED
      BY <2>2, <3>1, <3>2 DEF WorkerFinds
  <2> QED
    BY <1>10, <2>1, <2>2 DEF WorkerSteps
<1> QED
  BY <1>1, <1>3, <1>4, <1>5, <1>6, <1>7, <1>8, <1>9, <1>10 DEF Next, ClientProgress

LEMMA BestInit == Init => BestInv
  BY DEF Init, BestInv, BestOfCurrentPow, HeldAfterJob

LEMMA BestStep == TypeOK /\ BestInv /\ [Next]_vars => BestInv'
<1> SUFFICES ASSUME TypeOK, BestInv, [Next]_vars PROVE BestInv'
  OBVIOUS
<1> USE DEF BestInv, BestOfCurrentPow, HeldAfterJob
<1>1. CASE Connect
  BY <1>1 DEF Connect, Ended
<1>2. ASSUME UNCHANGED jobVars PROVE BestInv'
  BY <1>2
<1>3. CASE LinkBreaks \/ DropQueued \/ WaitOver
  BY <1>2, <1>3 DEF LinkBreaks, Fails, DropQueued, WaitOver
<1>4. CASE ClearJob
  BY <1>4 DEF ClearJob
<1>5. CASE ReportHashrate \/ SendShare \/ QueueSent \/ TurnsHealthy \/ PoolAnswers \/ PoolSends
  BY <1>2, <1>5 DEF ReportHashrate, SendShare, QueueSent, TurnsHealthy, PoolAnswers, PoolSends
<1>6. CASE ReadTimesOut \/ HearSubscribed \/ HearAuthorized \/ HearReconnect
  BY <1>2, <1>6 DEF ReadTimesOut, HearSubscribed, HearAuthorized, HearReconnect, Fails
<1>7. CASE HearHashrate \/ HearAnswer \/ HearDifficulty
  BY <1>2, <1>7 DEF HearHashrate, HearAnswer, HearDifficulty
<1>8. CASE HearNotify
  BY <1>8 DEF HearNotify, TypeOK
<1>9. ASSUME NEW w \in Workers, WorkerSteps(w) PROVE BestInv'
  BY <1>9 DEF WorkerSteps, WorkerTakes, WorkerLetsGo, WorkerFinds, BestWith, TypeOK
<1>10. CASE UNCHANGED vars
  BY <1>2, <1>10 DEF vars
<1> QED
  BY <1>1, <1>3, <1>4, <1>5, <1>6, <1>7, <1>8, <1>9, <1>10 DEF Next, ClientProgress

-----------------------------------------------------------------------------
(***************************************************************************)
(* Counting the submits on their way.                                      *)
(***************************************************************************)
Tally(s) == Cardinality(ShareMessages(s))

\* A message whose first part is a request id, or 0.
Message == Nat \X (Shares \cup {"none"} \cup Answers \cup Said)

LEMMA MessagesAreMessages ==
    /\ Seq(Upward) \subseteq Seq(Message)
    /\ Seq(Downward) \subseteq Seq(Message)
<1>1. Upward \subseteq Message /\ Downward \subseteq Message
  BY DEF Upward, Downward, Message, Requests, SubscribeId, AuthorizeId, SuggestId, HashrateId, FirstSubmit
<1> QED
  BY <1>1

LEMMA SharesFinite ==
    ASSUME NEW s \in Seq(Message)
    PROVE  IsFiniteSet(ShareMessages(s)) /\ Tally(s) \in Nat
<1>1. IsFiniteSet(1 .. Len(s))
  BY FS_Interval
<1>2. ShareMessages(s) \subseteq 1 .. Len(s)
  BY DEF ShareMessages
<1> QED
  BY <1>1, <1>2, FS_Subset, FS_CardinalityType DEF Tally

LEMMA TallyEmpty == Tally(<<>>) = 0
<1>1. ShareMessages(<<>>) = {}
  BY EmptySeq DEF ShareMessages
<1> QED
  BY <1>1, FS_EmptySet DEF Tally

LEMMA TallyAppend ==
    ASSUME NEW s \in Seq(Message), NEW m \in Message
    PROVE  Tally(Append(s, m)) = Tally(s) + (IF m[1] >= FirstSubmit THEN 1 ELSE 0)
<1>1. /\ Len(Append(s, m)) = Len(s) + 1 /\ Len(s) \in Nat
      /\ Append(s, m)[Len(s) + 1] = m
      /\ \A i \in 1 .. Len(s) : Append(s, m)[i] = s[i]
  BY AppendProperties, LenProperties
<1>2. CASE m[1] >= FirstSubmit
  <2>1. ShareMessages(Append(s, m)) = ShareMessages(s) \cup {Len(s) + 1}
    BY <1>1, <1>2 DEF ShareMessages
  <2>2. Len(s) + 1 \notin ShareMessages(s)
    BY <1>1 DEF ShareMessages
  <2> QED
    BY <1>2, <2>1, <2>2, SharesFinite, FS_AddElement DEF Tally
<1>3. CASE ~(m[1] >= FirstSubmit)
  <2>1. ShareMessages(Append(s, m)) = ShareMessages(s)
    BY <1>1, <1>3 DEF ShareMessages
  <2> QED
    BY <1>3, <2>1, SharesFinite DEF Tally
<1> QED
  BY <1>2, <1>3

LEMMA TallyTail ==
    ASSUME NEW s \in Seq(Message), s # <<>>
    PROVE  Tally(Tail(s)) = Tally(s) - (IF s[1][1] >= FirstSubmit THEN 1 ELSE 0)
<1>1. /\ Tail(s) \in Seq(Message) /\ Len(Tail(s)) = Len(s) - 1 /\ Len(s) \in Nat \ {0}
      /\ \A i \in 1 .. Len(s) - 1 : Tail(s)[i] = s[i + 1]
  BY HeadTailProperties, LenProperties, EmptySeq
<1> DEFINE S == ShareMessages(Tail(s))
           T == ShareMessages(s) \ {1}
           f == [i \in S |-> i + 1]
<1>2. f \in Bijection(S, T)
  <2>1. S \subseteq 1 .. Len(s) - 1 /\ T \subseteq 2 .. Len(s)
    BY <1>1 DEF ShareMessages
  <2>2. \A i \in 1 .. Len(s) - 1 : i \in S <=> i + 1 \in T
    BY <1>1 DEF ShareMessages
  <2> HIDE DEF S, T
  <2>3. f \in [S -> T]
    BY <2>1, <2>2
  <2>4. \A i, j \in S : f[i] = f[j] => i = j
    BY <2>1
  <2>5. \A t \in T : \E i \in S : f[i] = t
    <3> SUFFICES ASSUME NEW t \in T PROVE \E i \in S : f[i] = t
      OBVIOUS
    <3>1. t - 1 \in 1 .. Len(s) - 1 /\ (t - 1) + 1 = t
      BY <1>1, <2>1
    <3>2. t - 1 \in S
      BY <2>2, <3>1
    <3> QED
      BY <3>1, <3>2
  <2> QED
    BY <2>3, <2>4, <2>5 DEF Bijection, Injection, Surjection, IsInjective
<1>3. IsFiniteSet(S) /\ IsFiniteSet(ShareMessages(s)) /\ Tally(s) \in Nat
  BY <1>1, SharesFinite
<1>4. Cardinality(T) = Cardinality(S)
  BY <1>2, <1>3, FS_Bijection DEF ExistsBijection
<1>5. Cardinality(T) = IF 1 \in ShareMessages(s) THEN Tally(s) - 1 ELSE Tally(s)
  BY <1>3, FS_RemoveElement DEF Tally
<1>6. 1 \in ShareMessages(s) <=> s[1][1] >= FirstSubmit
  BY <1>1 DEF ShareMessages
<1> QED
  BY <1>3, <1>4, <1>5, <1>6 DEF Tally

LEMMA CountInit == Init => CountInv
  BY DEF Init, CountInv, CountedOnce, InSession, NothingAwaited

LEMMA CountStep == TypeOK /\ CountInv /\ [Next]_vars => CountInv'
<1> SUFFICES ASSUME TypeOK, CountInv, [Next]_vars PROVE CountInv'
  OBVIOUS
<1> USE DEF CountInv, NothingAwaited
<1>1. up \in Seq(Message) /\ down \in Seq(Message) /\ awaiting \in Int
          /\ Tally(up) \in Nat /\ Tally(down) \in Nat
  BY MessagesAreMessages, SharesFinite DEF TypeOK, Upward, Downward
<1>2. CountedOnce <=> (InSession => awaiting = Tally(up) + Tally(down))
  BY DEF CountedOnce, Tally
<1>3. CountedOnce' <=> (InSession' => awaiting' = Tally(up') + Tally(down'))
  BY DEF CountedOnce, Tally
<1>4. ASSUME UNCHANGED <<awaiting, up, down>>, InSession' => InSession, spc' = "connect" => spc = "connect"
      PROVE  CountInv'
  BY <1>2, <1>3, <1>4
<1>5. ASSUME spc' \in {"failed", "cleared", "backoff"} PROVE CountInv'
  BY <1>3, <1>5 DEF InSession
<1>6. CASE Connect
  <2>1. ShareMessages(up') = {}
    <3>1. \A i \in 1 .. Len(up') : up'[i][1] < FirstSubmit
      BY <1>6 DEF Connect, SubscribeId, AuthorizeId, SuggestId, FirstSubmit
    <3>2. \A i \in 1 .. Len(up') : up'[i][1] \in {SubscribeId, AuthorizeId, SuggestId}
      BY <1>6 DEF Connect
    <3> QED
      BY <3>1, <3>2 DEF ShareMessages, SubscribeId, AuthorizeId, SuggestId, FirstSubmit
  <2>2. Tally(up') = 0 /\ Tally(down') = 0
    BY <1>6, <2>1, TallyEmpty, FS_EmptySet DEF Connect, Tally
  <2>3. awaiting' = 0 /\ spc' = "send"
    BY <1>6 DEF Connect
  <2> QED
    BY <1>3, <2>2, <2>3
<1>7. CASE LinkBreaks \/ ClearJob \/ DropQueued
  BY <1>5, <1>7 DEF LinkBreaks, Fails, ClearJob, DropQueued
<1>8. CASE WaitOver
  BY <1>3, <1>8 DEF WaitOver, InSession
<1>9. ASSUME NEW m \in Message, up' = Append(up, m), down' = down, spc' = spc, spc = "send",
             awaiting' = awaiting + (IF m[1] >= FirstSubmit THEN 1 ELSE 0)
      PROVE  CountInv'
  <2>1. Tally(up') = Tally(up) + (IF m[1] >= FirstSubmit THEN 1 ELSE 0)
    BY <1>1, <1>9, TallyAppend
  <2> QED
    BY <1>1, <1>2, <1>3, <1>9, <2>1 DEF InSession
<1>10. CASE ReportHashrate
  <2>1. <<HashrateId, "none">> \in Message /\ ~(HashrateId >= FirstSubmit)
    BY DEF Message, HashrateId, FirstSubmit
  <2> QED
    BY <1>1, <1>9, <1>10, <2>1 DEF ReportHashrate
<1>11. CASE SendShare
  <2>1. <<FirstSubmit, Head(queue)>> \in Message /\ FirstSubmit >= FirstSubmit
    BY <1>11, HeadTailProperties DEF SendShare, TypeOK, Message, FirstSubmit
  <2> QED
    BY <1>9, <1>11, <2>1 DEF SendShare
<1>12. CASE QueueSent \/ TurnsHealthy \/ UNCHANGED vars
  BY <1>4, <1>12 DEF QueueSent, TurnsHealthy, InSession, vars
<1>13. CASE ReadTimesOut
  BY <1>4, <1>5, <1>13 DEF ReadTimesOut, Fails, InSession
<1>14. ASSUME spc = "read", down # <<>>, Handled,
              awaiting' = awaiting - (IF down[1][1] >= FirstSubmit THEN 1 ELSE 0)
       PROVE  CountInv'
  <2>1. Tally(down') = Tally(down) - (IF down[1][1] >= FirstSubmit THEN 1 ELSE 0)
    BY <1>1, <1>14, TallyTail DEF Handled
  <2> QED
    BY <1>1, <1>2, <1>3, <1>14, <2>1 DEF InSession, Handled
<1>15. ASSUME NEW id \in {0, SubscribeId, AuthorizeId, HashrateId}, Heard(id), Handled, awaiting' = awaiting
       PROVE  CountInv'
  <2>1. ~(down[1][1] >= FirstSubmit)
    BY <1>15 DEF Heard, FirstSubmit, SubscribeId, AuthorizeId, HashrateId
  <2> QED
    BY <1>1, <1>14, <1>15, <2>1 DEF Heard
<1>16. CASE HearSubscribed \/ HearAuthorized \/ HearReconnect
  BY <1>5, <1>15, <1>16 DEF HearSubscribed, HearAuthorized, HearReconnect, Fails
<1>17. CASE HearHashrate \/ HearNotify \/ HearDifficulty
  BY <1>15, <1>17 DEF HearHashrate, HearNotify, HearDifficulty
<1>18. CASE HearAnswer
  BY <1>1, <1>14, <1>18 DEF HearAnswer, CountsAsShare
<1>19. CASE \E w \in Workers : WorkerSteps(w)
  BY <1>4, <1>19 DEF WorkerSteps, WorkerTakes, WorkerLetsGo, WorkerFinds, InSession
<1>20. CASE PoolAnswers
  <2>1. PICK a \in Answers : down' = Append(down, <<Head(up)[1], a>>)
    BY <1>20 DEF PoolAnswers
  <2> DEFINE m == <<Head(up)[1], a>>
  <2>2. up # <<>> /\ Head(up) = up[1] /\ Head(up) \in Upward /\ m \in Message /\ m[1] = up[1][1]
    BY <1>20, HeadTailProperties
       DEF PoolAnswers, TypeOK, Upward, Message, Requests, SubscribeId, AuthorizeId, SuggestId, HashrateId, FirstSubmit
  <2>3. Tally(up') = Tally(up) - (IF up[1][1] >= FirstSubmit THEN 1 ELSE 0)
    BY <1>1, <1>20, <2>2, TallyTail DEF PoolAnswers
  <2>4. Tally(down') = Tally(down) + (IF up[1][1] >= FirstSubmit THEN 1 ELSE 0)
    BY <1>1, <2>1, <2>2, TallyAppend
  <2> QED
    BY <1>1, <1>2, <1>3, <1>20, <2>3, <2>4 DEF PoolAnswers, InSession
<1>21. CASE PoolSends
  <2>1. PICK said \in Said : down' = Append(down, <<0, said>>)
    BY <1>21 DEF PoolSends
  <2>2. <<0, said>> \in Message /\ ~(0 >= FirstSubmit)
    BY DEF Message, FirstSubmit
  <2>3. Tally(down') = Tally(down)
    BY <1>1, <2>1, <2>2, TallyAppend
  <2> QED
    BY <1>1, <1>2, <1>3, <1>21, <2>3 DEF PoolSends, InSession
<1> QED
  BY <1>6, <1>7, <1>8, <1>10, <1>11, <1>12, <1>13, <1>16, <1>17, <1>18, <1>19, <1>20, <1>21
     DEF Next, ClientProgress

-----------------------------------------------------------------------------
(***************************************************************************)
(* The theorems.                                                           *)
(***************************************************************************)

\* run_client and session, for any number of reconnects: the job the workers
\* are offered was built with the extranonce1 of the connection in progress.
THEOREM SlotIsOfThisConnection == Spec => []SlotOfThisConnection
<1>1. SlotInv => SlotOfThisConnection
  BY DEF SlotInv
<1> QED
  BY <1>1, SlotInit, SlotStep, StratumTypeCorrect, PTL DEF Spec

\* run_client empties the queue after a session (submit_rx.try_iter): a share
\* that was queued when a connection failed is never sent on the next.
THEOREM QueueIsOfThisConnection == Spec => []QueueStaysWithConnection
<1>1. QueueInv => QueueStaysWithConnection
  BY DEF QueueInv
<1> QED
  BY <1>1, QueueInit, QueueStep, StratumTypeCorrect, PTL DEF Spec

\* session, where it reads an answer's id: each submit is counted as accepted or
\* rejected once and no other answer is, whatever is in flight.
THEOREM SubmitsAreCountedOnce == Spec => []CountedOnce
<1>1. CountInv => CountedOnce
  BY DEF CountInv
<1> QED
  BY <1>1, CountInit, CountStep, StratumTypeCorrect, PTL DEF Spec

\* note_pow and record_share: whatever launches of an earlier job still report,
\* the best share is of the proof of work the pool asks for now.
THEOREM BestIsOfCurrentPow == Spec => []BestOfCurrentPow
<1>1. BestInv => BestOfCurrentPow
  BY DEF BestInv
<1> QED
  BY <1>1, BestInit, BestStep, StratumTypeCorrect, PTL DEF Spec

=============================================================================
