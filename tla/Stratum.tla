------------------------------ MODULE Stratum ------------------------------
(***************************************************************************)
(* The stratum client thread (src/src/stratum.rs: run_client, session) and *)
(* the queue of found shares between it and the workers (Shared::submit,   *)
(* record_share).  The pool and the link to it are external: what is sent  *)
(* arrives in order and once, until the connection ends.                   *)
(*                                                                         *)
(* Which connection something belongs to is relative: "cur" for the one in *)
(* progress or just ended, "old" for an earlier one; connecting turns      *)
(* every "cur" into "old", so sessions need no bound.  Difficulties,       *)
(* coinbases and round trip times are data no property tells apart.        *)
(***************************************************************************)
EXTENDS Integers, Sequences, FiniteSets

CONSTANTS
    Workers,        \* threads that find shares
    Suggests,       \* TRUE: cfg.suggest_difficulty is set (a CUDA card is there)
    QueueMax,       \* SUBMIT_QUEUE
    MaxSecs,        \* Backoff::MAX_SECS
    SilencePolls,   \* POOL_SILENCE_TIMEOUT, in READ_POLLs
    MaxWire         \* bound: messages in flight in either direction

ASSUME StratumAssumption ==
    /\ Suggests \in BOOLEAN
    /\ QueueMax \in Nat \ {0} /\ MaxSecs \in Nat \ {0} /\ MaxWire \in Nat
    /\ SilencePolls \in Nat

VARIABLES
    spc,        \* "connect", "send" and "read" in a session, "failed", "cleared", "backoff"
    quiet,      \* reads that timed out since the pool was last heard (last_rx)
    subscribed, \* the pool's extranonce1 is known
    authorized, \* authorized_at: "no", "yes", "healthy" once HEALTHY_SESSION old
    report,     \* HashrateReport: "off", "on", "refused"
    ladder,     \* Backoff.next
    wait,       \* the seconds of the sleep in progress
    slot,       \* connection of the job in the slot, or "none"
    pow,        \* the proof of work of the latest job
    best,       \* proof of work of the best share, or "none"
    holding,    \* connection of the job each worker is at, or "none"
    queue,      \* found shares: "cur", "old", or "late": found after its
                \*   connection's queue was emptied
    up, down,   \* messages to and from the pool
    awaiting    \* submits of this session not yet counted as accepted or rejected

sessionVars == <<subscribed, authorized, report, awaiting>>
backoffVars == <<ladder, wait>>
jobVars == <<slot, pow, best, holding>>
vars == <<spc, quiet, sessionVars, backoffVars, jobVars, queue, up, down>>

\* Request ids; every submit's is at or above FirstSubmit.
SubscribeId == 1
AuthorizeId == 2
SuggestId == 3
HashrateId == 4
FirstSubmit == 100

Requests == {SubscribeId, AuthorizeId, SuggestId, HashrateId} \cup {FirstSubmit}
Connections == {"none", "cur", "old"}
Shares == {"cur", "old", "late"}
Answers == {"ok", "error"}
Said == {"bc3", "other", "difficulty", "reconnect"}

TypeOK ==
    /\ spc \in {"connect", "send", "read", "failed", "cleared", "backoff"}
    /\ quiet \in 0 .. SilencePolls /\ subscribed \in BOOLEAN
    /\ authorized \in {"no", "yes", "healthy"}
    /\ report \in {"off", "on", "refused"}
    /\ ladder \in 1 .. MaxSecs /\ wait \in 0 .. MaxSecs
    /\ slot \in Connections /\ holding \in [Workers -> Connections]
    /\ pow \in {"none", "bc3", "other"} /\ best \in {"none", "bc3"}
    /\ queue \in Seq(Shares) /\ Len(queue) <= QueueMax
    /\ up \in Seq(Requests \X (Shares \cup {"none"}))
    /\ down \in Seq((Requests \X Answers) \cup ({0} \X Said))
    /\ awaiting \in Int

Init ==
    /\ spc = "connect" /\ quiet = 0
    /\ subscribed = FALSE /\ authorized = "no" /\ report = "off" /\ awaiting = 0
    /\ ladder = 1 /\ wait = 0
    /\ slot = "none" /\ pow = "none" /\ best = "none"
    /\ holding = [w \in Workers |-> "none"]
    /\ queue = <<>> /\ up = <<>> /\ down = <<>>

InSession == spc \in {"send", "read"}

-----------------------------------------------------------------------------
(***************************************************************************)
(* run_client around a session.                                            *)
(***************************************************************************)
Ended(c) == IF c = "cur" THEN "old" ELSE c

\* connect, subscribe, suggest_difficulty, authorize.
Connect ==
    /\ spc = "connect"
    /\ spc' = "send"
    /\ quiet' = 0
    /\ slot' = Ended(slot)
    /\ holding' = [w \in Workers |-> Ended(holding[w])]
    /\ queue' = [i \in 1 .. Len(queue) |-> Ended(queue[i])]
    /\ up' = <<<<SubscribeId, "none">>>>
             \o (IF Suggests THEN <<<<SuggestId, "none">>>> ELSE <<>>)
             \o <<<<AuthorizeId, "none">>>>
    /\ down' = <<>>
    /\ UNCHANGED <<sessionVars, backoffVars, pow, best>>

Doubled(secs) == IF 2 * secs <= MaxSecs THEN 2 * secs ELSE MaxSecs

LadderStart == IF authorized = "healthy" THEN 1 ELSE ladder

\* session returns an error - refused, closed, reset, silent - and the
\* ladder gives the wait.
Fails ==
    /\ spc' = "failed"
    /\ wait' = LadderStart
    /\ ladder' = Doubled(LadderStart)
    /\ up' = <<>> /\ down' = <<>>
    /\ UNCHANGED <<quiet, sessionVars, jobVars>>

\* The connection cannot be made, or breaks: perhaps while a share that has
\* left the queue is being written.
LinkBreaks ==
    /\ spc = "connect" \/ InSession
    /\ Fails
    /\ UNCHANGED queue \/ (spc = "send" /\ queue # <<>> /\ queue' = Tail(queue))

\* Mutant: the last connection's job stays in the slot.
SlotKept == slot' = slot

SlotCleared == slot' = "none"

ClearJob ==
    /\ spc = "failed"
    /\ spc' = "cleared"
    /\ SlotCleared
    /\ UNCHANGED <<quiet, sessionVars, backoffVars, pow, best, holding, queue, up, down>>

\* Mutant: queued shares outlive their connection.
QueueKept == queue' = queue

QueueDropped == queue' = <<>>

DropQueued ==
    /\ spc = "cleared"
    /\ spc' = "backoff"
    /\ QueueDropped
    /\ UNCHANGED <<quiet, sessionVars, backoffVars, jobVars, up, down>>

WaitOver ==
    /\ spc = "backoff"
    /\ spc' = "connect"
    /\ wait' = 0
    /\ subscribed' = FALSE /\ authorized' = "no" /\ report' = "off" /\ awaiting' = 0
    /\ UNCHANGED <<quiet, ladder, jobVars, queue, up, down>>

-----------------------------------------------------------------------------
(***************************************************************************)
(* The session's loop: report, send every queued share, read one line.     *)
(***************************************************************************)
ReportHashrate ==
    /\ spc = "send" /\ report = "on" /\ Len(up) < MaxWire
    /\ \A i \in 1 .. Len(up) : up[i][1] # HashrateId      \* a minute apart
    /\ up' = Append(up, <<HashrateId, "none">>)
    /\ UNCHANGED <<spc, quiet, sessionVars, backoffVars, jobVars, queue, down>>

SendShare ==
    /\ spc = "send" /\ queue # <<>> /\ Len(up) < MaxWire
    /\ up' = Append(up, <<FirstSubmit, Head(queue)>>)
    /\ queue' = Tail(queue)
    /\ awaiting' = awaiting + 1
    /\ UNCHANGED <<spc, quiet, subscribed, authorized, report, backoffVars, jobVars, down>>

QueueSent ==
    /\ spc = "send" /\ queue = <<>>
    /\ spc' = "read"
    /\ UNCHANGED <<quiet, sessionVars, backoffVars, jobVars, queue, up, down>>

\* Mutant: a read that times out counts as a sign of life.
PollIsWord == 0

PollIsSilence == quiet + 1

\* READ_POLL runs out: give up a silent pool, or look at the queue again.
ReadTimesOut ==
    /\ spc = "read" /\ down = <<>>
    /\ IF quiet >= SilencePolls
       THEN Fails /\ UNCHANGED queue
       ELSE /\ spc' = "send"
            /\ quiet' = PollIsSilence
            /\ UNCHANGED <<sessionVars, backoffVars, jobVars, queue, up, down>>

Heard(id) == spc = "read" /\ down # <<>> /\ down[1][1] = id
Answer == down[1][2]

\* The line is dealt with and the loop goes round.
Handled ==
    /\ spc' = "send"
    /\ quiet' = 0
    /\ down' = Tail(down)
    /\ UNCHANGED <<backoffVars, queue, up>>

\* subscribe: an error, or an extranonce1 or extranonce2 size out of range,
\* ends the session.
HearSubscribed ==
    /\ Heard(SubscribeId)
    /\ IF Answer = "ok"
       THEN subscribed' = TRUE /\ Handled /\ UNCHANGED <<authorized, report, awaiting, jobVars>>
       ELSE Fails /\ UNCHANGED queue

HearAuthorized ==
    /\ Heard(AuthorizeId)
    /\ IF Answer = "ok"
       THEN /\ authorized' = "yes"
            /\ report' = IF report = "refused" THEN report ELSE "on"
            /\ Handled /\ UNCHANGED <<subscribed, awaiting, jobVars>>
       ELSE Fails /\ UNCHANGED queue

HearHashrate ==
    /\ Heard(HashrateId)
    /\ report' = IF Answer = "ok" THEN report ELSE "refused"
    /\ Handled
    /\ UNCHANGED <<subscribed, authorized, awaiting, jobVars>>

\* Mutant: every later answer counts as a share's.
CountsFrom(id) == id > AuthorizeId

CountsAsShare(id) == id >= FirstSubmit

HearAnswer ==
    /\ spc = "read" /\ down # <<>>
    /\ down[1][1] \notin {0, SubscribeId, AuthorizeId, HashrateId}
    /\ awaiting' = IF CountsAsShare(down[1][1]) THEN awaiting - 1 ELSE awaiting
    /\ Handled
    /\ UNCHANGED <<subscribed, authorized, report, jobVars>>

\* mining.notify: publish_job, whose note_pow starts the best share over.
HearNotify ==
    /\ Heard(0) /\ Answer \in {"bc3", "other"}
    /\ IF subscribed
       THEN /\ slot' = "cur"
            /\ pow' = Answer
            /\ best' = IF pow \in {"none", Answer} THEN best ELSE "none"
       ELSE UNCHANGED <<slot, pow, best>>
    /\ Handled
    /\ UNCHANGED <<sessionVars, holding>>

\* mining.set_difficulty, for the jobs to come; one that is no positive number
\* is ignored, like a line that says nothing the client knows.
HearDifficulty ==
    /\ Heard(0) /\ Answer = "difficulty"
    /\ Handled
    /\ UNCHANGED <<sessionVars, jobVars>>

HearReconnect ==
    /\ Heard(0) /\ Answer = "reconnect"
    /\ Fails
    /\ UNCHANGED queue

\* HEALTHY_SESSION has gone by since the pool accepted the address.
TurnsHealthy ==
    /\ InSession /\ authorized = "yes"
    /\ authorized' = "healthy"
    /\ UNCHANGED <<spc, quiet, subscribed, report, awaiting, backoffVars, jobVars, queue, up, down>>

-----------------------------------------------------------------------------
(***************************************************************************)
(* The workers, as far as shares go (module Dispatch has their loops): one *)
(* that holds a job goes on finding shares of it after the slot changed,   *)
(* until its batch or its launches in flight are done.                     *)
(***************************************************************************)
WorkerTakes(w) ==
    /\ holding[w] = "none" /\ slot # "none" /\ pow = "bc3"
    /\ holding' = [holding EXCEPT ![w] = slot]
    /\ UNCHANGED <<spc, quiet, sessionVars, backoffVars, slot, pow, best, queue, up, down>>

WorkerLetsGo(w) ==
    /\ holding[w] # "none"
    /\ holding' = [holding EXCEPT ![w] = "none"]
    /\ UNCHANGED <<spc, quiet, sessionVars, backoffVars, slot, pow, best, queue, up, down>>

\* Mutant: the proof of work of the share is not looked at.
BestWithout(algo) == algo

BestWith(algo) == IF pow \in {"none", algo} THEN algo ELSE best

\* record_share and submit, which drops the share when the queue is full.
WorkerFinds(w) ==
    /\ holding[w] # "none"
    /\ best' = BestWith("bc3")
    /\ queue' = IF Len(queue) >= QueueMax THEN queue
                ELSE Append(queue, IF holding[w] = "cur" /\ spc \notin {"backoff", "connect"} THEN "cur" ELSE "late")
    /\ UNCHANGED <<spc, quiet, sessionVars, backoffVars, slot, pow, holding, up, down>>

-----------------------------------------------------------------------------
(***************************************************************************)
(* The pool: answers each request once, in order, sends jobs whenever it   *)
(* likes, asks for a reconnect.  It may also fall silent for good.         *)
(***************************************************************************)
PoolAnswers ==
    /\ InSession /\ up # <<>> /\ Len(down) < MaxWire
    /\ \E a \in Answers : down' = Append(down, <<Head(up)[1], a>>)
    /\ up' = Tail(up)
    /\ UNCHANGED <<spc, quiet, sessionVars, backoffVars, jobVars, queue>>

PoolSends ==
    /\ InSession /\ Len(down) < MaxWire
    /\ \E m \in Said : down' = Append(down, <<0, m>>)
    /\ UNCHANGED <<spc, quiet, sessionVars, backoffVars, jobVars, queue, up>>

ClientProgress ==
    \/ Connect \/ ClearJob \/ DropQueued \/ WaitOver
    \/ ReportHashrate \/ SendShare \/ QueueSent \/ ReadTimesOut
    \/ HearSubscribed \/ HearAuthorized \/ HearHashrate \/ HearAnswer
    \/ HearNotify \/ HearDifficulty \/ HearReconnect

WorkerSteps(w) == WorkerTakes(w) \/ WorkerLetsGo(w) \/ WorkerFinds(w)

Next ==
    \/ ClientProgress \/ LinkBreaks \/ TurnsHealthy
    \/ PoolAnswers \/ PoolSends
    \/ \E w \in Workers : WorkerSteps(w)

Spec == Init /\ [][Next]_vars

\* The client thread goes on, since a read waits READ_POLL at most; the pool,
\* the link and the workers promise nothing.
FairSpec == Spec /\ WF_vars(ClientProgress)

-----------------------------------------------------------------------------
(***************************************************************************)
(* The job in the slot was built with the extranonce1 of the connection in *)
(* progress, or of the one that just failed: no worker takes up work whose *)
(* shares the pool cannot credit.                                          *)
(***************************************************************************)
SlotOfThisConnection == slot # "none" => slot = "cur" /\ subscribed

(***************************************************************************)
(* Shares that were queued when a connection failed never reach the next.  *)
(***************************************************************************)
QueueStaysWithConnection == \A i \in 1 .. Len(queue) : queue[i] # "old"

(***************************************************************************)
(* A share is submitted on the connection it was found under.  (Violated:  *)
(* a worker still busy with the old job submits after the queue was        *)
(* emptied, and the next session sends it.)                                *)
(***************************************************************************)
SubmitsOfThisConnection == \A i \in 1 .. Len(up) : up[i][2] \in {"none", "cur"}

(***************************************************************************)
(* Every submit is counted as accepted or rejected once, and no other      *)
(* answer is: what is not yet counted is on its way to or from the pool.   *)
(***************************************************************************)
ShareMessages(s) == {i \in 1 .. Len(s) : s[i][1] >= FirstSubmit}
CountedOnce == InSession => awaiting = Cardinality(ShareMessages(up)) + Cardinality(ShareMessages(down))

(***************************************************************************)
(* The best share is one of the current proof of work, though launches of  *)
(* the one before still report theirs.                                     *)
(***************************************************************************)
BestOfCurrentPow == best \in {"none", pow}

(***************************************************************************)
(* A pool that says nothing any more - a half-open connection - is left:   *)
(* again and again it has said something, or the session is over, or the   *)
(* thread is stuck writing, which has no time limit.                       *)
(***************************************************************************)
StuckWriting == spc = "send" /\ queue # <<>> /\ Len(up) >= MaxWire
SilentPoolIsLeft == []<>(~InSession \/ down # <<>> \/ StuckWriting)

=============================================================================
