------------------------------- MODULE Outbox -------------------------------
(***************************************************************************)
(* From a committed document to its e-mail: the outbox table               *)
(* (outbox-writer.ts), the relay that turns its rows into jobs             *)
(* (outbox-relay.ts), the queue's worker with its retries and dead letters *)
(* (create-monitored-worker.ts, job-conventions.ts) and the notification   *)
(* job (notification.job.ts).  Relay and worker run in one or more worker  *)
(* processes (worker.ts) that may crash and start again at any time.       *)
(*                                                                         *)
(* BullMQ and Redis are external: a job is waiting, active, delayed until  *)
(* its next attempt, completed or failed; a job whose process died waits   *)
(* again, and is failed the next time it is taken when that happened more  *)
(* often than BullMQ's limit; a command to Redis waits until it is done    *)
(* (redis-connection.ts).                                                  *)
(***************************************************************************)
EXTENDS Integers, Sequences, FiniteSets

CONSTANTS
    Messages,       \* outbox rows, numbered in the order of created_at
    Malformed,      \* those whose payload the notification job refuses
    Processes,      \* worker processes
    Batch,          \* RELAY_BATCH_SIZE
    Attempts,       \* attempts of DEFAULT_JOB_OPTIONS
    MaxStalls,      \* BullMQ's maxStalledCount, 1 by default
    None,           \* no job
    MaxCrashes      \* bound on crashes

ASSUME OutboxAssumption ==
    /\ Messages \subseteq Nat /\ IsFiniteSet(Messages) /\ Malformed \subseteq Messages
    /\ Batch \in Nat \ {0} /\ Attempts \in Nat \ {0}
    /\ MaxStalls \in Nat /\ MaxCrashes \in Nat
    /\ None \notin Nat

VARIABLES
    outbox,         \* of each message: unwritten, pending, dispatched
    jobs,           \* jobs in the order they were added: message, state, attempts
                    \* made, and how often their process died
    mails,          \* how often each message was sent
    deadLetters,    \* jobs in the dead-letter queue
    process,        \* what each process holds in memory
    lost,           \* history: messages a crash took from memory
    crashes         \* history: their number

vars == <<outbox, jobs, mails, deadLetters, process, lost, crashes>>

States == {"waiting", "active", "delayed", "completed", "failed"}
Job == [message : Messages, state : States, made : 0 .. Attempts, stalls : Nat]
Memory == [claimed : SUBSET Messages,           \* rows the relay still has to enqueue
           job : DOMAIN jobs \cup {None},       \* the job that is processed
           sent : BOOLEAN,                      \* whether its mail is out
           dying : SUBSET DOMAIN jobs]          \* jobs to add to the dead letters
Fresh == [claimed |-> {}, job |-> None, sent |-> FALSE, dying |-> {}]

Pending == {m \in Messages : outbox[m] = "pending"}
Claimed == UNION {process[p].claimed : p \in Processes}
Dying == UNION {process[p].dying : p \in Processes}
JobsOf(m) == {j \in DOMAIN jobs : jobs[j].message = m}

Init ==
    /\ outbox = [m \in Messages |-> "unwritten"]
    /\ jobs = << >>
    /\ mails = [m \in Messages |-> 0]
    /\ deadLetters = {}
    /\ process = [p \in Processes |-> Fresh]
    /\ lost = {}
    /\ crashes = 0

-----------------------------------------------------------------------------
(* The outbox and its relay *)

(* writeOutboxMessage: the row is committed with the document it is about. *)
WriteMessage(m) ==
    /\ outbox[m] = "unwritten"
    /\ outbox' = [outbox EXCEPT ![m] = "pending"]
    /\ UNCHANGED <<jobs, mails, deadLetters, process, lost, crashes>>

\* Mutant of OldestPending: a run waits for a full batch.
FullBatch(S) ==
    /\ S # {} /\ Cardinality(S) = Batch
    /\ \A m \in S, n \in Pending \ S : m < n

(* The rows of a run: the oldest ones, as many as a batch holds.           *)
OldestPending(S) ==
    /\ S # {} /\ Cardinality(S) <= Batch
    /\ Cardinality(S) < Batch => S = Pending
    /\ \A m \in S, n \in Pending \ S : m < n

\* Mutant of Mark: a run reads its rows and does not mark them.
MarkLater(S) == outbox

\* UPDATE ... SET dispatched_at: one statement, committed by itself.
Mark(S) == [m \in Messages |-> IF m \in S THEN "dispatched" ELSE outbox[m]]

(* A tick of the relay; a process runs one relay at a time.                *)
Claim(p) ==
    /\ process[p].claimed = {}
    /\ \E S \in SUBSET Pending :
         /\ OldestPending(S)
         /\ outbox' = Mark(S)
         /\ process' = [process EXCEPT ![p].claimed = S]
    /\ UNCHANGED <<jobs, mails, deadLetters, lost, crashes>>

(* queue.add; the rows come back from the UPDATE in any order.             *)
Enqueue(p) ==
    /\ \E m \in process[p].claimed :
         /\ jobs' = Append(jobs, [message |-> m, state |-> "waiting", made |-> 0, stalls |-> 0])
         /\ process' = [process EXCEPT ![p].claimed = @ \ {m}]
    /\ UNCHANGED <<outbox, mails, deadLetters, lost, crashes>>

-----------------------------------------------------------------------------
(* The worker of the notifications queue *)

MessageOf(p) == jobs[process[p].job].message

TakeJob(p, j) ==
    /\ process[p].job = None /\ jobs[j].state = "waiting"
    /\ jobs' = [jobs EXCEPT ![j].state = "active"]
    /\ process' = [process EXCEPT ![p].job = j, ![p].sent = FALSE]
    /\ UNCHANGED <<outbox, mails, deadLetters, lost, crashes>>

\* BullMQ fails such a job when it is taken, without calling its processor.
StalledTooOften(j) == jobs[j].stalls > MaxStalls

(* The job sends the mail of a message it could parse.                     *)
Send(p) ==
    /\ process[p].job # None /\ ~process[p].sent
    /\ ~StalledTooOften(process[p].job)
    /\ MessageOf(p) \notin Malformed
    /\ mails' = [mails EXCEPT ![MessageOf(p)] = @ + 1]
    /\ process' = [process EXCEPT ![p].sent = TRUE]
    /\ UNCHANGED <<outbox, jobs, deadLetters, lost, crashes>>

Complete(p) ==
    /\ process[p].job # None /\ process[p].sent
    /\ jobs' = [jobs EXCEPT ![process[p].job].state = "completed"]
    /\ process' = [process EXCEPT ![p].job = None, ![p].sent = FALSE]
    /\ UNCHANGED <<outbox, mails, deadLetters, lost, crashes>>

\* Mutant of IsFinalAttempt: off by one.
IsPastFinalAttempt(made) == made > Attempts

IsFinalAttempt(made) == made >= Attempts

\* Mutant of MayRetry: off by one.
MayRetryOnceMore(made) == made <= Attempts

\* BullMQ under the options of DEFAULT_JOB_OPTIONS.
MayRetry(made) == made < Attempts

(* A failed attempt: the payload is malformed, the mail server refuses the
   mail or takes it and does not say so, or the job stalled too often.
   BullMQ delays the job or fails it for good, a stalled one whatever its
   attempts; the listener starts the dead letter of a final attempt only.  *)
FailAttempt(p) ==
    LET j == process[p].job
        made == jobs[j].made + 1
        next == IF MayRetry(made) /\ ~StalledTooOften(j) THEN "delayed" ELSE "failed"
        dying == process[p].dying \cup (IF IsFinalAttempt(made) THEN {j} ELSE {})
    IN
    /\ process[p].job # None
    /\ jobs' = [jobs EXCEPT ![j] = [message |-> MessageOf(p), state |-> next,
                                 made |-> made, stalls |-> jobs[j].stalls]]
    /\ process' = [process EXCEPT ![p].job = None, ![p].sent = FALSE, ![p].dying = dying]
    /\ UNCHANGED <<outbox, mails, deadLetters, lost, crashes>>

(* The add that the listener does not wait for.                            *)
AddDeadLetter(p) ==
    /\ \E j \in process[p].dying :
         /\ deadLetters' = deadLetters \cup {j}
         /\ process' = [process EXCEPT ![p].dying = @ \ {j}]
    /\ UNCHANGED <<outbox, jobs, mails, lost, crashes>>

\* The delay of a job is over.
EndDelay(j) ==
    /\ jobs[j].state = "delayed"
    /\ jobs' = [jobs EXCEPT ![j].state = "waiting"]
    /\ UNCHANGED <<outbox, mails, deadLetters, process, lost, crashes>>

\* The process of a job is gone: the job waits again and is one stall older.
Stall(j) ==
    /\ jobs[j].state = "active" /\ \A p \in Processes : process[p].job # j
    /\ jobs' = [jobs EXCEPT ![j] = [message |-> jobs[j].message, state |-> "waiting",
                                    made |-> jobs[j].made, stalls |-> jobs[j].stalls + 1]]
    /\ UNCHANGED <<outbox, mails, deadLetters, process, lost, crashes>>

(* A process dies and is started again: what it held in memory is gone.    *)
Crash(p) ==
    /\ crashes < MaxCrashes
    /\ crashes' = crashes + 1
    /\ process' = [process EXCEPT ![p] = Fresh]
    /\ lost' = lost \cup process[p].claimed \cup {jobs[j].message : j \in process[p].dying}
    /\ UNCHANGED <<outbox, jobs, mails, deadLetters>>

Work ==
    \/ \E p \in Processes :
         \/ Claim(p) \/ Enqueue(p)
         \/ \E j \in DOMAIN jobs : TakeJob(p, j)
         \/ Send(p) \/ Complete(p) \/ FailAttempt(p) \/ AddDeadLetter(p)
    \/ \E j \in DOMAIN jobs : EndDelay(j) \/ Stall(j)

Next ==
    \/ \E m \in Messages : WriteMessage(m)
    \/ Work
    \/ \E p \in Processes : Crash(p)

Spec == Init /\ [][Next]_vars

(* The relay is scheduled every ten seconds, BullMQ hands out waiting jobs
   and ends every delay, and nothing waits for ever: some work is done as
   long as there is any.                                                   *)
FairSpec == Spec /\ WF_vars(Work)

-----------------------------------------------------------------------------
(* What the outbox must guarantee *)

(* Every variable holds a value of its kind.                               *)
TypeOK ==
    /\ outbox \in [Messages -> {"unwritten", "pending", "dispatched"}]
    /\ jobs \in Seq(Job)
    /\ mails \in [Messages -> Nat]
    /\ deadLetters \subseteq DOMAIN jobs
    /\ process \in [Processes -> Memory]
    /\ lost \subseteq Messages
    /\ crashes \in 0 .. MaxCrashes

(* "Two relay runs (or two worker replicas, later) never claim the same
   row" (relayOutboxOnce): a message becomes one job at most, and is claimed
   by one process at most, which has not enqueued it yet.                  *)
OneJobPerMessage ==
    /\ \A i, j \in DOMAIN jobs : jobs[i].message = jobs[j].message => i = j
    /\ \A p, q \in Processes : p # q => process[p].claimed \cap process[q].claimed = {}
    /\ \A m \in Claimed : JobsOf(m) = {}

(* "Re-sending a notification email on retry is an accepted, documented
   tradeoff" (createNotificationProcessor), but a bounded one: one mail for
   each attempt and one for each process that died.                        *)
MailsAreBounded == \A m \in Messages : mails[m] <= Attempts + crashes

(* "Never lose a document that must be reported. The outbox is the
   guarantee": a dispatched message is on its way, mailed, or a dead letter,
   with two exceptions.  A process died between two of its steps, which
   relayOutboxOnce and the listener of createMonitoredWorker keep in memory;
   or its job's processes died more often than BullMQ allows, which fails the
   job below its last attempt, so that the listener takes the failure for one
   that is retried and adds no dead letter (isFinalAttempt).               *)
OnItsWay(m) ==
    \/ m \in Claimed
    \/ \E j \in JobsOf(m) : jobs[j].state \in {"waiting", "active", "delayed"}
Ended(m) == mails[m] > 0 \/ \E j \in JobsOf(m) : j \in Dying \cup deadLetters
GivenUp(m) ==
    \E j \in JobsOf(m) : jobs[j].state = "failed" /\ jobs[j].made < Attempts
                          /\ MaxStalls < jobs[j].stalls /\ jobs[j].stalls <= crashes

NothingVanishes ==
    \A m \in Messages :
        outbox[m] = "dispatched" => OnItsWay(m) \/ Ended(m) \/ m \in lost \/ GivenUp(m)

(* Every written message is mailed in the end, or becomes a dead letter
   that support can see, or was in the memory of a process that died, or its
   job's processes died too often: no message waits for a full batch, a next
   document or an operator.                                                *)
EveryMessageEnds ==
    \A m \in Messages :
        outbox[m] = "pending" ~>
            \/ mails[m] > 0 \/ m \in lost \/ GivenUp(m)
            \/ \E j \in JobsOf(m) : j \in deadLetters
=============================================================================
