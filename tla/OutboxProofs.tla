--------------------------- MODULE OutboxProofs ---------------------------
(***************************************************************************)
(* Theorems of Outbox, for any number of messages, worker processes,       *)
(* attempts and crashes.  IInv adds to the invariants the run checks where *)
(* every message and every job is while it is in the memory of a process;  *)
(* it is kept by every action, one lemma each.                             *)
(***************************************************************************)
EXTENDS Outbox, TLAPS, SequenceTheorems

(* A job that is processed is active and processed by one process, which has
   sent a mail only for a job it processes.                                *)
HeldInv ==
    /\ \A p \in Processes :
         /\ process[p].job # None => jobs[process[p].job].state = "active"
         /\ process[p].sent => process[p].job # None /\ mails[MessageOf(p)] > 0
    /\ \A p, q \in Processes :
         process[p].job # None /\ process[p].job = process[q].job => p = q

(* What is claimed or a job has been marked; a dispatched message is claimed,
   a job, or lost.                                                         *)
DispatchInv ==
    /\ \A p \in Processes : \A m \in process[p].claimed : outbox[m] = "dispatched"
    /\ \A j \in DOMAIN jobs : outbox[jobs[j].message] = "dispatched"
    /\ \A m \in Messages : outbox[m] = "dispatched" =>
         \/ \E p \in Processes : m \in process[p].claimed
         \/ \E j \in DOMAIN jobs : jobs[j].message = m
         \/ m \in lost

(* A completed job was mailed; a failed one is a dead letter, on its way to
   become one, or lost, or stalled too often; any other has attempts left. *)
JobsInv ==
    \A j \in DOMAIN jobs :
      /\ jobs[j].state = "completed" => mails[jobs[j].message] > 0
      /\ jobs[j].state = "failed" =>
           \/ j \in deadLetters \/ jobs[j].message \in lost
           \/ \E p \in Processes : j \in process[p].dying
           \/ jobs[j].made < Attempts /\ MaxStalls < jobs[j].stalls
      /\ jobs[j].state # "failed" => jobs[j].made < Attempts

(* A job stalls at most once for each crash, and one whose process died
   without its stall being noticed has stalled less often.                 *)
Orphaned(j) == jobs[j].state = "active" /\ \A p \in Processes : process[p].job # j

StallsInv ==
    \A j \in DOMAIN jobs :
      /\ jobs[j].stalls <= crashes
      /\ Orphaned(j) => jobs[j].stalls < crashes

(* A message without a job was never mailed, and one with a job at most once
   for each attempt that failed, each crash and the attempt under way or
   completed.                                                              *)
MailedOnce(j) ==
    jobs[j].state = "completed" \/ \E p \in Processes : process[p].job = j /\ process[p].sent

MailsInv ==
    /\ \A m \in Messages : (\A j \in DOMAIN jobs : jobs[j].message # m) => mails[m] = 0
    /\ \A j \in DOMAIN jobs :
         /\ mails[jobs[j].message] <= jobs[j].made + crashes + 1
         /\ mails[jobs[j].message] > jobs[j].made + crashes => MailedOnce(j)

IInv ==
    /\ TypeOK /\ OneJobPerMessage /\ HeldInv /\ DispatchInv /\ JobsInv /\ StallsInv
    /\ MailsInv

-----------------------------------------------------------------------------

(* What the type invariant says of each job and each process.              *)
LEMMA Kinds ==
    ASSUME TypeOK
    PROVE  /\ Len(jobs) \in Nat /\ DOMAIN jobs = 1 .. Len(jobs) /\ None \notin DOMAIN jobs
           /\ \A j \in DOMAIN jobs :
                /\ jobs[j] \in Job /\ jobs[j].message \in Messages
                /\ jobs[j].state \in States /\ jobs[j].made \in 0 .. Attempts
                /\ jobs[j].stalls \in Nat
           /\ \A p \in Processes :
                /\ process[p] \in Memory /\ process[p].claimed \subseteq Messages
                /\ process[p].job \in DOMAIN jobs \cup {None} /\ process[p].sent \in BOOLEAN
                /\ process[p].dying \subseteq DOMAIN jobs
           /\ \A m \in Messages : mails[m] \in Nat
           /\ crashes \in Nat /\ Attempts \in Nat /\ MaxStalls \in Nat
  <1>1. jobs \in Seq(Job)
    BY DEF TypeOK
  <1>2. Len(jobs) \in Nat /\ DOMAIN jobs = 1 .. Len(jobs) /\ \A j \in DOMAIN jobs : jobs[j] \in Job
    BY <1>1
  <1>3. None \notin DOMAIN jobs
    BY <1>2, OutboxAssumption
  <1>4. \A p \in Processes : process[p] \in Memory
    BY DEF TypeOK
  <1>5. QED
    BY <1>2, <1>3, <1>4, OutboxAssumption DEF TypeOK, Job, Memory

(* A step that changes the state, the attempts and the stalls of one job.  *)
LEMMA ChangedJob ==
    ASSUME TypeOK, NEW j \in DOMAIN jobs, NEW state \in States, NEW made \in 0 .. Attempts,
           NEW stalls \in Nat,
           jobs' = [jobs EXCEPT ![j] = [message |-> jobs[j].message, state |-> state,
                                        made |-> made, stalls |-> stalls]]
    PROVE  /\ jobs' \in Seq(Job) /\ DOMAIN jobs' = DOMAIN jobs
           /\ \A i \in DOMAIN jobs : /\ i # j => jobs'[i] = jobs[i]
                                     /\ jobs'[i].message = jobs[i].message
           /\ jobs'[j].state = state /\ jobs'[j].made = made /\ jobs'[j].stalls = stalls
  <1> DEFINE e == [message |-> jobs[j].message, state |-> state, made |-> made, stalls |-> stalls]
  <1>1. jobs \in Seq(Job) /\ j \in 1 .. Len(jobs) /\ jobs[j] \in Job
    BY Kinds DEF TypeOK
  <1>2. e \in Job /\ e.message = jobs[j].message /\ e.state = state /\ e.made = made
        /\ e.stalls = stalls
    BY <1>1 DEF Job
  <1> HIDE DEF e
  <1>3. jobs' = [jobs EXCEPT ![j] = e]
    BY DEF e
  <1>4. /\ jobs' \in Seq(Job) /\ Len(jobs') = Len(jobs)
        /\ \A i \in 1 .. Len(jobs) : jobs'[i] = IF i = j THEN e ELSE jobs[i]
    BY <1>1, <1>2, <1>3, ExceptSeq
  <1>5. DOMAIN jobs' = 1 .. Len(jobs) /\ DOMAIN jobs = 1 .. Len(jobs)
    BY <1>1, <1>4
  <1>6. QED
    BY <1>1, <1>2, <1>4, <1>5

(* A step that keeps the jobs and claims nothing makes no second job.      *)
LEMMA OneJobKept ==
    ASSUME OneJobPerMessage, DOMAIN jobs' = DOMAIN jobs,
           \A j \in DOMAIN jobs : jobs'[j].message = jobs[j].message,
           \A q \in Processes : process'[q].claimed \subseteq process[q].claimed
    PROVE  OneJobPerMessage'
  <1>1. \A x \in Claimed' : x \in Claimed
    BY DEF Claimed
  <1>2. \A x : JobsOf(x)' = JobsOf(x)
    BY DEF JobsOf
  <1>3. QED
    BY <1>1, <1>2 DEF OneJobPerMessage

(* A step that keeps the jobs and takes from memory only what is lost
   leaves every dispatched message where it can be found.                  *)
LEMMA DispatchKept ==
    ASSUME DispatchInv, outbox' = outbox, lost \subseteq lost', DOMAIN jobs' = DOMAIN jobs,
           \A j \in DOMAIN jobs : jobs'[j].message = jobs[j].message,
           \A q \in Processes : /\ process'[q].claimed \subseteq process[q].claimed
                                /\ process[q].claimed \subseteq process'[q].claimed \cup lost'
    PROVE  DispatchInv'
  <1>1. ASSUME NEW x \in Messages, outbox'[x] = "dispatched"
        PROVE  \/ \E q \in Processes : x \in process'[q].claimed
               \/ \E j \in DOMAIN jobs' : jobs'[j].message = x
               \/ x \in lost'
    <2>1. CASE \E q \in Processes : x \in process[q].claimed
      BY <2>1
    <2>2. CASE \E j \in DOMAIN jobs : jobs[j].message = x
      BY <2>2
    <2>3. CASE x \in lost
      BY <2>3
    <2>4. QED
      BY <1>1, <2>1, <2>2, <2>3 DEF DispatchInv
  <1>2. QED
    BY <1>1 DEF DispatchInv

(* A step without a crash or a stall that leaves no active job alone.      *)
LEMMA StallsKept ==
    ASSUME StallsInv, crashes' = crashes, DOMAIN jobs' = DOMAIN jobs,
           \A j \in DOMAIN jobs : jobs'[j].stalls = jobs[j].stalls,
           \A j \in DOMAIN jobs : Orphaned(j)' => Orphaned(j)
    PROVE  StallsInv'
  BY DEF StallsInv

(* The empty outbox satisfies the invariant.                               *)
LEMMA Initially == Init => IInv
  <1>1. SUFFICES ASSUME Init PROVE IInv
    OBVIOUS
  <1>2. jobs = << >> /\ DOMAIN jobs = {} /\ jobs \in Seq(Job)
    BY <1>1 DEF Init
  <1>3. \A p \in Processes : process[p] = Fresh /\ Fresh \in Memory
    BY <1>1, <1>2 DEF Init, Memory, Fresh
  <1>4. TypeOK
    BY <1>1, <1>2, <1>3, OutboxAssumption DEF Init, TypeOK
  <1>5. OneJobPerMessage
    BY <1>2, <1>3 DEF OneJobPerMessage, Fresh, Claimed, JobsOf
  <1>6. QED
    BY <1>1, <1>2, <1>3, <1>4, <1>5 DEF Init, IInv, HeldInv, DispatchInv, JobsInv,
                                      StallsInv, MailsInv, Fresh

(* A row is written: nothing else knows of it yet.                         *)
LEMMA WriteKeepsIInv ==
    ASSUME IInv, NEW m \in Messages, WriteMessage(m)
    PROVE  IInv'
  <1>1. outbox' = [outbox EXCEPT ![m] = "pending"] /\ outbox[m] = "unwritten"
    BY DEF WriteMessage
  <1>2. UNCHANGED <<jobs, mails, deadLetters, process, lost, crashes>>
    BY DEF WriteMessage
  <1>3. TypeOK'
    BY <1>1, <1>2 DEF IInv, TypeOK, Memory
  <1>4. OneJobPerMessage' /\ HeldInv' /\ JobsInv' /\ StallsInv' /\ MailsInv'
    BY <1>2 DEF IInv, OneJobPerMessage, HeldInv, JobsInv, StallsInv, Orphaned, MailsInv,
                MailedOnce, MessageOf, Claimed, JobsOf
  <1>5. DispatchInv'
    <2>1. \A n \in Messages : outbox'[n] = "dispatched" <=> outbox[n] = "dispatched"
      BY <1>1 DEF IInv, TypeOK
    <2>2. \A j \in DOMAIN jobs : jobs[j].message \in Messages
      BY Kinds DEF IInv
    <2>3. \A p \in Processes : process[p].claimed \subseteq Messages
      BY Kinds DEF IInv
    <2>4. QED
      BY <2>1, <2>2, <2>3, <1>2 DEF IInv, DispatchInv
  <1>6. QED
    BY <1>3, <1>4, <1>5 DEF IInv

(* The oldest pending rows are marked and held by one process.             *)
LEMMA ClaimKeepsIInv ==
    ASSUME IInv, NEW p \in Processes, Claim(p)
    PROVE  IInv'
  <1>. USE DEF IInv
  <1>1. PICK S \in SUBSET Pending :
          /\ outbox' = [m \in Messages |-> IF m \in S THEN "dispatched" ELSE outbox[m]]
          /\ process' = [process EXCEPT ![p].claimed = S]
    BY DEF Claim, Mark
  <1>2. UNCHANGED <<jobs, mails, deadLetters, lost, crashes>> /\ process[p].claimed = {}
    BY DEF Claim
  <1>3. S \subseteq Messages /\ \A m \in S : outbox[m] = "pending"
    BY DEF Pending
  <1>4. /\ \A q \in Processes : q # p => process'[q] = process[q]
        /\ process'[p] = [process[p] EXCEPT !.claimed = S]
    BY <1>1 DEF TypeOK
  <1>5. /\ process'[p].claimed = S /\ process'[p].job = process[p].job
        /\ process'[p].sent = process[p].sent /\ process'[p].dying = process[p].dying
        /\ process'[p] \in Memory
    BY <1>3, <1>4, Kinds DEF Memory
  <1>6. TypeOK'
    <2>1. process' \in [Processes -> Memory]
      BY <1>1, <1>4, <1>5 DEF TypeOK
    <2>2. outbox' \in [Messages -> {"unwritten", "pending", "dispatched"}]
      BY <1>1, <1>3 DEF TypeOK
    <2>3. QED
      BY <1>2, <2>1, <2>2 DEF TypeOK, Memory
  <1>7. OneJobPerMessage'
    <2>1. \A q \in Processes : q # p => process'[q].claimed \cap S = {}
      BY <1>3, <1>4, Kinds DEF DispatchInv
    <2>2. \A m \in S : JobsOf(m) = {}
      BY <1>3 DEF DispatchInv, JobsOf
    <2>3. ASSUME NEW m \in Claimed' PROVE m \in S \/ m \in Claimed
      <3>1. PICK q \in Processes : m \in process'[q].claimed
        BY DEF Claimed
      <3>2. CASE q = p
        BY <1>5, <3>1, <3>2
      <3>3. CASE q # p
        BY <1>4, <3>1, <3>3 DEF Claimed
      <3>4. QED
        BY <3>2, <3>3
    <2>4. \A m \in Claimed' : JobsOf(m)' = {}
      BY <1>2, <2>2, <2>3 DEF OneJobPerMessage, JobsOf
    <2>5. QED
      BY <1>2, <1>4, <1>5, <2>1, <2>4 DEF OneJobPerMessage
  <1>8. HeldInv' /\ MailsInv'
    <2>1. \A q \in Processes : process'[q].job = process[q].job /\ process'[q].sent = process[q].sent
      BY <1>4, <1>5
    <2>2. HeldInv'
      BY <1>2, <2>1 DEF HeldInv, MessageOf
    <2>3. \A j : MailedOnce(j)' <=> MailedOnce(j)
      BY <1>2, <2>1 DEF MailedOnce
    <2>4. MailsInv'
      BY <1>2, <2>3 DEF MailsInv
    <2>5. QED
      BY <2>2, <2>4
  <1>9. DispatchInv'
    BY <1>1, <1>2, <1>3, <1>4, <1>5, Kinds DEF DispatchInv
  <1>10. JobsInv'
    BY <1>2, <1>4, <1>5 DEF JobsInv
  <1>11. StallsInv'
    <2>1. \A q \in Processes : process'[q].job = process[q].job
      BY <1>4, Kinds DEF Memory
    <2>2. \A i \in DOMAIN jobs : Orphaned(i)' => Orphaned(i)
      BY <1>2, <2>1 DEF Orphaned
    <2>3. QED
      BY <1>2, <2>2, StallsKept
  <1>12. QED
    BY <1>6, <1>7, <1>8, <1>9, <1>10, <1>11

(* A claimed row becomes the last job.                                     *)
LEMMA EnqueueKeepsIInv ==
    ASSUME IInv, NEW p \in Processes, Enqueue(p)
    PROVE  IInv'
  <1>. USE DEF IInv
  <1>1. PICK m \in process[p].claimed :
          /\ jobs' = Append(jobs, [message |-> m, state |-> "waiting", made |-> 0, stalls |-> 0])
          /\ process' = [process EXCEPT ![p].claimed = @ \ {m}]
    BY DEF Enqueue
  <1>2. UNCHANGED <<outbox, mails, deadLetters, lost, crashes>>
    BY DEF Enqueue
  <1> DEFINE e == [message |-> m, state |-> "waiting", made |-> 0, stalls |-> 0]
             n == Len(jobs) + 1
  <1>3. m \in Messages /\ e \in Job
    BY <1>1, Kinds, OutboxAssumption DEF Job, States
  <1>4. e.message = m /\ e.state = "waiting" /\ e.made = 0 /\ e.stalls = 0
    OBVIOUS
  <1>5. /\ jobs' \in Seq(Job) /\ DOMAIN jobs' = DOMAIN jobs \cup {n}
        /\ n \notin DOMAIN jobs /\ \A j \in DOMAIN jobs : jobs'[j] = jobs[j]
        /\ jobs'[n] = e
    <2>1. jobs \in Seq(Job) /\ jobs' = Append(jobs, e)
      BY <1>1 DEF TypeOK
    <2>2. /\ jobs' \in Seq(Job) /\ Len(jobs') = n
          /\ \A j \in 1 .. Len(jobs) : jobs'[j] = jobs[j]
          /\ jobs'[n] = e
      BY <1>3, <2>1, AppendProperties
    <2>3. DOMAIN jobs = 1 .. Len(jobs) /\ DOMAIN jobs' = 1 .. n /\ Len(jobs) \in Nat
      BY <2>1, <2>2
    <2>4. QED
      BY <2>2, <2>3
  <1>. HIDE DEF e
  <1>. HIDE DEF n
  <1>6. /\ \A q \in Processes : q # p => process'[q] = process[q]
        /\ process'[p] = [process[p] EXCEPT !.claimed = @ \ {m}]
    BY <1>1 DEF TypeOK
  <1>7. \A q \in Processes :
          /\ process'[q].claimed = IF q = p THEN process[p].claimed \ {m} ELSE process[q].claimed
          /\ process'[q].job = process[q].job
          /\ process'[q].sent = process[q].sent /\ process'[q].dying = process[q].dying
    BY <1>6, Kinds DEF Memory
  <1>8. TypeOK'
    <2>1. \A q \in Processes : process'[q] \in Memory'
      BY <1>5, <1>6, Kinds DEF Memory
    <2>2. process' \in [Processes -> Memory']
      BY <1>1, <2>1 DEF TypeOK
    <2>3. QED
      BY <1>2, <1>5, <2>2 DEF TypeOK, Job
  <1>9. JobsOf(m) = {} /\ \A q \in Processes : m \in process[q].claimed => q = p
    BY <1>1, <1>3 DEF OneJobPerMessage, Claimed
  <1>10. OneJobPerMessage'
    <2>1. \A i, j \in DOMAIN jobs' : jobs'[i].message = jobs'[j].message => i = j
      BY <1>4, <1>5, <1>9 DEF OneJobPerMessage, JobsOf
    <2>2. \A q, r \in Processes : q # r => process'[q].claimed \cap process'[r].claimed = {}
      BY <1>7 DEF OneJobPerMessage
    <2>3. \A x \in Claimed' : x # m /\ x \in Claimed
      BY <1>7, <1>9 DEF Claimed
    <2>4. \A x \in Claimed' : JobsOf(x)' = {}
      BY <1>4, <1>5, <2>3 DEF OneJobPerMessage, JobsOf
    <2>5. QED
      BY <2>1, <2>2, <2>4 DEF OneJobPerMessage
  <1>11. HeldInv'
    <2>1. \A q \in Processes : process[q].job # None => process[q].job \in DOMAIN jobs
      BY Kinds
    <2>2. QED
      BY <1>2, <1>5, <1>7, <2>1 DEF HeldInv, MessageOf
  <1>12. DispatchInv'
    <2>1. \A q \in Processes : \A x \in process'[q].claimed : outbox'[x] = "dispatched"
      BY <1>2, <1>7 DEF DispatchInv
    <2>2. outbox[m] = "dispatched"
      BY <1>1 DEF DispatchInv
    <2>3. \A j \in DOMAIN jobs' : outbox'[jobs'[j].message] = "dispatched"
      BY <1>2, <1>4, <1>5, <2>2 DEF DispatchInv
    <2>4. ASSUME NEW x \in Messages, outbox'[x] = "dispatched"
          PROVE  \/ \E q \in Processes : x \in process'[q].claimed
                 \/ \E j \in DOMAIN jobs' : jobs'[j].message = x
                 \/ x \in lost'
      <3>1. CASE x = m
        BY <1>4, <1>5, <3>1
      <3>2. CASE x # m
        BY <1>2, <1>5, <1>7, <2>4, <3>2 DEF DispatchInv
      <3>3. QED
        BY <3>1, <3>2
    <2>5. QED
      BY <2>1, <2>3, <2>4 DEF DispatchInv
  <1>13. JobsInv'
    BY <1>2, <1>4, <1>5, <1>7, OutboxAssumption DEF JobsInv
  <1>14. MailsInv'
    <2>1. mails[m] = 0
      BY <1>3, <1>9 DEF MailsInv, JobsOf
    <2>2. \A j \in DOMAIN jobs : MailedOnce(j)' = MailedOnce(j)
      BY <1>5, <1>7 DEF MailedOnce
    <2>3. QED
      BY <1>2, <1>4, <1>5, <2>1, <2>2, Kinds DEF MailsInv
  <1>15. StallsInv'
    BY <1>2, <1>4, <1>5, <1>7, Kinds DEF StallsInv, Orphaned
  <1>16. QED
    BY <1>8, <1>10, <1>11, <1>12, <1>13, <1>14, <1>15

(* A waiting job is taken: nobody else processes it.                       *)
LEMMA TakeKeepsIInv ==
    ASSUME IInv, NEW p \in Processes, NEW j \in DOMAIN jobs, TakeJob(p, j)
    PROVE  IInv'
  <1>. USE DEF IInv
  <1>1. /\ process[p].job = None /\ jobs[j].state = "waiting"
        /\ jobs' = [jobs EXCEPT ![j].state = "active"]
        /\ process' = [process EXCEPT ![p].job = j, ![p].sent = FALSE]
        /\ UNCHANGED <<outbox, mails, deadLetters, lost, crashes>>
    BY DEF TakeJob
  <1>2. /\ jobs' \in Seq(Job) /\ DOMAIN jobs' = DOMAIN jobs
        /\ \A i \in DOMAIN jobs : /\ i # j => jobs'[i] = jobs[i]
                                  /\ jobs'[i].message = jobs[i].message
        /\ jobs'[j].state = "active" /\ jobs'[j].made = jobs[j].made
        /\ jobs'[j].stalls = jobs[j].stalls
    <2>1. jobs' = [jobs EXCEPT ![j] =
                    [message |-> jobs[j].message, state |-> "active", made |-> jobs[j].made,
                     stalls |-> jobs[j].stalls]]
      <3>1. jobs[j] \in Job
        BY Kinds
      <3>2. [jobs[j] EXCEPT !.state = "active"]
              = [message |-> jobs[j].message, state |-> "active", made |-> jobs[j].made,
                 stalls |-> jobs[j].stalls]
        BY <3>1 DEF Job
      <3>3. QED
        BY <1>1, <3>2
    <2>2. "active" \in States /\ jobs[j].made \in 0 .. Attempts /\ jobs[j].stalls \in Nat
      BY Kinds DEF States
    <2>3. QED
      BY <2>1, <2>2, ChangedJob
  <1>3. \A q \in Processes :
          /\ process'[q].claimed = process[q].claimed /\ process'[q].dying = process[q].dying
          /\ process'[q].job = IF q = p THEN j ELSE process[q].job
          /\ process'[q].sent = IF q = p THEN FALSE ELSE process[q].sent
          /\ process'[q] \in Memory'
    <2>1. \A q \in Processes : q # p => process'[q] = process[q]
      BY <1>1 DEF TypeOK
    <2>2. process'[p] = [process[p] EXCEPT !.job = j, !.sent = FALSE]
      BY <1>1 DEF TypeOK
    <2>3. /\ process'[p].claimed = process[p].claimed /\ process'[p].dying = process[p].dying
          /\ process'[p].job = j /\ process'[p].sent = FALSE /\ process'[p] \in Memory'
      BY <1>2, <2>2, Kinds DEF Memory
    <2>4. \A q \in Processes : process[q] \in Memory'
      BY <1>2, Kinds DEF Memory
    <2>5. QED
      BY <2>1, <2>3, <2>4
  <1>4. TypeOK'
    <2>1. process' \in [Processes -> Memory']
      BY <1>1, <1>3 DEF TypeOK
    <2>2. QED
      BY <1>1, <1>2, <2>1 DEF TypeOK, Job
  <1>5. OneJobPerMessage'
    BY <1>2, <1>3, OneJobKept
  <1>6. DispatchInv'
    BY <1>1, <1>2, <1>3, DispatchKept
  <1>7. \A q \in Processes : process[q].job # j
    BY <1>1, Kinds DEF HeldInv
  <1>8. HeldInv'
    <2>1. \A q \in Processes : process[q].job \in DOMAIN jobs \cup {None}
      BY Kinds
    <2>2. j # None
      BY Kinds
    <2>3. ASSUME NEW q \in Processes, process'[q].job # None
          PROVE  jobs'[process'[q].job].state = "active"
      <3>1. CASE q = p
        <4>1. process'[q].job = j
          BY <1>3, <3>1
        <4>2. QED
          BY <1>2, <4>1
      <3>2. CASE q # p
        <4>1. process'[q].job = process[q].job
          BY <1>3, <3>2
        <4>2. QED
          BY <1>2, <1>7, <2>1, <2>3, <4>1 DEF HeldInv
      <3>3. QED
        BY <3>1, <3>2
    <2>4. ASSUME NEW q \in Processes, process'[q].sent
          PROVE  process'[q].job # None /\ mails'[jobs'[process'[q].job].message] > 0
      <3>1. q # p
        BY <1>3, <2>4
      <3>2. process[q].sent /\ process'[q].job = process[q].job
        BY <1>3, <2>4, <3>1
      <3>3. process[q].job # None /\ mails[jobs[process[q].job].message] > 0
        BY <3>2 DEF HeldInv, MessageOf
      <3>4. QED
        BY <1>1, <1>2, <2>1, <3>2, <3>3
    <2>5. \A q, r \in Processes :
            process'[q].job # None /\ process'[q].job = process'[r].job => q = r
      BY <1>3, <1>7 DEF HeldInv
    <2>6. QED
      BY <2>3, <2>4, <2>5 DEF HeldInv, MessageOf
  <1>9. JobsInv'
    BY <1>1, <1>2, <1>3 DEF JobsInv
  <1>10. MailsInv'
    <2>1. \A i \in DOMAIN jobs : jobs'[i].made = jobs[i].made
      BY <1>2
    <2>2. ASSUME NEW i \in DOMAIN jobs, MailedOnce(i) PROVE MailedOnce(i)'
      <3>1. CASE jobs[i].state = "completed"
        BY <1>1, <1>2, <3>1 DEF MailedOnce
      <3>2. CASE \E q \in Processes : process[q].job = i /\ process[q].sent
        <4>1. PICK q \in Processes : process[q].job = i /\ process[q].sent
          BY <3>2
        <4>2. q # p
          BY <1>1, <4>1, Kinds
        <4>3. QED
          BY <1>3, <4>1, <4>2 DEF MailedOnce
      <3>3. QED
        BY <2>2, <3>1, <3>2 DEF MailedOnce
    <2>3. QED
      BY <1>1, <1>2, <2>1, <2>2 DEF MailsInv
  <1>11. StallsInv'
    <2>1. ~Orphaned(j)'
      BY <1>3 DEF Orphaned
    <2>2. ASSUME NEW i \in DOMAIN jobs, i # j, Orphaned(i)' PROVE Orphaned(i)
      <3>1. jobs'[i] = jobs[i]
        BY <1>2, <2>2
      <3>2. \A q \in Processes : process[q].job # i
        <4>1. None \notin DOMAIN jobs
          BY Kinds
        <4>2. QED
          BY <1>1, <1>3, <2>2, <4>1 DEF Orphaned
      <3>3. QED
        BY <2>2, <3>1, <3>2 DEF Orphaned
    <2>3. \A i \in DOMAIN jobs : Orphaned(i)' => Orphaned(i)
      BY <2>1, <2>2
    <2>4. \A i \in DOMAIN jobs : jobs'[i].stalls = jobs[i].stalls
      BY <1>2
    <2>5. QED
      BY <1>1, <1>2, <2>3, <2>4, StallsKept
  <1>12. QED
    BY <1>4, <1>5, <1>6, <1>8, <1>9, <1>10, <1>11

(* The mail of the job under way is sent once.                             *)
LEMMA SendKeepsIInv ==
    ASSUME IInv, NEW p \in Processes, Send(p)
    PROVE  IInv'
  <1>. USE DEF IInv
  <1> DEFINE j == process[p].job
             m == jobs[j].message
  <1>1. /\ j # None /\ ~process[p].sent
        /\ mails' = [mails EXCEPT ![m] = @ + 1]
        /\ process' = [process EXCEPT ![p].sent = TRUE]
        /\ UNCHANGED <<outbox, jobs, deadLetters, lost, crashes>>
    BY DEF Send, MessageOf
  <1>2. j \in DOMAIN jobs /\ m \in Messages /\ jobs[j].state = "active"
    BY <1>1, Kinds DEF HeldInv
  <1>3. \A q \in Processes :
          /\ process'[q].claimed = process[q].claimed /\ process'[q].dying = process[q].dying
          /\ process'[q].job = process[q].job
          /\ process'[q].sent = IF q = p THEN TRUE ELSE process[q].sent
          /\ process'[q] \in Memory
    BY <1>1, Kinds DEF Memory, TypeOK
  <1>4. \A n \in Messages : /\ mails'[n] \in Nat
                            /\ mails'[n] = IF n = m THEN mails[n] + 1 ELSE mails[n]
    BY <1>1, <1>2, Kinds DEF TypeOK
  <1>. HIDE DEF j
  <1>. HIDE DEF m
  <1>5. TypeOK'
    <2>1. process' \in [Processes -> Memory'] /\ mails' \in [Messages -> Nat]
      BY <1>1, <1>3, <1>4 DEF TypeOK, Memory
    <2>2. QED
      BY <1>1, <2>1 DEF TypeOK
  <1>6. OneJobPerMessage' /\ DispatchInv'
    BY <1>1, <1>3, OneJobKept, DispatchKept
  <1>7. HeldInv'
    <2>1. \A q \in Processes : process[q].job # None => jobs[process[q].job].message \in Messages
      BY Kinds
    <2>2. \A q \in Processes : process'[q].sent => process'[q].job # None /\ mails'[MessageOf(q)'] > 0
      BY <1>1, <1>2, <1>3, <1>4, <2>1, Kinds DEF HeldInv, MessageOf, j, m
    <2>3. QED
      BY <1>1, <1>3, <2>2 DEF HeldInv
  <1>8. JobsInv'
    BY <1>1, <1>3, <1>4, Kinds DEF JobsInv
  <1>9. MailsInv'
    <2>1. ~MailedOnce(j) /\ MailedOnce(j)'
      BY <1>1, <1>2, <1>3 DEF MailedOnce, HeldInv, j
    <2>2. \A i \in DOMAIN jobs : MailedOnce(i) => MailedOnce(i)'
      BY <1>1, <1>3 DEF MailedOnce
    <2>3. \A i \in DOMAIN jobs : jobs[i].message = m => i = j
      BY <1>2 DEF OneJobPerMessage, m
    <2>4. m = jobs[j].message
      BY DEF m
    <2>5. ASSUME NEW i \in DOMAIN jobs
          PROVE  /\ mails'[jobs[i].message] <= jobs[i].made + crashes + 1
                 /\ mails'[jobs[i].message] > jobs[i].made + crashes => MailedOnce(i)'
      <3>1. CASE i = j
        <4>1. mails[m] <= jobs[j].made + crashes
          BY <1>2, <2>1, <2>4, Kinds DEF MailsInv
        <4>2. MailedOnce(i)'
          BY <1>1, <1>2, <1>3, <3>1 DEF MailedOnce, j
        <4>3. jobs[i].message = m /\ jobs[i].made \in Nat /\ mails'[m] = mails[m] + 1
          BY <1>2, <1>4, <2>4, <3>1, Kinds
        <4>4. QED
          BY <1>2, <3>1, <4>1, <4>2, <4>3, Kinds
      <3>2. CASE i # j
        <4>1. mails'[jobs[i].message] = mails[jobs[i].message]
          BY <1>4, <2>3, <3>2, Kinds
        <4>2. /\ mails[jobs[i].message] <= jobs[i].made + crashes + 1
              /\ mails[jobs[i].message] > jobs[i].made + crashes => MailedOnce(i)
          BY DEF MailsInv
        <4>3. MailedOnce(i) => MailedOnce(i)'
          BY <2>2
        <4>4. QED
          BY <4>1, <4>2, <4>3
      <3>3. QED
        BY <3>1, <3>2
    <2>6. \A n \in Messages : (\A i \in DOMAIN jobs : jobs[i].message # n) => mails'[n] = 0
      BY <1>2, <1>4, <2>4 DEF MailsInv
    <2>7. QED
      BY <1>1, <2>5, <2>6 DEF MailsInv
  <1>10. StallsInv'
    BY <1>1, <1>3, StallsKept DEF Orphaned
  <1>11. QED
    BY <1>5, <1>6, <1>7, <1>8, <1>9, <1>10

(* A mailed job is completed and let go.                                   *)
LEMMA CompleteKeepsIInv ==
    ASSUME IInv, NEW p \in Processes, Complete(p)
    PROVE  IInv'
  <1>. USE DEF IInv
  <1> DEFINE j == process[p].job
  <1>1. /\ j # None /\ process[p].sent
        /\ jobs' = [jobs EXCEPT ![j].state = "completed"]
        /\ process' = [process EXCEPT ![p].job = None, ![p].sent = FALSE]
        /\ UNCHANGED <<outbox, mails, deadLetters, lost, crashes>>
    BY DEF Complete
  <1>2. /\ j \in DOMAIN jobs /\ jobs[j].state = "active" /\ mails[jobs[j].message] > 0
        /\ \A q \in Processes : q # p => process[q].job # j
    BY <1>1, Kinds DEF HeldInv, MessageOf
  <1>3. /\ jobs' \in Seq(Job) /\ DOMAIN jobs' = DOMAIN jobs
        /\ \A i \in DOMAIN jobs : /\ i # j => jobs'[i] = jobs[i]
                                  /\ jobs'[i].message = jobs[i].message
        /\ jobs'[j].state = "completed" /\ jobs'[j].made = jobs[j].made
        /\ jobs'[j].stalls = jobs[j].stalls
    <2>1. jobs' = [jobs EXCEPT ![j] =
                    [message |-> jobs[j].message, state |-> "completed", made |-> jobs[j].made,
                     stalls |-> jobs[j].stalls]]
      <3>1. jobs[j] \in Job
        BY <1>2, Kinds
      <3>2. [jobs[j] EXCEPT !.state = "completed"]
              = [message |-> jobs[j].message, state |-> "completed", made |-> jobs[j].made,
                 stalls |-> jobs[j].stalls]
        BY <3>1 DEF Job
      <3>3. QED
        BY <1>1, <3>2
    <2>2. "completed" \in States /\ jobs[j].made \in 0 .. Attempts /\ jobs[j].stalls \in Nat
      BY <1>2, Kinds DEF States
    <2>3. QED
      BY <1>2, <2>1, <2>2, ChangedJob
  <1>4. /\ \A q \in Processes : q # p => process'[q] = process[q]
        /\ process'[p].claimed = process[p].claimed /\ process'[p].dying = process[p].dying
        /\ process'[p].job = None /\ process'[p].sent = FALSE
        /\ \A q \in Processes : process'[q] \in Memory'
    <2>1. \A q \in Processes : q # p => process'[q] = process[q]
      BY <1>1 DEF TypeOK
    <2>2. process'[p] = [process[p] EXCEPT !.job = None, !.sent = FALSE]
      BY <1>1 DEF TypeOK
    <2>3. /\ process'[p].claimed = process[p].claimed /\ process'[p].dying = process[p].dying
          /\ process'[p].job = None /\ process'[p].sent = FALSE /\ process'[p] \in Memory'
      BY <1>3, <2>2, Kinds DEF Memory
    <2>4. \A q \in Processes : process[q] \in Memory'
      BY <1>3, Kinds DEF Memory
    <2>5. QED
      BY <2>1, <2>3, <2>4
  <1>. HIDE DEF j
  <1>5. TypeOK'
    <2>1. process' \in [Processes -> Memory']
      BY <1>1, <1>4 DEF TypeOK
    <2>2. QED
      BY <1>1, <1>3, <2>1 DEF TypeOK, Job
  <1>6. OneJobPerMessage' /\ DispatchInv'
    BY <1>1, <1>3, <1>4, OneJobKept, DispatchKept
  <1>7. HeldInv'
    <2>1. ASSUME NEW q \in Processes, process'[q].job # None
          PROVE  jobs'[process'[q].job].state = "active"
      BY <1>2, <1>3, <1>4, <2>1, Kinds DEF HeldInv
    <2>2. ASSUME NEW q \in Processes, process'[q].sent
          PROVE  process'[q].job # None /\ mails'[jobs'[process'[q].job].message] > 0
      <3>1. q # p
        BY <1>1, <1>3, <1>4, <2>2
      <3>2. process[q].sent /\ process'[q].job = process[q].job
        BY <1>1, <1>3, <1>4, <2>2, <3>1
      <3>3. process[q].job # None /\ mails[jobs[process[q].job].message] > 0
        BY <3>2 DEF HeldInv, MessageOf
      <3>4. process[q].job \in DOMAIN jobs
        BY <3>3, Kinds
      <3>5. jobs'[process[q].job].message = jobs[process[q].job].message
        BY <1>1, <1>3, <1>4, <3>4
      <3>6. QED
        BY <1>1, <3>2, <3>3, <3>5
    <2>3. QED
      BY <1>4, <2>1, <2>2 DEF HeldInv, MessageOf
  <1>8. JobsInv'
    <2>1. ASSUME NEW i \in DOMAIN jobs
          PROVE  /\ jobs'[i].state = "completed" => mails'[jobs'[i].message] > 0
                 /\ jobs'[i].state = "failed" =>
                      \/ i \in deadLetters' \/ jobs'[i].message \in lost'
                      \/ \E q \in Processes : i \in process'[q].dying
                      \/ jobs'[i].made < Attempts /\ MaxStalls < jobs'[i].stalls
                 /\ jobs'[i].state # "failed" => jobs'[i].made < Attempts
      <3>1. CASE i = j
        <4>1. jobs'[i].state = "completed" /\ jobs'[i].made = jobs[j].made
          BY <1>3, <3>1
        <4>2. mails'[jobs'[i].message] > 0 /\ jobs[j].made < Attempts
          BY <1>1, <1>2, <1>3, <3>1 DEF JobsInv
        <4>3. jobs'[i].state # "failed" /\ jobs'[i].made < Attempts
          BY <4>1, <4>2
        <4>4. QED
          BY <4>2, <4>3, Zenon
      <3>2. CASE i # j
        <4>1. \A q \in Processes : process'[q].dying = process[q].dying
          BY <1>4
        <4>2. QED
          BY <1>1, <1>3, <3>2, <4>1 DEF JobsInv
      <3>3. QED
        BY <3>1, <3>2
    <2>2. QED
      BY <1>3, <2>1 DEF JobsInv
  <1>9. MailsInv'
    <2>1. \A i \in DOMAIN jobs : jobs'[i].made = jobs[i].made
      BY <1>3
    <2>2. ASSUME NEW i \in DOMAIN jobs, MailedOnce(i) PROVE MailedOnce(i)'
      <3>1. CASE jobs'[i].state = "completed"
        BY <3>1 DEF MailedOnce
      <3>2. CASE jobs'[i].state # "completed"
        <4>1. i # j /\ jobs[i].state # "completed"
          BY <1>3, <3>2
        <4>2. PICK q \in Processes : process[q].job = i /\ process[q].sent
          BY <2>2, <4>1 DEF MailedOnce
        <4>3. q # p
          BY <4>1, <4>2 DEF j
        <4>4. QED
          BY <1>4, <4>2, <4>3 DEF MailedOnce
      <3>3. QED
        BY <3>1, <3>2
    <2>3. QED
      BY <1>1, <1>3, <2>1, <2>2 DEF MailsInv
  <1>10. StallsInv'
    <2>1. jobs'[j].state # "active"
      BY <1>3
    <2>2. ASSUME NEW i \in DOMAIN jobs, i # j, Orphaned(i)' PROVE Orphaned(i)
      <3>1. jobs'[i] = jobs[i] /\ process[p].job = j
        BY <1>3, <2>2 DEF j
      <3>2. QED
        BY <1>4, <2>2, <3>1 DEF Orphaned
    <2>3. \A i \in DOMAIN jobs : Orphaned(i)' => Orphaned(i)
      BY <2>1, <2>2 DEF Orphaned
    <2>4. \A i \in DOMAIN jobs : jobs'[i].stalls = jobs[i].stalls
      BY <1>3
    <2>5. QED
      BY <1>1, <1>3, <2>3, <2>4, StallsKept
  <1>11. QED
    BY <1>5, <1>6, <1>7, <1>8, <1>9, <1>10

(* A failed attempt leaves the job delayed, or failed and on its way to the
   dead letters: the two decisions agree.                                  *)
LEMMA FailKeepsIInv ==
    ASSUME IInv, NEW p \in Processes, FailAttempt(p)
    PROVE  IInv'
  <1>. USE DEF IInv
  <1> DEFINE j == process[p].job
             made == jobs[j].made + 1
             state == IF MayRetry(made) /\ ~StalledTooOften(j) THEN "delayed" ELSE "failed"
             dying == process[p].dying \cup (IF IsFinalAttempt(made) THEN {j} ELSE {})
  <1>1. /\ j # None
        /\ jobs' = [jobs EXCEPT ![j] =
                      [message |-> jobs[j].message, state |-> state, made |-> made,
                       stalls |-> jobs[j].stalls]]
        /\ process' = [process EXCEPT ![p].job = None, ![p].sent = FALSE, ![p].dying = dying]
        /\ UNCHANGED <<outbox, mails, deadLetters, lost, crashes>>
    BY DEF FailAttempt, MessageOf
  <1>2. /\ j \in DOMAIN jobs /\ jobs[j].state = "active" /\ jobs[j].made < Attempts
        /\ \A q \in Processes : q # p => process[q].job # j
    BY <1>1, Kinds DEF HeldInv, JobsInv
  <1>3. /\ made \in 0 .. Attempts /\ state \in {"delayed", "failed"}
        /\ state = "failed" => j \in dying \/ (made < Attempts /\ MaxStalls < jobs[j].stalls)
        /\ state # "failed" => made < Attempts
        /\ process[p].dying \subseteq dying /\ dying \subseteq DOMAIN jobs
    <2>1. jobs[j].made \in 0 .. Attempts /\ jobs[j].stalls \in Nat /\ Attempts \in Nat
          /\ MaxStalls \in Nat /\ process[p].dying \subseteq DOMAIN jobs
      BY <1>2, Kinds
    <2>2. made \in 0 .. Attempts
      BY <1>2, <2>1
    <2>3. process[p].dying \subseteq dying /\ dying \subseteq DOMAIN jobs
      BY <1>2, <2>1
    <2>4. IsFinalAttempt(made) => j \in dying
      OBVIOUS
    <2>5. state = "failed" => ~(made < Attempts /\ ~(jobs[j].stalls > MaxStalls))
      BY DEF MayRetry, StalledTooOften
    <2>6. state \in {"delayed", "failed"} /\ (state # "failed" => made < Attempts)
      BY DEF MayRetry
    <2> HIDE DEF state, dying
    <2>7. QED
      BY <2>1, <2>2, <2>3, <2>4, <2>5, <2>6 DEF IsFinalAttempt
  <1>4. jobs[j].made \in Nat /\ made = jobs[j].made + 1
    BY <1>2, Kinds
  <1>. HIDE DEF made
  <1>. HIDE DEF state
  <1>. HIDE DEF dying
  <1>5. /\ jobs' \in Seq(Job) /\ DOMAIN jobs' = DOMAIN jobs
        /\ \A i \in DOMAIN jobs : /\ i # j => jobs'[i] = jobs[i]
                                  /\ jobs'[i].message = jobs[i].message
        /\ jobs'[j].state = state /\ jobs'[j].made = made
        /\ jobs'[j].stalls = jobs[j].stalls
    <2>1. state \in States
      BY <1>3 DEF States
    <2>2. TypeOK /\ j \in DOMAIN jobs /\ made \in 0 .. Attempts /\ jobs[j].stalls \in Nat
      BY <1>2, <1>3, Kinds
    <2>3. QED
      BY <1>1, <2>1, <2>2, ChangedJob
  <1>6. /\ \A q \in Processes : q # p => process'[q] = process[q]
        /\ process'[p].claimed = process[p].claimed /\ process'[p].dying = dying
        /\ process'[p].job = None /\ process'[p].sent = FALSE
        /\ \A q \in Processes : process'[q] \in Memory'
    <2>1. \A q \in Processes : q # p => process'[q] = process[q]
      BY <1>1 DEF TypeOK
    <2>2. process'[p] = [process[p] EXCEPT !.job = None, !.sent = FALSE, !.dying = dying]
      BY <1>1 DEF TypeOK
    <2>3. /\ process'[p].claimed = process[p].claimed /\ process'[p].dying = dying
          /\ process'[p].job = None /\ process'[p].sent = FALSE /\ process'[p] \in Memory'
      BY <1>3, <1>5, <2>2, Kinds DEF Memory
    <2>4. \A q \in Processes : process[q] \in Memory'
      BY <1>5, Kinds DEF Memory
    <2>5. QED
      BY <2>1, <2>3, <2>4
  <1>. HIDE DEF j
  <1>7. TypeOK'
    <2>1. process' \in [Processes -> Memory']
      BY <1>1, <1>6 DEF TypeOK
    <2>2. QED
      BY <1>1, <1>5, <2>1 DEF TypeOK, Job
  <1>8. OneJobPerMessage' /\ DispatchInv'
    BY <1>1, <1>5, <1>6, OneJobKept, DispatchKept
  <1>9. HeldInv'
    <2>1. ASSUME NEW q \in Processes, process'[q].job # None
          PROVE  jobs'[process'[q].job].state = "active"
      BY <1>2, <1>5, <1>6, <2>1, Kinds DEF HeldInv
    <2>2. ASSUME NEW q \in Processes, process'[q].sent
          PROVE  process'[q].job # None /\ mails'[jobs'[process'[q].job].message] > 0
      <3>1. q # p
        BY <1>1, <1>5, <1>6, <2>2
      <3>2. process[q].sent /\ process'[q].job = process[q].job
        BY <1>1, <1>5, <1>6, <2>2, <3>1
      <3>3. process[q].job # None /\ mails[jobs[process[q].job].message] > 0
        BY <3>2 DEF HeldInv, MessageOf
      <3>4. process[q].job \in DOMAIN jobs
        BY <3>3, Kinds
      <3>5. jobs'[process[q].job].message = jobs[process[q].job].message
        BY <1>1, <1>5, <1>6, <3>4
      <3>6. QED
        BY <1>1, <3>2, <3>3, <3>5
    <2>3. QED
      BY <1>6, <2>1, <2>2 DEF HeldInv, MessageOf
  <1>10. JobsInv'
    <2>1. ASSUME NEW i \in DOMAIN jobs
          PROVE  /\ jobs'[i].state = "completed" => mails'[jobs'[i].message] > 0
                 /\ jobs'[i].state = "failed" =>
                      \/ i \in deadLetters' \/ jobs'[i].message \in lost'
                      \/ \E q \in Processes : i \in process'[q].dying
                      \/ jobs'[i].made < Attempts /\ MaxStalls < jobs'[i].stalls
                 /\ jobs'[i].state # "failed" => jobs'[i].made < Attempts
      <3>1. CASE i = j
        BY <1>1, <1>3, <1>5, <1>6, <3>1
      <3>2. CASE i # j
        BY <1>1, <1>3, <1>5, <1>6, <3>2 DEF JobsInv
      <3>3. QED
        BY <3>1, <3>2
    <2>2. QED
      BY <1>5, <2>1 DEF JobsInv
  <1>11. MailsInv'
    <2>1. ASSUME NEW i \in DOMAIN jobs
          PROVE  /\ mails'[jobs'[i].message] <= jobs'[i].made + crashes' + 1
                 /\ mails'[jobs'[i].message] > jobs'[i].made + crashes' => MailedOnce(i)'
      <3>1. CASE i = j
        <4>1. mails[jobs[j].message] <= jobs[j].made + crashes + 1
          BY <1>2 DEF MailsInv
        <4>2. mails[jobs[j].message] <= made + crashes
          BY <1>2, <1>4, <4>1, Kinds
        <4>3. /\ mails'[jobs'[i].message] = mails[jobs[j].message]
              /\ jobs'[i].made = made /\ crashes' = crashes
          BY <1>1, <1>2, <1>5, <3>1
        <4>4. mails[jobs[j].message] \in Nat /\ made \in Nat /\ crashes \in Nat
          BY <1>2, <1>4, Kinds
        <4>5. QED
          BY <4>2, <4>3, <4>4
      <3>2. CASE i # j
        <4>1. MailedOnce(i) => MailedOnce(i)'
          <5>1. \A q \in Processes : process[q].job = i => q # p
            BY <3>2 DEF j
          <5>2. QED
            BY <1>5, <1>6, <3>2, <5>1 DEF MailedOnce
        <4>2. QED
          BY <1>1, <1>5, <3>2, <4>1 DEF MailsInv
      <3>3. QED
        BY <3>1, <3>2
    <2>2. QED
      BY <1>1, <1>5, <2>1 DEF MailsInv
  <1>12. StallsInv'
    <2>1. jobs'[j].state # "active"
      BY <1>3, <1>5
    <2>2. ASSUME NEW i \in DOMAIN jobs, i # j, Orphaned(i)' PROVE Orphaned(i)
      <3>1. jobs'[i] = jobs[i] /\ process[p].job = j
        BY <1>5, <2>2 DEF j
      <3>2. QED
        BY <1>6, <2>2, <3>1 DEF Orphaned
    <2>3. \A i \in DOMAIN jobs : Orphaned(i)' => Orphaned(i)
      BY <2>1, <2>2 DEF Orphaned
    <2>4. \A i \in DOMAIN jobs : jobs'[i].stalls = jobs[i].stalls
      BY <1>5
    <2>5. QED
      BY <1>1, <1>5, <2>3, <2>4, StallsKept
  <1>13. QED
    BY <1>7, <1>8, <1>9, <1>10, <1>11, <1>12

(* A job on its way becomes a dead letter.                                 *)
LEMMA DeadLetterKeepsIInv ==
    ASSUME IInv, NEW p \in Processes, AddDeadLetter(p)
    PROVE  IInv'
  <1>. USE DEF IInv
  <1>1. PICK j \in process[p].dying :
          /\ deadLetters' = deadLetters \cup {j}
          /\ process' = [process EXCEPT ![p].dying = @ \ {j}]
    BY DEF AddDeadLetter
  <1>2. UNCHANGED <<outbox, jobs, mails, lost, crashes>>
    BY DEF AddDeadLetter
  <1>3. \A q \in Processes :
          /\ process'[q].claimed = process[q].claimed /\ process'[q].job = process[q].job
          /\ process'[q].sent = process[q].sent
          /\ process'[q].dying \subseteq process[q].dying
          /\ process[q].dying \subseteq process'[q].dying \cup {j}
          /\ process'[q] \in Memory
    <2>1. \A q \in Processes : q # p => process'[q] = process[q]
      BY <1>1 DEF TypeOK
    <2>2. process'[p] = [process[p] EXCEPT !.dying = @ \ {j}]
      BY <1>1 DEF TypeOK
    <2>3. /\ process'[p].claimed = process[p].claimed /\ process'[p].job = process[p].job
          /\ process'[p].sent = process[p].sent /\ process'[p].dying = process[p].dying \ {j}
          /\ process'[p] \in Memory
      BY <2>2, Kinds DEF Memory
    <2>4. QED
      BY <2>1, <2>3, Kinds
  <1>4. TypeOK'
    <2>1. Memory' = Memory
      BY <1>2 DEF Memory
    <2>2. process' \in [Processes -> Memory']
      BY <1>1, <1>3, <2>1 DEF TypeOK
    <2>3. deadLetters' \subseteq DOMAIN jobs'
      BY <1>1, <1>2, Kinds DEF TypeOK
    <2>4. QED
      BY <1>2, <2>2, <2>3 DEF TypeOK
  <1>5. OneJobPerMessage' /\ DispatchInv'
    BY <1>2, <1>3, OneJobKept, DispatchKept
  <1>6. HeldInv'
    BY <1>2, <1>3 DEF HeldInv, MessageOf
  <1>7. JobsInv'
    <2>1. ASSUME NEW i \in DOMAIN jobs, jobs[i].state = "failed"
          PROVE  \/ i \in deadLetters' \/ jobs[i].message \in lost
                 \/ \E q \in Processes : i \in process'[q].dying
                 \/ jobs[i].made < Attempts /\ MaxStalls < jobs[i].stalls
      <3>1. CASE i \in deadLetters \/ jobs[i].message \in lost
        BY <1>1, <3>1
      <3>2. CASE \E q \in Processes : i \in process[q].dying
        BY <1>1, <1>3, <3>2
      <3>3. QED
        BY <2>1, <3>1, <3>2 DEF JobsInv
    <2>2. QED
      BY <1>2, <2>1 DEF JobsInv
  <1>8. MailsInv'
    <2>1. \A i \in DOMAIN jobs : MailedOnce(i) => MailedOnce(i)'
      BY <1>2, <1>3 DEF MailedOnce
    <2>2. QED
      BY <1>2, <2>1 DEF MailsInv
  <1>9. StallsInv'
    BY <1>2, <1>3, StallsKept DEF Orphaned
  <1>10. QED
    BY <1>4, <1>5, <1>6, <1>7, <1>8, <1>9

(* A job whose delay is over waits again.                                  *)
LEMMA EndDelayKeepsIInv ==
    ASSUME IInv, NEW j \in DOMAIN jobs, EndDelay(j)
    PROVE  IInv'
  <1>. USE DEF IInv
  <1>1. /\ jobs' = [jobs EXCEPT ![j].state = "waiting"]
        /\ UNCHANGED <<outbox, mails, deadLetters, process, lost, crashes>>
    BY DEF EndDelay
  <1>2. /\ jobs[j].state = "delayed"
        /\ \A q \in Processes : process[q].job # j
    BY Kinds DEF EndDelay, HeldInv
  <1>3. /\ jobs' \in Seq(Job) /\ DOMAIN jobs' = DOMAIN jobs
        /\ \A i \in DOMAIN jobs : /\ i # j => jobs'[i] = jobs[i]
                                  /\ jobs'[i].message = jobs[i].message
        /\ jobs'[j].state = "waiting" /\ jobs'[j].made = jobs[j].made
        /\ jobs'[j].stalls = jobs[j].stalls
    <2>1. jobs' = [jobs EXCEPT ![j] =
                    [message |-> jobs[j].message, state |-> "waiting", made |-> jobs[j].made,
                     stalls |-> jobs[j].stalls]]
      <3>1. jobs[j] \in Job
        BY Kinds
      <3>2. [jobs[j] EXCEPT !.state = "waiting"]
              = [message |-> jobs[j].message, state |-> "waiting", made |-> jobs[j].made,
                 stalls |-> jobs[j].stalls]
        BY <3>1 DEF Job
      <3>3. QED
        BY <1>1, <3>2
    <2>2. "waiting" \in States /\ jobs[j].made \in 0 .. Attempts /\ jobs[j].stalls \in Nat
      BY Kinds DEF States
    <2>3. QED
      BY <2>1, <2>2, ChangedJob
  <1>4. TypeOK'
    <2>1. Memory' = Memory
      BY <1>3 DEF Memory
    <2>2. QED
      BY <1>1, <1>3, <2>1 DEF TypeOK, Job
  <1>5. OneJobPerMessage' /\ DispatchInv'
    BY <1>1, <1>3, OneJobKept, DispatchKept
  <1>6. HeldInv'
    BY <1>1, <1>2, <1>3, Kinds DEF HeldInv, MessageOf
  <1>7. JobsInv'
    BY <1>1, <1>2, <1>3 DEF JobsInv
  <1>8. MailsInv'
    <2>1. \A i \in DOMAIN jobs : jobs'[i].made = jobs[i].made
      BY <1>3
    <2>2. ASSUME NEW i \in DOMAIN jobs, MailedOnce(i) PROVE MailedOnce(i)'
      <3>1. i # j
        BY <1>2, <2>2 DEF MailedOnce
      <3>2. QED
        BY <1>1, <1>3, <2>2, <3>1 DEF MailedOnce
    <2>3. QED
      BY <1>1, <1>3, <2>1, <2>2 DEF MailsInv
  <1>9. StallsInv'
    BY <1>1, <1>2, <1>3, StallsKept DEF Orphaned
  <1>10. QED
    BY <1>4, <1>5, <1>6, <1>7, <1>8, <1>9

(* A job whose process died waits again, one stall older.                  *)
LEMMA StallKeepsIInv ==
    ASSUME IInv, NEW j \in DOMAIN jobs, Stall(j)
    PROVE  IInv'
  <1>. USE DEF IInv
  <1>1. /\ jobs' = [jobs EXCEPT ![j] =
                      [message |-> jobs[j].message, state |-> "waiting", made |-> jobs[j].made,
                       stalls |-> jobs[j].stalls + 1]]
        /\ UNCHANGED <<outbox, mails, deadLetters, process, lost, crashes>>
    BY DEF Stall
  <1>2. /\ jobs[j].state = "active"
        /\ \A q \in Processes : process[q].job # j
    BY Kinds DEF Stall, HeldInv
  <1>3. /\ jobs' \in Seq(Job) /\ DOMAIN jobs' = DOMAIN jobs
        /\ \A i \in DOMAIN jobs : /\ i # j => jobs'[i] = jobs[i]
                                  /\ jobs'[i].message = jobs[i].message
        /\ jobs'[j].state = "waiting" /\ jobs'[j].made = jobs[j].made
        /\ jobs'[j].stalls = jobs[j].stalls + 1
    <2>1. "waiting" \in States /\ jobs[j].made \in 0 .. Attempts /\ jobs[j].stalls + 1 \in Nat
      BY Kinds DEF States
    <2>2. QED
      BY <1>1, <2>1, ChangedJob
  <1>4. TypeOK'
    <2>1. Memory' = Memory
      BY <1>3 DEF Memory
    <2>2. QED
      BY <1>1, <1>3, <2>1 DEF TypeOK, Job
  <1>5. OneJobPerMessage' /\ DispatchInv'
    BY <1>1, <1>3, OneJobKept, DispatchKept
  <1>6. HeldInv'
    BY <1>1, <1>2, <1>3, Kinds DEF HeldInv, MessageOf
  <1>7. JobsInv'
    BY <1>1, <1>2, <1>3 DEF JobsInv
  <1>8. MailsInv'
    <2>1. \A i \in DOMAIN jobs : jobs'[i].made = jobs[i].made
      BY <1>3
    <2>2. ASSUME NEW i \in DOMAIN jobs, MailedOnce(i) PROVE MailedOnce(i)'
      <3>1. i # j
        BY <1>2, <2>2 DEF MailedOnce
      <3>2. QED
        BY <1>1, <1>3, <2>2, <3>1 DEF MailedOnce
    <2>3. QED
      BY <1>1, <1>3, <2>1, <2>2 DEF MailsInv
  <1>9. StallsInv'
    <2>1. jobs[j].stalls < crashes /\ jobs[j].stalls \in Nat /\ crashes \in Nat
      BY <1>2, Kinds DEF StallsInv, Orphaned
    <2>2. QED
      BY <1>1, <1>2, <1>3, <2>1 DEF StallsInv, Orphaned
  <1>10. QED
    BY <1>4, <1>5, <1>6, <1>7, <1>8, <1>9

(* A process dies: what it held is in the history.                         *)
LEMMA CrashKeepsIInv ==
    ASSUME IInv, NEW p \in Processes, Crash(p)
    PROVE  IInv'
  <1>. USE DEF IInv
  <1>1. /\ crashes < MaxCrashes /\ crashes' = crashes + 1
        /\ process' = [process EXCEPT ![p] = Fresh]
        /\ lost' = lost \cup process[p].claimed \cup {jobs[j].message : j \in process[p].dying}
        /\ UNCHANGED <<outbox, jobs, mails, deadLetters>>
    BY DEF Crash
  <1>2. /\ \A q \in Processes : q # p => process'[q] = process[q]
        /\ process'[p].claimed = {} /\ process'[p].dying = {}
        /\ process'[p].job = None /\ process'[p].sent = FALSE
        /\ Fresh \in Memory
    BY <1>1 DEF TypeOK, Fresh, Memory
  <1>3. TypeOK'
    <2>1. process' \in [Processes -> Memory']
      BY <1>1, <1>2 DEF TypeOK, Memory
    <2>2. lost' \subseteq Messages
      BY <1>1, Kinds DEF TypeOK
    <2>3. crashes' \in 0 .. MaxCrashes
      BY <1>1, OutboxAssumption DEF TypeOK
    <2>4. QED
      BY <1>1, <2>1, <2>2, <2>3 DEF TypeOK
  <1>4. OneJobPerMessage' /\ DispatchInv'
    BY <1>1, <1>2, OneJobKept, DispatchKept
  <1>5. HeldInv'
    BY <1>1, <1>2 DEF HeldInv, MessageOf
  <1>6. JobsInv'
    <2>1. ASSUME NEW i \in DOMAIN jobs, jobs[i].state = "failed"
          PROVE  \/ i \in deadLetters \/ jobs[i].message \in lost'
                 \/ \E q \in Processes : i \in process'[q].dying
                 \/ jobs[i].made < Attempts /\ MaxStalls < jobs[i].stalls
      <3>1. CASE i \in deadLetters \/ jobs[i].message \in lost
        BY <1>1, <3>1
      <3>2. CASE i \in process[p].dying
        BY <1>1, <3>2
      <3>3. CASE \E q \in Processes : q # p /\ i \in process[q].dying
        BY <1>2, <3>3
      <3>4. QED
        BY <2>1, <3>1, <3>2, <3>3 DEF JobsInv
    <2>2. QED
      BY <1>1, <2>1 DEF JobsInv
  <1>7. MailsInv'
    <2>1. \A i \in DOMAIN jobs : mails[jobs[i].message] <= jobs[i].made + crashes'
      BY <1>1, Kinds DEF MailsInv
    <2>2. \A i \in DOMAIN jobs : /\ mails[jobs[i].message] \in Nat
                                 /\ jobs[i].made \in Nat /\ crashes' \in Nat
      BY <1>1, Kinds
    <2>3. QED
      BY <1>1, <2>1, <2>2 DEF MailsInv
  <1>8. StallsInv'
    BY <1>1, Kinds DEF StallsInv
  <1>9. QED
    BY <1>3, <1>4, <1>5, <1>6, <1>7, <1>8

(* Every step keeps the invariant.                                         *)
LEMMA NextKeepsIInv == IInv /\ [Next]_vars => IInv'
  <1>1. ASSUME IInv, Work PROVE IInv'
    <2>1. CASE \E p \in Processes : Claim(p) \/ Enqueue(p)
      BY <1>1, <2>1, ClaimKeepsIInv, EnqueueKeepsIInv
    <2>2. CASE \E p \in Processes : \E j \in DOMAIN jobs : TakeJob(p, j)
      BY <1>1, <2>2, TakeKeepsIInv
    <2>3. CASE \E p \in Processes : Send(p) \/ Complete(p)
      BY <1>1, <2>3, SendKeepsIInv, CompleteKeepsIInv
    <2>4. CASE \E p \in Processes : FailAttempt(p) \/ AddDeadLetter(p)
      BY <1>1, <2>4, FailKeepsIInv, DeadLetterKeepsIInv
    <2>5. CASE \E j \in DOMAIN jobs : EndDelay(j) \/ Stall(j)
      BY <1>1, <2>5, EndDelayKeepsIInv, StallKeepsIInv
    <2>6. QED
      BY <1>1, <2>1, <2>2, <2>3, <2>4, <2>5 DEF Work
  <1>2. ASSUME IInv, UNCHANGED vars PROVE IInv'
    BY <1>2 DEF vars, IInv, TypeOK, Memory, OneJobPerMessage, Claimed, JobsOf, HeldInv,
                MessageOf, DispatchInv, JobsInv, StallsInv, Orphaned, MailsInv, MailedOnce
  <1>3. QED
    BY <1>1, <1>2, WriteKeepsIInv, CrashKeepsIInv DEF Next

(* IInv holds in every reachable state.                                    *)
LEMMA Invariance == Spec => []IInv
  <1>1. QED
    BY Initially, NextKeepsIInv, PTL DEF Spec

-----------------------------------------------------------------------------

(* Whatever the processes do, every variable keeps a value of its kind: no
   job makes more attempts than its options allow (DEFAULT_JOB_OPTIONS).   *)
THEOREM TypeCorrect == Spec => []TypeOK
  <1>1. IInv => TypeOK
    BY DEF IInv
  <1>2. QED
    BY <1>1, Invariance, PTL

(* However many processes relay, a message becomes one job at most
   (relayOutboxOnce).                                                      *)
THEOREM NoSecondJob == Spec => []OneJobPerMessage
  <1>1. IInv => OneJobPerMessage
    BY DEF IInv
  <1>2. QED
    BY <1>1, Invariance, PTL

(* Retries and crashes send a mail again at most once each
   (createNotificationProcessor).                                          *)
THEOREM BoundedMails == Spec => []MailsAreBounded
  <1>1. IInv => MailsAreBounded
    <2>1. SUFFICES ASSUME IInv, NEW m \in Messages PROVE mails[m] <= Attempts + crashes
      BY DEF MailsAreBounded
    <2>2. CASE \A j \in DOMAIN jobs : jobs[j].message # m
      BY <2>1, <2>2, Kinds DEF IInv, MailsInv
    <2>3. CASE \E j \in DOMAIN jobs : jobs[j].message = m
      <3>1. PICK j \in DOMAIN jobs : jobs[j].message = m
        BY <2>3
      <3>2. /\ mails[m] <= jobs[j].made + crashes + 1
            /\ mails[m] > jobs[j].made + crashes => MailedOnce(j)
        BY <2>1, <3>1 DEF IInv, MailsInv
      <3>3. MailedOnce(j) => jobs[j].made < Attempts
        BY <2>1, <3>1 DEF IInv, MailedOnce, HeldInv, JobsInv
      <3>4. jobs[j].made \in 0 .. Attempts /\ mails[m] \in Nat /\ crashes \in Nat /\ Attempts \in Nat
        BY <2>1, Kinds DEF IInv
      <3>5. QED
        BY <3>2, <3>3, <3>4
    <2>4. QED
      BY <2>2, <2>3
  <1>2. QED
    BY <1>1, Invariance, PTL

(* A dispatched message is on its way, mailed, a dead letter, was in the
   memory of a process that died, or had a job that BullMQ gave up, which
   takes more crashes than it lets a job stall: nothing else can lose it
   (relayOutboxOnce, createMonitoredWorker).                               *)
THEOREM NothingIsForgotten == Spec => []NothingVanishes
  <1>1. IInv => NothingVanishes
    <2>1. SUFFICES ASSUME IInv, NEW m \in Messages, outbox[m] = "dispatched", m \notin lost
                   PROVE  OnItsWay(m) \/ Ended(m) \/ GivenUp(m)
      BY DEF NothingVanishes
    <2>2. CASE \E p \in Processes : m \in process[p].claimed
      BY <2>2 DEF OnItsWay, Claimed
    <2>3. CASE \E j \in DOMAIN jobs : jobs[j].message = m
      <3>1. PICK j \in DOMAIN jobs : jobs[j].message = m
        BY <2>3
      <3>2. j \in JobsOf(m) /\ jobs[j].state \in States
        BY <2>1, <3>1, Kinds DEF IInv, JobsOf
      <3>3. CASE jobs[j].state \in {"waiting", "active", "delayed"}
        BY <3>2, <3>3 DEF OnItsWay
      <3>4. CASE jobs[j].state = "completed"
        BY <2>1, <3>1, <3>4 DEF IInv, JobsInv, Ended
      <3>5. CASE jobs[j].state = "failed"
        BY <2>1, <3>1, <3>2, <3>5 DEF IInv, JobsInv, StallsInv, Ended, Dying, GivenUp
      <3>6. QED
        BY <3>2, <3>3, <3>4, <3>5 DEF States
    <2>4. QED
      BY <2>1, <2>2, <2>3 DEF IInv, DispatchInv
  <1>2. QED
    BY <1>1, Invariance, PTL
=============================================================================
