-------------------------- MODULE TaskQueueProofs ---------------------------
(***************************************************************************)
(* Proofs about TaskQueue, for any number of processes, deliveries, tasks, *)
(* retries and faults: type correctness; a message is in one place; it is  *)
(* kept until it is settled; and a task that is acknowledged early is      *)
(* started at most once.                                                   *)
(***************************************************************************)
EXTENDS TaskQueue, TLAPS

\* A retry is only asked for while one is left.
RetryLeft == \A j \in Jobs : job[j].pc = "retry" => mail[job[j].tag].retries < MaxRetries

\* A restore that goes on to the script has read a record.
SeenReal == \A j \in Jobs : job[j].pc = "script" => job[j].seen # "none"

\* A free slot holds nothing, and a delivery past process()'s first look is of a registered task.
Shaped ==
  \A j \in Jobs :
    /\ job[j].pc = "free" => job[j].tag = 0
    /\ job[j].pc \in {"eta", "ready", "earlyack", "dispatch", "running", "retry"}
         => TaskOf(job[j].tag) \notin Unknown
    /\ job[j].pc \in {"get", "set"} /\ job[j].put = "STARTED" => TaskOf(job[j].tag) \notin Unknown

\* Nothing is kept of a tag that has not been used.
Fresh ==
  \A t \in Tags : t > sent =>
    unacked[t] = "none" /\ runs[t] = 0 /\ \A b \in BOOLEAN : queue[Copy(t, b)] = 0

\* A message nothing went wrong with has one delivery, and none while it is in the lists.
HeldOnce ==
  \A t \in Tags \ (exposed \cup doubled) :
    /\ \A i, j \in Held(t) : i = j
    /\ Queued(t) # {} => Held(t) = {}

Before == {"popped", "received", "eta", "ready", "earlyack"}
Starting(j) == \/ job[j].pc = "dispatch"
               \/ job[j].pc \in {"get", "set"} /\ job[j].put = "STARTED"
NoToken(t) == Queued(t) = {} /\ Popped(t) = {} /\ unacked[t] = "none"

\* The record of a task without acks_late is gone before its body is started, for good.
AckedFirst ==
  \A t \in Tags \ (exposed \cup doubled) : TaskOf(t) \notin Late =>
    /\ \A j \in Held(t) : Starting(j) => NoToken(t) /\ runs[t] = 0
    /\ runs[t] > 0 => NoToken(t) /\ \A j \in Held(t) : job[j].pc \notin Before
    /\ runs[t] <= 1

QueueInv == TypeOK /\ RetryLeft /\ SeenReal /\ Shaped /\ Fresh
StartInv == QueueInv /\ OneToken /\ KeptUntilDone /\ HeldOnce /\ AckedFirst

-----------------------------------------------------------------------------
LEMMA JobSets ==
  /\ Hands \subseteq Jobs /\ \A w \in Workers : <<w, "sweep">> \in Jobs \ Hands
  /\ \A j \in Jobs : j[1] \in Workers
  /\ NoJob \in Job /\ NoJob.pc = "free" /\ NoJob.tag = 0
  BY QueueAssumption DEF Hands, Jobs, NoJob, Job, Steps, States, Stored

LEMMA UsedTags ==
  ASSUME QueueInv
  PROVE  /\ sent \in Nat /\ sent <= MaxTags /\ MaxTags \in Nat /\ 1 .. sent \subseteq Tags
         /\ \A j \in Jobs : job[j].pc # "free" => job[j].tag \in Tags /\ job[j].tag <= sent
         /\ \A j \in Jobs : job[j].tag \in Tags => job[j].pc # "free"
<1>1. sent \in Nat /\ sent <= MaxTags /\ MaxTags \in Nat
  BY QueueAssumption DEF QueueInv, TypeOK
<1>2. 1 .. sent \subseteq Tags /\ 0 \notin Tags
  BY <1>1 DEF Tags
<1> QED
  BY <1>1, <1>2 DEF QueueInv, TypeOK, Shaped

\* What a delivery or a sweep may become in one step of its own.
Fits(j, x) ==
  /\ x \in Job
  /\ \/ x = NoJob
     \/ x.tag = job[j].tag /\ job[j].pc # "free" /\ x.pc \notin {"free", "popped"}
  /\ x.pc = "retry" => mail[x.tag].retries < MaxRetries
  /\ x.pc = "script" => x.seen # "none"
  /\ x.pc \in {"eta", "ready", "earlyack", "dispatch", "running", "retry"}
       => TaskOf(x.tag) \notin Unknown
  /\ x.pc \in {"get", "set"} /\ x.put = "STARTED" => TaskOf(x.tag) \notin Unknown

\* The parts of the invariant that are about the jobs.
JobsOK ==
  /\ job \in [Jobs -> Job]
  /\ \A j \in Jobs : job[j].pc # "free" => job[j].tag \in 1 .. sent
  /\ RetryLeft /\ SeenReal /\ Shaped

\* A step of one job keeps them, also when a message is published with it.
LEMMA FitsKeeps ==
  ASSUME QueueInv, NEW j \in Jobs, NEW x, Fits(j, x), job' = [job EXCEPT ![j] = x],
         sent' \in Nat, sent <= sent', \A t \in 1 .. sent : mail'[t] = mail[t]
  PROVE  JobsOK'
<1>1. job' \in [Jobs -> Job] /\ job'[j] = x /\ \A i \in Jobs : i # j => job'[i] = job[i]
  BY DEF QueueInv, TypeOK, Fits
<1>2. sent \in Nat /\ \A t \in 1 .. sent : t \in 1 .. sent'
  BY DEF QueueInv, TypeOK
<1>3. \A i \in Jobs : job'[i].pc # "free" => job'[i].tag \in 1 .. sent
  BY <1>1, JobSets DEF QueueInv, TypeOK, Fits
<1>4. \A i \in Jobs : job'[i].pc # "free" => mail'[job'[i].tag] = mail[job'[i].tag]
  BY <1>3
<1>5. RetryLeft'
  BY <1>1, <1>4 DEF QueueInv, RetryLeft, Fits
<1>6. SeenReal'
  BY <1>1 DEF QueueInv, SeenReal, Fits
<1>7. Shaped'
  BY <1>1, <1>4, JobSets DEF QueueInv, Shaped, Fits, TaskOf
<1> QED
  BY <1>1, <1>2, <1>3, <1>5, <1>6, <1>7 DEF JobsOK

\* Job j, and no other, takes such a step.
JobStep(j) == \E x : Fits(j, x) /\ job' = [job EXCEPT ![j] = x]

LEMMA StepKeeps ==
  ASSUME QueueInv, NEW j \in Jobs, JobStep(j),
         sent' \in Nat, sent <= sent', \A t \in 1 .. sent : mail'[t] = mail[t]
  PROVE  JobsOK'
<1>1. PICK x : Fits(j, x) /\ job' = [job EXCEPT ![j] = x]
  BY DEF JobStep
<1> QED
  BY <1>1, FitsKeeps

LEMMA GotoSteps ==
  ASSUME QueueInv, NEW j \in Jobs, NEW pc \in Steps, pc \notin {"free", "popped", "retry", "script", "get"},
         job[j].pc # "free", pc = "set" => job[j].pc = "get",
         pc \in {"eta", "ready", "earlyack", "dispatch", "running"} => TaskOf(job[j].tag) \notin Unknown,
         Goto(j, pc)
  PROVE  JobStep(j)
<1> DEFINE x == [job[j] EXCEPT !.pc = pc]
<1>1. job' = [job EXCEPT ![j] = x]
  BY DEF Goto, QueueInv, TypeOK
<1>2. Fits(j, x)
  BY DEF QueueInv, TypeOK, Shaped, Job, Fits
<1> QED
  BY <1>1, <1>2 DEF JobStep

LEMMA StoreSteps ==
  ASSUME QueueInv, NEW j \in Jobs, NEW put \in States, NEW permit \in BOOLEAN,
         job[j].pc # "free", TaskOf(job[j].tag) \notin Unknown, Store(j, put, permit)
  PROVE  JobStep(j)
<1> DEFINE pc == IF TaskOf(job[j].tag) \in Quiet THEN After(j, put) ELSE "get"
           x  == [job[j] EXCEPT !.put = put, !.permit = permit, !.pc = pc]
<1>1. pc \in {"get", "dispatch", "ack"}
  BY DEF After
<1>2. job' = [job EXCEPT ![j] = x]
  BY DEF Store, QueueInv, TypeOK
<1>3. Fits(j, x)
  BY <1>1 DEF QueueInv, TypeOK, Job, Steps, Fits
<1> QED
  BY <1>2, <1>3 DEF JobStep

LEMMA LeaveSteps ==
  ASSUME NEW j, Leave(j)
  PROVE  JobStep(j) /\ mutex' \in {mutex, "none"}
<1>1. Fits(j, NoJob)
  BY JobSets DEF Fits, NoJob
<1> QED
  BY <1>1 DEF JobStep, Leave

\* Every step of a delivery moves that delivery alone.
LEMMA DeliverSteps ==
  ASSUME QueueInv, NEW j \in Hands, Deliver(j)
  PROVE  JobStep(j) /\ job[j].pc # "free"
<1> USE JobSets
<1>0. j \in Jobs /\ job[j] \in Job
  BY DEF QueueInv, TypeOK
<1>1. CASE Append(j)
  BY <1>0, <1>1, GotoSteps DEF Append, Steps
<1>2. CASE Refuse(j)
  <2> DEFINE x == [job[j] EXCEPT !.put = "FAILURE", !.pc = "get"]
  <2>1. job' = [job EXCEPT ![j] = x] /\ job[j].pc = "received"
    BY <1>2 DEF Refuse, QueueInv, TypeOK
  <2>2. Fits(j, x)
    BY <1>0, <2>1 DEF Job, Steps, States, Fits
  <2> QED
    BY <2>1, <2>2 DEF JobStep
<1>3. CASE AwaitEta(j)
  <2> DEFINE x == [job[j] EXCEPT !.pc = "eta", !.permit = FALSE]
  <2>1. job' = [job EXCEPT ![j] = x] /\ job[j].pc = "received" /\ TaskOf(job[j].tag) \notin Unknown
    BY <1>3 DEF AwaitEta, QueueInv, TypeOK
  <2>2. Fits(j, x)
    BY <1>0, <2>1 DEF Job, Steps, Fits
  <2> QED
    BY <2>1, <2>2 DEF JobStep
<1>4. CASE EndEta(j)
  <2> DEFINE x == [job[j] EXCEPT !.pc = "ready", !.permit = TRUE]
  <2>1. job[j].pc = "eta" /\ TaskOf(job[j].tag) \notin Unknown
    BY <1>0, <1>4 DEF EndEta, QueueInv, Shaped
  <2>2. CASE Goto(j, "hget")
    BY <1>0, <2>1, <2>2, GotoSteps DEF Steps
  <2>3. CASE job' = [job EXCEPT ![j].pc = "ready", ![j].permit = TRUE]
    <3>1. job' = [job EXCEPT ![j] = x]
      BY <2>3 DEF QueueInv, TypeOK
    <3>2. Fits(j, x)
      BY <1>0, <2>1 DEF Job, Steps, Fits
    <3> QED
      BY <2>1, <3>1, <3>2 DEF JobStep
  <2> QED
    BY <1>4, <2>2, <2>3 DEF EndEta
<1>5. CASE Expire(j)
  <2>1. job[j].pc # "free" /\ TaskOf(job[j].tag) \notin Unknown
    BY <1>0, <1>5 DEF Expire, Ready, QueueInv, Shaped
  <2> QED
    BY <1>0, <1>5, <2>1, StoreSteps DEF Expire, States
<1>6. CASE Begin(j)
  <2>1. job[j].pc # "free" /\ TaskOf(job[j].tag) \notin Unknown
    BY <1>0, <1>6 DEF Begin, Ready, QueueInv, Shaped
  <2> QED
    BY <1>0, <1>6, <2>1, StoreSteps, GotoSteps DEF Begin, States, Steps
<1>7. CASE EarlyAck(j)
  <2>1. job[j].pc = "earlyack" /\ TaskOf(job[j].tag) \notin Unknown
    BY <1>0, <1>7 DEF EarlyAck, QueueInv, Shaped
  <2> QED
    BY <1>0, <1>7, <2>1, StoreSteps DEF EarlyAck, States
<1>8. CASE StoreGet(j) \/ StoreSet(j)
  <2>1. job[j].pc \in {"get", "set"}
    BY <1>8 DEF StoreGet, StoreSet
  <2>2. \/ Goto(j, "set") \/ Leave(j)
        \/ After(j, job[j].put) # "free" /\ Goto(j, After(j, job[j].put))
    BY <1>8 DEF StoreGet, StoreSet
  <2>3. CASE Goto(j, "set")
    <3>1. job[j].pc = "get"
      <4>1. job'[j].pc = "set"
        BY <1>0, <2>3 DEF Goto, QueueInv, TypeOK
      <4>2. CASE StoreSet(j)
        <5>1. After(j, job[j].put) \in {"dispatch", "free", "ack"}
          BY DEF After
        <5>2. \/ job' = [job EXCEPT ![j] = NoJob]
              \/ \E pc \in {"dispatch", "ack"} : job' = [job EXCEPT ![j].pc = pc]
          BY <4>2, <5>1 DEF StoreSet, Leave, Goto
        <5>3. job'[j].pc \in {"free", "dispatch", "ack"}
          BY <1>0, <5>2, JobSets DEF QueueInv, TypeOK, Job
        <5> QED
          BY <4>1, <5>3
      <4> QED
        BY <1>8, <4>2 DEF StoreGet
    <3> QED
      BY <1>0, <2>3, <3>1, GotoSteps DEF Steps
  <2>4. CASE Leave(j)
    BY <2>1, <2>4, LeaveSteps
  <2>5. CASE After(j, job[j].put) # "free" /\ Goto(j, After(j, job[j].put))
    <3>1. CASE job[j].put # "STARTED"
      <4>1. Goto(j, "ack")
        BY <2>5, <3>1 DEF After
      <4> QED
        BY <1>0, <2>1, <4>1, GotoSteps DEF Steps
    <3>2. CASE job[j].put = "STARTED"
      <4>1. Goto(j, "dispatch")
        BY <2>5, <3>2 DEF After
      <4>2. TaskOf(job[j].tag) \notin Unknown
        BY <1>0, <2>1, <3>2 DEF QueueInv, Shaped
      <4> QED
        BY <1>0, <2>1, <4>1, <4>2, GotoSteps DEF Steps
    <3> QED
      BY <3>1, <3>2
  <2> QED
    BY <2>2, <2>3, <2>4, <2>5
<1>9. CASE Dispatch(j)
  <2>1. TaskOf(job[j].tag) \notin Unknown
    BY <1>0, <1>9 DEF Dispatch, QueueInv, Shaped
  <2> QED
    BY <1>0, <1>9, <2>1, GotoSteps DEF Dispatch, Steps
<1>10. CASE Returned(j) \/ Failed(j)
  <2>1. job[j].pc = "running" /\ TaskOf(job[j].tag) \notin Unknown
    BY <1>0, <1>10 DEF Returned, Failed, QueueInv, Shaped
  <2> QED
    BY <1>0, <1>10, <2>1, StoreSteps DEF Returned, Failed, States
<1>11. CASE Raised(j)
  <2> DEFINE x == [job[j] EXCEPT !.pc = "retry", !.permit = FALSE]
  <2>1. job' = [job EXCEPT ![j] = x] /\ job[j].pc = "running" /\ TaskOf(job[j].tag) \notin Unknown
    BY <1>0, <1>11 DEF Raised, QueueInv, TypeOK, Shaped
  <2>2. mail[job[j].tag].retries < MaxRetries
    BY <1>11 DEF Raised
  <2>3. Fits(j, x)
    BY <1>0, <2>1, <2>2 DEF Job, Steps, Fits
  <2> QED
    BY <2>1, <2>3 DEF JobStep
<1>12. CASE Retry(j)
  <2>1. job[j].pc = "retry" /\ TaskOf(job[j].tag) \notin Unknown
    BY <1>0, <1>12 DEF Retry, QueueInv, Shaped
  <2> QED
    BY <1>0, <1>12, <2>1, StoreSteps DEF Retry, States
<1>13. CASE Lost(j)
  <2> DEFINE x == [job[j] EXCEPT !.pc = "hget", !.permit = FALSE]
  <2>1. job[j].pc = "running" /\ TaskOf(job[j].tag) \notin Unknown
    BY <1>0, <1>13 DEF Lost, QueueInv, Shaped
  <2>2. CASE Store(j, "FAILURE", FALSE)
    BY <1>0, <2>1, <2>2, StoreSteps DEF States
  <2>3. CASE job' = [job EXCEPT ![j].pc = "hget", ![j].permit = FALSE]
    <3>1. job' = [job EXCEPT ![j] = x]
      BY <2>3 DEF QueueInv, TypeOK
    <3>2. Fits(j, x)
      BY <1>0, <2>1 DEF Job, Steps, Fits
    <3> QED
      BY <2>1, <3>1, <3>2 DEF JobStep
  <2> QED
    BY <1>13, <2>2, <2>3 DEF Lost
<1>14. CASE Ack(j)
  BY <1>14, LeaveSteps DEF Ack
<1> QED
  BY <1>1, <1>2, <1>3, <1>4, <1>5, <1>6, <1>7, <1>8, <1>9, <1>10, <1>11, <1>12, <1>13, <1>14
     DEF Deliver

\* So does every step of a restore, by a delivery or by a sweep.
LEMMA RestoreSteps ==
  ASSUME QueueInv, NEW j \in Jobs, Restore(j)
  PROVE  JobStep(j) /\ job[j].pc # "free" /\ job[j].pc # "popped" /\ mutex' \in {mutex, "none"}
<1>0. job[j] \in Job
  BY DEF QueueInv, TypeOK
<1>1. CASE RestoreGet(j)
  <2> DEFINE pc == IF unacked[job[j].tag] = "none" THEN "blindack" ELSE "script"
             x  == [job[j] EXCEPT !.seen = unacked[job[j].tag], !.pc = pc]
  <2>1. CASE Leave(j)
    BY <1>1, <2>1, LeaveSteps DEF RestoreGet
  <2>2. CASE ~Leave(j)
    <3>1. job' = [job EXCEPT ![j] = x] /\ job[j].pc = "hget" /\ mutex' = mutex
      BY <1>1, <2>2 DEF RestoreGet, QueueInv, TypeOK
    <3>2. job[j].tag \in Tags
      BY <3>1, UsedTags
    <3>3. unacked[job[j].tag] \in Stored
      BY <3>2 DEF QueueInv, TypeOK
    <3>4. pc \in {"blindack", "script"} /\ (pc = "script" => unacked[job[j].tag] # "none")
      OBVIOUS
    <3> HIDE DEF pc
    <3>5. Fits(j, x)
      BY <1>0, <3>1, <3>3, <3>4 DEF Job, Steps, Fits
    <3> QED
      BY <3>1, <3>5 DEF JobStep
  <2> QED
    BY <2>1, <2>2
<1>2. CASE RestoreRun(j) \/ RestoreAck(j)
  BY <1>2, LeaveSteps DEF RestoreRun, RestoreAck
<1> QED
  BY <1>1, <1>2 DEF Restore

-----------------------------------------------------------------------------
LEMMA CopyTyped ==
  /\ \A t \in Tags, b \in BOOLEAN : Copy(t, b) \in Copies
  /\ \A c \in Copies : c.tag \in Tags /\ c.again \in BOOLEAN /\ c = Copy(c.tag, c.again)
  /\ \A t, u, a, b : Copy(t, a) = Copy(u, b) <=> t = u /\ a = b
  /\ \A t, b : Copy(t, b).tag = t
  BY DEF Copy, Copies

\* The rest of the invariant: everything but the jobs.
RestOK ==
  /\ sent \in 0 .. MaxTags
  /\ mail \in [Tags -> [task : Tasks, retries : 0 .. MaxRetries]]
  /\ queue \in [Copies -> Nat]
  /\ unacked \in [Tags -> Stored]
  /\ mutex \in Workers \cup {"none"}
  /\ result \in [Tasks -> States]
  /\ warm \in [Workers -> BOOLEAN]
  /\ faults \in 0 .. MaxFaults
  /\ runs \in [Tags -> Nat]
  /\ done \subseteq Tags /\ exposed \subseteq Tags /\ doubled \subseteq Tags
  /\ Fresh

LEMMA TwoParts ==
  /\ QueueInv <=> JobsOK /\ RestOK
  /\ QueueInv' <=> JobsOK' /\ RestOK'
  BY DEF QueueInv, JobsOK, RestOK, TypeOK

LEMMA PushKeeps ==
  ASSUME QueueInv, NEW k \in Tasks, NEW n \in 0 .. MaxRetries, Push(k, n)
  PROVE  /\ sent' \in 0 .. MaxTags /\ sent' = sent + 1 /\ sent + 1 \in Tags
         /\ mail' \in [Tags -> [task : Tasks, retries : 0 .. MaxRetries]]
         /\ \A t \in 1 .. sent : mail'[t] = mail[t]
         /\ queue' \in [Copies -> Nat]
         /\ \A t \in Tags, b \in BOOLEAN : t > sent + 1 => queue'[Copy(t, b)] = 0
<1>1. sent' \in 0 .. MaxTags /\ sent' = sent + 1 /\ sent + 1 \in Tags /\ sent \in Nat
  BY UsedTags DEF Push, Tags
<1>2. mail' \in [Tags -> [task : Tasks, retries : 0 .. MaxRetries]] /\ \A t \in 1 .. sent : mail'[t] = mail[t]
  <2>1. \A t \in 1 .. sent : t \in Tags /\ t # sent + 1
    BY <1>1, UsedTags
  <2>2. [task |-> k, retries |-> n] \in [task : Tasks, retries : 0 .. MaxRetries]
    OBVIOUS
  <2> QED
    BY <1>1, <2>1, <2>2 DEF Push, QueueInv, TypeOK
<1>3. queue' = [queue EXCEPT ![Copy(sent + 1, FALSE)] = queue[Copy(sent + 1, FALSE)] + 1] /\ Copy(sent + 1, FALSE) \in Copies
  BY <1>1, CopyTyped DEF Push
<1>4. queue' \in [Copies -> Nat]
  <2> DEFINE c == Copy(sent + 1, FALSE)
             n1 == queue[c] + 1
  <2>1. c \in Copies /\ queue' = [queue EXCEPT ![c] = n1]
    BY <1>3
  <2> HIDE DEF c
  <2>2. queue[c] \in Nat
    BY <2>1 DEF QueueInv, TypeOK
  <2>3. n1 \in Nat
    BY <2>2
  <2> HIDE DEF n1
  <2> QED
    BY <2>1, <2>3 DEF QueueInv, TypeOK
<1>5. \A t \in Tags, b \in BOOLEAN : t > sent + 1 => queue'[Copy(t, b)] = 0
  <2> TAKE t \in Tags, b \in BOOLEAN
  <2> HAVE t > sent + 1
  <2>1. t > sent /\ t # sent + 1
    BY <1>1 DEF Tags
  <2>2. Copy(t, b).tag = t /\ Copy(sent + 1, FALSE).tag = sent + 1
    BY DEF Copy
  <2>3. queue[Copy(t, b)] = 0 /\ Copy(t, b) \in Copies /\ Copy(t, b) # Copy(sent + 1, FALSE)
    BY <2>1, <2>2, CopyTyped DEF QueueInv, Fresh
  <2> QED
    BY <1>3, <2>3 DEF QueueInv, TypeOK
<1> QED
  BY <1>1, <1>2, <1>4, <1>5

\* A record is written or removed only under a tag in use.
LEMMA RecordKeeps ==
  ASSUME QueueInv, NEW t \in Tags, t <= sent, NEW v \in Stored,
         unacked' = [unacked EXCEPT ![t] = v]
  PROVE  unacked' \in [Tags -> Stored] /\ \A u \in Tags : u > sent => unacked'[u] = "none"
  BY UsedTags DEF QueueInv, TypeOK, Fresh, Tags

LEMMA DeliverKeeps ==
  ASSUME QueueInv, NEW j \in Hands, Deliver(j)
  PROVE  QueueInv'
<1> USE JobSets DEF broker, history
<1>0. j \in Jobs /\ job[j].tag \in Tags /\ job[j].tag <= sent /\ RestOK /\ JobStep(j)
  BY DeliverSteps, UsedTags, TwoParts
<1>1. ASSUME sent' = sent, mail' = mail PROVE JobsOK'
  BY <1>0, <1>1, StepKeeps, UsedTags
<1>2. TaskOf(job[j].tag) \in Tasks
  BY <1>0 DEF RestOK, TaskOf
<1>3. /\ "none" \in Stored /\ Text(job[j].again) \in Stored
      /\ faults \in 0 .. MaxFaults /\ (Fault => faults' \in 0 .. MaxFaults)
  BY <1>0, QueueAssumption DEF RestOK, Stored, Text, Fault
<1>4. CASE Append(j)
  BY <1>0, <1>1, <1>3, <1>4, TwoParts, RecordKeeps DEF Append, RestOK, Fresh
<1>5. CASE Refuse(j) \/ EarlyAck(j)
  BY <1>0, <1>1, <1>3, <1>5, TwoParts, RecordKeeps DEF Refuse, EarlyAck, RestOK, Fresh
<1>6. CASE Ack(j)
  <2>1. mutex' \in Workers \cup {"none"}
    BY <1>0, <1>6, LeaveSteps DEF Ack, RestOK
  <2> QED
    BY <1>0, <1>1, <1>3, <1>6, <2>1, TwoParts, RecordKeeps DEF Ack, RestOK, Fresh
<1>7. CASE AwaitEta(j) \/ EndEta(j) \/ Expire(j) \/ Begin(j) \/ Returned(j) \/ Failed(j) \/ Raised(j)
  BY <1>0, <1>1, <1>7, TwoParts
     DEF AwaitEta, EndEta, Expire, Begin, Returned, Failed, Raised, RestOK, Fresh
<1>8. CASE StoreGet(j) \/ StoreSet(j)
  <2>1. mutex' \in Workers \cup {"none"}
    BY <1>0, <1>8, LeaveSteps DEF StoreGet, StoreSet, RestOK
  <2>2. result' \in [Tasks -> States]
    <3>1. job[j].put \in States
      BY <1>0 DEF QueueInv, TypeOK, Job
    <3> QED
      BY <1>0, <1>2, <1>8, <3>1 DEF StoreGet, StoreSet, RestOK
  <2>3. faults' \in 0 .. MaxFaults
    BY <1>3, <1>8 DEF StoreGet, StoreSet
  <2>4. UNCHANGED <<sent, mail, queue, unacked, warm, runs, done, exposed, doubled>>
    BY <1>8 DEF StoreGet, StoreSet
  <2> QED
    BY <1>0, <1>1, <2>1, <2>2, <2>3, <2>4, TwoParts DEF RestOK, Fresh
<1>9. CASE Dispatch(j)
  <2>1. runs' \in [Tags -> Nat] /\ \A u \in Tags : u > sent => runs'[u] = 0
    <3>1. runs[job[j].tag] + 1 \in Nat /\ \A u \in Tags : u > sent => u # job[j].tag
      BY <1>0, UsedTags DEF RestOK, Tags
    <3> QED
      BY <1>0, <1>9, <3>1 DEF Dispatch, RestOK, Fresh
  <2> QED
    BY <1>0, <1>1, <1>9, <2>1, TwoParts DEF Dispatch, RestOK, Fresh
<1>10. CASE Lost(j)
  BY <1>0, <1>1, <1>3, <1>10, TwoParts DEF Lost, RestOK, Fresh
<1>11. CASE Retry(j)
  <2>0. UNCHANGED <<unacked, mutex, result, warm, runs, done, exposed, doubled>>
    BY <1>11 DEF Retry
  <2>1. CASE UNCHANGED <<sent, mail, queue>> /\ Fault
    BY <1>0, <1>1, <1>3, <2>0, <2>1, TwoParts DEF RestOK, Fresh
  <2>2. CASE Push(TaskOf(job[j].tag), mail[job[j].tag].retries + 1) /\ UNCHANGED faults
    <3>1. mail[job[j].tag].retries + 1 \in 0 .. MaxRetries
      <4>1. mail[job[j].tag].retries \in 0 .. MaxRetries
        BY <1>0 DEF RestOK
      <4>2. mail[job[j].tag].retries < MaxRetries
        BY <1>0, <1>11 DEF Retry, QueueInv, RetryLeft
      <4> QED
        BY <4>1, <4>2, QueueAssumption
    <3>2. /\ sent' \in 0 .. MaxTags /\ sent' = sent + 1
          /\ mail' \in [Tags -> [task : Tasks, retries : 0 .. MaxRetries]]
          /\ \A t \in 1 .. sent : mail'[t] = mail[t]
          /\ queue' \in [Copies -> Nat]
          /\ \A t \in Tags, b \in BOOLEAN : t > sent + 1 => queue'[Copy(t, b)] = 0
      BY <1>2, <2>2, <3>1, PushKeeps
    <3>3. JobsOK'
      BY <1>0, <3>2, StepKeeps, UsedTags
    <3>4. Fresh'
      BY <1>0, <2>0, <3>2, UsedTags DEF RestOK, Fresh, Tags
    <3> QED
      BY <1>0, <2>0, <2>2, <3>2, <3>3, <3>4, TwoParts DEF RestOK
  <2> QED
    BY <1>11, <2>1, <2>2 DEF Retry
<1> QED
  BY <1>4, <1>5, <1>6, <1>7, <1>8, <1>9, <1>10, <1>11 DEF Deliver

\* RESTORE_SCRIPT pushes a copy under a tag in use and removes its record.
LEMMA ScriptKeeps ==
  ASSUME QueueInv, NEW t \in Tags, t <= sent, Script(t)
  PROVE  /\ queue' \in [Copies -> Nat] /\ unacked' \in [Tags -> Stored]
         /\ \A u \in Tags : u > sent => unacked'[u] = "none" /\ \A b \in BOOLEAN : queue'[Copy(u, b)] = 0
<1> DEFINE c == Copy(t, TRUE)
           n == queue[c] + 1
<1>1. c \in Copies /\ queue' = [queue EXCEPT ![c] = n] /\ c.tag = t
  BY CopyTyped DEF Script, Copy
<1>2. unacked' \in [Tags -> Stored] /\ \A u \in Tags : u > sent => unacked'[u] = "none"
  BY RecordKeeps DEF Script, Stored
<1> HIDE DEF c
<1>3. n \in Nat
  BY <1>1 DEF QueueInv, TypeOK
<1> HIDE DEF n
<1>4. queue' \in [Copies -> Nat]
  BY <1>1, <1>3 DEF QueueInv, TypeOK
<1>5. ASSUME NEW u \in Tags, u > sent, NEW b \in BOOLEAN PROVE queue'[Copy(u, b)] = 0
  <2>1. u # t
    BY <1>5, UsedTags DEF Tags
  <2>2. Copy(u, b) # c /\ Copy(u, b) \in Copies
    BY <1>1, <2>1, CopyTyped DEF Copy
  <2>3. queue[Copy(u, b)] = 0
    BY <1>5 DEF QueueInv, Fresh
  <2> QED
    BY <1>1, <2>2, <2>3 DEF QueueInv, TypeOK
<1> QED
  BY <1>2, <1>4, <1>5

LEMMA RestoreKeeps ==
  ASSUME QueueInv, NEW j \in Jobs, Restore(j)
  PROVE  QueueInv'
<1> USE DEF history
<1>0. /\ job[j].tag \in Tags /\ job[j].tag <= sent /\ RestOK /\ JobStep(j) /\ mutex' \in {mutex, "none"}
      /\ mutex' \in Workers \cup {"none"}
  BY RestoreSteps, UsedTags, TwoParts DEF RestOK
<1>1. ASSUME sent' = sent, mail' = mail PROVE JobsOK'
  BY <1>0, <1>1, StepKeeps, UsedTags
<1>2. "none" \in Stored /\ (Fault => faults' \in 0 .. MaxFaults)
  BY <1>0, QueueAssumption DEF RestOK, Stored, Fault
<1>3. CASE RestoreGet(j)
  BY <1>0, <1>1, <1>2, <1>3, TwoParts DEF RestoreGet, RestOK, Fresh
<1>4. CASE RestoreRun(j)
  <2>1. UNCHANGED <<sent, mail, result, warm, runs, done, exposed>>
    BY <1>4 DEF RestoreRun
  <2>2. faults' \in 0 .. MaxFaults /\ doubled' \subseteq Tags
    BY <1>0, <1>2, <1>4 DEF RestoreRun, RestOK
  <2>3. Script(job[j].tag) \/ UNCHANGED <<unacked, queue>>
    BY <1>4 DEF RestoreRun
  <2>4. /\ queue' \in [Copies -> Nat] /\ unacked' \in [Tags -> Stored]
        /\ \A u \in Tags : u > sent => unacked'[u] = "none" /\ \A b \in BOOLEAN : queue'[Copy(u, b)] = 0
    BY <1>0, <2>3, ScriptKeeps DEF RestOK, Fresh
  <2> QED
    BY <1>0, <1>1, <2>1, <2>2, <2>4, TwoParts DEF RestOK, Fresh
<1>5. CASE RestoreAck(j)
  BY <1>0, <1>1, <1>2, <1>5, TwoParts, RecordKeeps DEF RestoreAck, RestOK, Fresh
<1> QED
  BY <1>3, <1>4, <1>5 DEF Restore

LEMMA PopKeeps ==
  ASSUME QueueInv, NEW j \in Hands, NEW c \in Copies, Pop(j, c)
  PROVE  QueueInv'
<1> DEFINE x == [NoJob EXCEPT !.pc = "popped", !.tag = c.tag, !.again = c.again, !.permit = TRUE]
           n == queue[c] - 1
<1> USE DEF history
<1>0. j \in Jobs /\ RestOK /\ c.tag \in Tags /\ c.again \in BOOLEAN
  BY JobSets, TwoParts, CopyTyped
<1>1. /\ job' = [job EXCEPT ![j] = x] /\ queue' = [queue EXCEPT ![c] = n] /\ queue[c] > 0
      /\ UNCHANGED <<sent, mail, unacked, mutex, result, warm, faults, runs, done, exposed, doubled>>
  BY DEF Pop
<1>2. c.tag \in 1 .. sent
  <2>1. ~(c.tag > sent)
    BY <1>0, <1>1, CopyTyped DEF QueueInv, Fresh
  <2> QED
    BY <1>0, <2>1, UsedTags DEF Tags
<1>3. x \in Job /\ x.pc = "popped" /\ x.tag = c.tag
  BY <1>0 DEF NoJob, Job, Steps, States, Stored
<1> HIDE DEF x
<1>4. JobsOK'
  BY <1>0, <1>1, <1>2, <1>3 DEF QueueInv, TypeOK, JobsOK, RetryLeft, SeenReal, Shaped, TaskOf
<1>5. n \in Nat
  BY <1>0, <1>1 DEF RestOK
<1> HIDE DEF n
<1>6. queue' \in [Copies -> Nat]
  BY <1>0, <1>1, <1>5 DEF RestOK
<1>7. Fresh'
  <2> SUFFICES ASSUME NEW t \in Tags, t > sent, NEW b \in BOOLEAN PROVE queue'[Copy(t, b)] = 0
    BY <1>0, <1>1 DEF RestOK, Fresh
  <2>1. t # c.tag
    BY <1>2, UsedTags DEF Tags
  <2>2. Copy(t, b) # c /\ Copy(t, b) \in Copies
    BY <2>1, CopyTyped
  <2> QED
    BY <1>0, <1>1, <2>2 DEF RestOK, Fresh
<1> QED
  BY <1>0, <1>1, <1>4, <1>6, <1>7, TwoParts DEF RestOK

LEMMA PublishKeeps ==
  ASSUME QueueInv, NEW k \in Tasks, Publish(k)
  PROVE  QueueInv'
<1>0. RestOK /\ 0 \in 0 .. MaxRetries /\ Push(k, 0)
      /\ UNCHANGED <<unacked, mutex, result, warm, job, faults, runs, done, exposed, doubled>>
  BY TwoParts, QueueAssumption DEF Publish, history
<1>1. /\ sent' \in 0 .. MaxTags /\ sent' = sent + 1
      /\ mail' \in [Tags -> [task : Tasks, retries : 0 .. MaxRetries]]
      /\ \A t \in 1 .. sent : mail'[t] = mail[t]
      /\ queue' \in [Copies -> Nat]
      /\ \A t \in Tags, b \in BOOLEAN : t > sent + 1 => queue'[Copy(t, b)] = 0
  BY <1>0, PushKeeps
<1>2. \A i \in Jobs : job[i].pc # "free" =>
        job[i].tag \in 1 .. sent /\ job[i].tag \in 1 .. sent' /\ mail'[job[i].tag] = mail[job[i].tag]
  BY <1>1, UsedTags DEF QueueInv, TypeOK
<1>3. JobsOK'
  BY <1>0, <1>2 DEF QueueInv, TypeOK, JobsOK, RetryLeft, SeenReal, Shaped, TaskOf
<1>4. Fresh'
  BY <1>0, <1>1, UsedTags DEF RestOK, Fresh, Tags
<1> QED
  BY <1>0, <1>1, <1>3, <1>4, TwoParts DEF RestOK

LEMMA ProcessKeeps ==
  ASSUME QueueInv, NEW w \in Workers,
         \/ Die(w) \/ WarmShutdown(w) \/ Restart(w) \/ MutexExpires
         \/ \E t \in Tags : Sweep(w, t)
  PROVE  QueueInv'
<1> USE DEF broker, history
<1>0. RestOK /\ JobsOK /\ (Fault => faults' \in 0 .. MaxFaults)
  BY TwoParts, QueueAssumption DEF RestOK, Fault
<1>1. CASE Die(w)
  <2>1. job' \in [Jobs -> Job] /\ \A j \in Jobs : job'[j] = job[j] \/ job'[j] = NoJob
    BY <1>0, <1>1, JobSets DEF Die, JobsOK
  <2>2. JobsOK'
    BY <1>0, <1>1, <2>1, JobSets DEF Die, JobsOK, RetryLeft, SeenReal, Shaped, TaskOf
  <2>3. exposed' \subseteq Tags
    BY <1>0, <1>1, UsedTags, JobSets DEF Die, RestOK
  <2> QED
    BY <1>0, <1>1, <2>2, <2>3, TwoParts DEF Die, RestOK, Fresh
<1>2. CASE WarmShutdown(w) \/ Restart(w)
  BY <1>0, <1>2, TwoParts
     DEF WarmShutdown, Restart, RestOK, Fresh, JobsOK, RetryLeft, SeenReal, Shaped, TaskOf
<1>3. CASE MutexExpires
  BY <1>0, <1>3, TwoParts DEF MutexExpires, RestOK, Fresh, JobsOK, RetryLeft, SeenReal, Shaped, TaskOf
<1>4. ASSUME NEW t \in Tags, Sweep(w, t) PROVE QueueInv'
  <2> DEFINE x == [NoJob EXCEPT !.pc = "hget", !.tag = t]
             j == <<w, "sweep">>
  <2>1. /\ job' = [job EXCEPT ![j] = x] /\ unacked[t] # "none" /\ mutex' = w
        /\ faults' \in 0 .. MaxFaults
        /\ UNCHANGED <<sent, mail, queue, unacked, result, warm, runs, done, exposed, doubled>>
    BY <1>0, <1>4 DEF Sweep, RestOK
  <2>2. t \in 1 .. sent
    BY <2>1, UsedTags DEF QueueInv, Fresh, Tags
  <2>3. x \in Job /\ x.pc = "hget" /\ x.tag = t /\ j \in Jobs
    BY JobSets DEF NoJob, Job, Steps
  <2> HIDE DEF x, j
  <2>4. JobsOK'
    BY <1>0, <2>1, <2>2, <2>3 DEF JobsOK, RetryLeft, SeenReal, Shaped, TaskOf
  <2> QED
    BY <1>0, <2>1, <2>4, TwoParts DEF RestOK, Fresh
<1> QED
  BY <1>1, <1>2, <1>3, <1>4

LEMMA QueueInit == Init => QueueInv
<1> SUFFICES ASSUME Init PROVE QueueInv
  OBVIOUS
<1>1. mail \in [Tags -> [task : Tasks, retries : 0 .. MaxRetries]]
  BY QueueAssumption DEF Init
<1>2. JobsOK
  BY JobSets DEF Init, JobsOK, RetryLeft, SeenReal, Shaped
<1>3. Fresh
  BY CopyTyped DEF Init, Fresh
<1>4. RestOK
  BY <1>1, <1>3, QueueAssumption DEF Init, RestOK, Stored, States
<1> QED
  BY <1>2, <1>4, TwoParts

LEMMA QueueStep == QueueInv /\ [Next]_vars => QueueInv'
<1> SUFFICES ASSUME QueueInv, [Next]_vars PROVE QueueInv'
  OBVIOUS
<1>1. ASSUME NEW k \in Tasks, Publish(k) PROVE QueueInv'
  BY <1>1, PublishKeeps
<1>2. ASSUME NEW j \in Hands, Deliver(j) PROVE QueueInv'
  BY <1>2, DeliverKeeps
<1>3. ASSUME NEW j \in Hands, NEW c \in Copies, Pop(j, c) PROVE QueueInv'
  BY <1>3, PopKeeps
<1>4. ASSUME NEW j \in Jobs, Restore(j) PROVE QueueInv'
  BY <1>4, RestoreKeeps
<1>5. ASSUME NEW w \in Workers,
             Die(w) \/ WarmShutdown(w) \/ Restart(w) \/ \E t \in Tags : Sweep(w, t)
      PROVE  QueueInv'
  BY <1>5, ProcessKeeps
<1>6. CASE MutexExpires
  <2>1. PICK w : w = mutex /\ mutex \in Workers
    BY <1>6 DEF MutexExpires, QueueInv, TypeOK
  <2> QED
    BY <1>6, <2>1, ProcessKeeps
<1>7. CASE UNCHANGED vars
  BY <1>7 DEF vars, QueueInv, TypeOK, RetryLeft, SeenReal, Shaped, Fresh, TaskOf
<1> QED
  BY <1>1, <1>2, <1>3, <1>4, <1>5, <1>6, <1>7 DEF Next

(* Every variable of the queue keeps its type, whatever fails and whoever dies: a retry count    *)
(* never passes task_max_retries, and what is in hand is of a published message.                 *)
THEOREM TypeCorrect == Spec => []TypeOK
<1>1. QueueInv => TypeOK
  BY DEF QueueInv
<1> QED
  BY <1>1, QueueInit, QueueStep, PTL DEF Spec

-----------------------------------------------------------------------------
(* Where a message is.  A step of a job moves no other delivery; what is popped and not yet      *)
(* recorded leaves that state only.                                                              *)
LEMMA StepPops ==
  ASSUME QueueInv, NEW j \in Jobs, JobStep(j), NEW t \in Tags
  PROVE  Popped(t)' = Popped(t) \ {j}
<1>1. PICK x : Fits(j, x) /\ job' = [job EXCEPT ![j] = x]
  BY DEF JobStep
<1>2. job'[j].pc # "popped" /\ \A i \in Hands : i # j => job'[i] = job[i]
  BY <1>1, JobSets DEF QueueInv, TypeOK, Fits
<1>3. \A i \in Hands : i \in Popped(t)' <=> i \in Popped(t) /\ i # j
  BY <1>2 DEF Popped
<1>4. Popped(t) \subseteq Hands /\ Popped(t)' \subseteq Hands
  BY DEF Popped
<1> QED
  BY <1>3, <1>4

Tokens == QueueInv /\ OneToken /\ KeptUntilDone

LEMMA AtMostOne == Tokens => \A c \in Copies : queue[c] \in {0, 1}
  BY CopyTyped DEF Tokens, OneToken

\* Nothing is moved.
LEMMA TokensStay ==
  ASSUME Tokens, UNCHANGED <<sent, queue, unacked>>, \A t \in Tags : Popped(t)' = Popped(t),
         done \subseteq done', exposed \subseteq exposed'
  PROVE  OneToken' /\ KeptUntilDone'
<1>1. \A t : Queued(t)' = Queued(t)
  BY DEF Queued
<1>2. \A t \in 1 .. sent : t \in Tags
  BY UsedTags DEF Tokens
<1> QED
  BY <1>1, <1>2 DEF Tokens, OneToken, KeptUntilDone

\* A record is removed: of a message that was settled, or whose loss is noted.
LEMMA TokensRemoved ==
  ASSUME Tokens, NEW u \in Tags, UNCHANGED <<sent, queue>>,
         unacked' = [unacked EXCEPT ![u] = "none"],
         \A t \in Tags : Popped(t)' = Popped(t),
         done \subseteq done', exposed \subseteq exposed',
         u \in done' \cup exposed' \/ unacked[u] = "none"
  PROVE  OneToken' /\ KeptUntilDone'
<1>1. \A t : Queued(t)' = Queued(t)
  BY DEF Queued
<1>2. \A t \in 1 .. sent : t \in Tags
  BY UsedTags DEF Tokens
<1>3. \A t \in Tags : unacked'[t] = IF t = u THEN "none" ELSE unacked[t]
  BY DEF Tokens, QueueInv, TypeOK
<1> QED
  BY <1>1, <1>2, <1>3 DEF Tokens, OneToken, KeptUntilDone

\* BRPOP's copy becomes the record, or is noted as lost.
LEMMA TokensRecorded ==
  ASSUME Tokens, NEW j \in Hands, Append(j)
  PROVE  OneToken' /\ KeptUntilDone'
<1> PICK u : u = job[j].tag
  OBVIOUS
<1>0. QueueInv /\ j \in Jobs /\ job[j].pc = "popped" /\ JobStep(j) /\ u \in Tags
  BY JobSets, DeliverSteps, UsedTags DEF Tokens, Append, Deliver
<1>1. \A t \in Tags : Popped(t)' = Popped(t) \ {j}
  BY <1>0, StepPops
<1>2. j \in Popped(u) /\ Popped(u)' = {}
  BY <1>0, <1>1 DEF Popped, Tokens, OneToken
<1>3. \A t \in Tags : t # u => Popped(t)' = Popped(t)
  BY <1>1 DEF Popped
<1>4. \A t : Queued(t)' = Queued(t)
  BY DEF Queued, Append
<1>5. Queued(u) = {} /\ unacked[u] = "none"
  BY <1>0, <1>2 DEF Tokens, OneToken
<1>6. \A t \in 1 .. sent : t \in Tags
  BY UsedTags DEF Tokens
<1>7. CASE unacked' = [unacked EXCEPT ![u] = Text(job[j].again)] /\ UNCHANGED <<faults, exposed>>
  <2>1. \A t \in Tags : unacked'[t] = IF t = u THEN Text(job[j].again) ELSE unacked[t]
    BY <1>7 DEF Tokens, QueueInv, TypeOK
  <2>2. Text(job[j].again) # "none"
    BY DEF Text
  <2> QED
    BY <1>0, <1>2, <1>3, <1>4, <1>5, <1>6, <1>7, <2>1, <2>2
       DEF Append, Tokens, OneToken, KeptUntilDone
<1>8. CASE exposed' = exposed \cup {u} /\ UNCHANGED unacked
  BY <1>0, <1>2, <1>3, <1>4, <1>5, <1>6, <1>8 DEF Append, Tokens, OneToken, KeptUntilDone
<1> QED
  BY <1>7, <1>8 DEF Append

\* A message is published under a tag nothing is kept of.
LEMMA TokensPushed ==
  ASSUME Tokens, NEW k \in Tasks, NEW n \in 0 .. MaxRetries, Push(k, n), unacked' = unacked,
         \A t \in Tags : Popped(t)' = Popped(t), UNCHANGED <<done, exposed>>
  PROVE  OneToken' /\ KeptUntilDone'
<1> PICK u : u = sent + 1
  OBVIOUS
<1> DEFINE c == Copy(u, FALSE)
<1>1. sent' = u /\ u \in Tags /\ sent \in Nat /\ c \in Copies /\ c.tag = u
  BY PushKeeps, UsedTags, CopyTyped DEF Tokens, Copy
<1>2. unacked[u] = "none" /\ Queued(u) = {}
  <2>1. u > sent
    BY <1>1
  <2>2. \A d \in Copies : d.tag = u => queue[d] = 0
    BY <1>1, <2>1, CopyTyped DEF Tokens, QueueInv, Fresh
  <2> QED
    BY <1>1, <2>1, <2>2 DEF Queued, Tokens, QueueInv, Fresh
<1>3. Popped(u) = {}
  BY <1>1, UsedTags, JobSets DEF Popped, Tokens
<1>4. queue[c] = 0 /\ queue' = [queue EXCEPT ![c] = 1]
  <2>1. \A d \in Copies : d.tag = u => queue[d] = 0
    BY <1>2, AtMostOne DEF Queued
  <2>2. queue[c] = 0
    BY <1>1, <2>1
  <2> QED
    BY <2>2 DEF Push
<1> HIDE DEF c
<1>5. queue'[c] = 1 /\ \A d \in Copies : d # c => queue'[d] = queue[d]
  BY <1>1, <1>4 DEF Tokens, QueueInv, TypeOK
<1>6. Queued(u)' = {c}
  <2>1. \A d \in Queued(u)' : d = c
    BY <1>2, <1>5 DEF Queued
  <2>2. c \in Queued(u)'
    BY <1>1, <1>5 DEF Queued
  <2> QED
    BY <2>1, <2>2
<1>7. \A t \in Tags : t # u => Queued(t)' = Queued(t)
  BY <1>1, <1>5 DEF Queued
<1>8. \A d \in Copies : queue'[d] \in {0, 1}
  BY <1>1, <1>5, AtMostOne
<1>9. OneToken'
  BY <1>2, <1>3, <1>6, <1>7, <1>8 DEF Tokens, OneToken
<1>10. KeptUntilDone'
  <2>1. \A t \in 1 .. sent' : t \in Tags /\ (t = u \/ (t \in 1 .. sent /\ t # u))
    BY <1>1, UsedTags DEF Tags, Tokens
  <2> QED
    BY <1>6, <1>7, <2>1 DEF Tokens, KeptUntilDone
<1> QED
  BY <1>9, <1>10

\* RESTORE_SCRIPT turns the record into a copy.
LEMMA TokensRestored ==
  ASSUME Tokens, NEW u \in Tags, unacked[u] # "none", Script(u), sent' = sent,
         \A t \in Tags : Popped(t)' = Popped(t), UNCHANGED <<done, exposed>>
  PROVE  OneToken' /\ KeptUntilDone'
<1> DEFINE c == Copy(u, TRUE)
<1>1. c \in Copies /\ c.tag = u
  BY CopyTyped DEF Copy
<1>2. Queued(u) = {} /\ Popped(u) = {}
  BY DEF Tokens, OneToken
<1>3. queue[c] = 0 /\ queue' = [queue EXCEPT ![c] = 1]
  <2>1. \A d \in Copies : d.tag = u => queue[d] = 0
    BY <1>2, AtMostOne DEF Queued
  <2>2. queue[c] = 0
    BY <1>1, <2>1
  <2> QED
    BY <2>2 DEF Script
<1> HIDE DEF c
<1>4. queue'[c] = 1 /\ \A d \in Copies : d # c => queue'[d] = queue[d]
  BY <1>1, <1>3 DEF Tokens, QueueInv, TypeOK
<1>5. Queued(u)' = {c}
  <2>1. \A d \in Queued(u)' : d = c
    BY <1>2, <1>4 DEF Queued
  <2>2. c \in Queued(u)'
    BY <1>1, <1>4 DEF Queued
  <2> QED
    BY <2>1, <2>2
<1>6. \A t \in Tags : t # u => Queued(t)' = Queued(t)
  BY <1>1, <1>4 DEF Queued
<1>7. \A d \in Copies : queue'[d] \in {0, 1}
  BY <1>1, <1>4, AtMostOne
<1>8. \A t \in Tags : unacked'[t] = IF t = u THEN "none" ELSE unacked[t]
  BY DEF Script, Tokens, QueueInv, TypeOK
<1>9. \A t \in 1 .. sent : t \in Tags
  BY UsedTags DEF Tokens
<1> QED
  BY <1>2, <1>5, <1>6, <1>7, <1>8, <1>9 DEF Tokens, OneToken, KeptUntilDone

\* BRPOP moves the copy into one pair of hands.
LEMMA TokensPopped ==
  ASSUME Tokens, NEW j \in Hands, NEW c \in Copies, Pop(j, c)
  PROVE  OneToken' /\ KeptUntilDone'
<1> DEFINE u == c.tag
<1>0. u \in Tags /\ c \in Queued(u) /\ queue[c] = 1 /\ Popped(u) = {} /\ unacked[u] = "none"
      /\ UNCHANGED <<sent, unacked, done, exposed>>
  BY CopyTyped DEF Pop, Queued, Tokens, OneToken, history
<1>1. queue'[c] = 0 /\ \A d \in Copies : d # c => queue'[d] = queue[d]
  BY <1>0 DEF Pop, Tokens, QueueInv, TypeOK
<1>2. Queued(u)' = {}
  BY <1>0, <1>1 DEF Queued, Tokens, OneToken
<1>3. \A t \in Tags : t # u => Queued(t)' = Queued(t)
  BY <1>1 DEF Queued
<1>4. /\ job'[j].pc = "popped" /\ job'[j].tag = u /\ job[j].pc = "free"
      /\ \A i \in Hands : i # j => job'[i] = job[i]
  BY JobSets DEF Pop, Tokens, QueueInv, TypeOK, NoJob
<1>5. Popped(u)' = {j}
  <2>1. \A i \in Popped(u)' : i = j
    BY <1>0, <1>4 DEF Popped
  <2>2. j \in Popped(u)'
    BY <1>4 DEF Popped
  <2> QED
    BY <2>1, <2>2
<1>6. \A t \in Tags : t # u => Popped(t)' = Popped(t)
  BY <1>4 DEF Popped
<1>7. \A d \in Copies : queue'[d] \in {0, 1}
  BY <1>1, AtMostOne
<1>8. \A t \in 1 .. sent : t \in Tags
  BY UsedTags DEF Tokens
<1> QED
  BY <1>0, <1>2, <1>3, <1>5, <1>6, <1>7, <1>8 DEF Tokens, OneToken, KeptUntilDone

\* The process dies with what it had popped.
LEMMA TokensDie ==
  ASSUME Tokens, NEW w \in Workers, Die(w)
  PROVE  OneToken' /\ KeptUntilDone'
<1>1. UNCHANGED <<sent, queue, unacked, done>> /\ exposed \subseteq exposed'
  BY DEF Die, broker
<1>2. \A t : Queued(t)' = Queued(t)
  BY <1>1 DEF Queued
<1>3. \A i \in Hands : job'[i] = IF i[1] = w THEN NoJob ELSE job[i]
  BY JobSets DEF Die
<1>4. \A t \in Tags : Popped(t)' \subseteq Popped(t)
  BY <1>3, JobSets DEF Popped
<1>5. \A t \in Tags : Popped(t) # {} => Popped(t)' # {} \/ t \in exposed'
  <2> SUFFICES ASSUME NEW t \in Tags, NEW i \in Popped(t), t \notin exposed' PROVE i \in Popped(t)'
    OBVIOUS
  <2>1. i \in Hands /\ job[i].tag = t /\ job[i].pc = "popped"
    BY DEF Popped
  <2>2. i[1] # w
    BY <2>1 DEF Die
  <2> QED
    BY <1>3, <2>1, <2>2 DEF Popped
<1>6. \A t \in 1 .. sent : t \in Tags
  BY UsedTags DEF Tokens
<1>7. OneToken'
  BY <1>1, <1>2, <1>4 DEF Tokens, OneToken
<1>8. KeptUntilDone'
  BY <1>1, <1>2, <1>5, <1>6 DEF Tokens, KeptUntilDone
<1> QED
  BY <1>7, <1>8

\* A step of a job that has recorded what it popped.
LEMMA StepStays ==
  ASSUME QueueInv, NEW j \in Jobs, JobStep(j), job[j].pc # "popped"
  PROVE  \A t \in Tags : Popped(t)' = Popped(t)
  BY StepPops DEF Popped

LEMMA TokensDeliver ==
  ASSUME Tokens, NEW j \in Hands, Deliver(j)
  PROVE  OneToken' /\ KeptUntilDone'
<1> USE DEF broker, history
<1>0. QueueInv /\ j \in Jobs /\ JobStep(j) /\ job[j].tag \in Tags
  BY JobSets, DeliverSteps, UsedTags DEF Tokens
<1>1. CASE Append(j)
  BY <1>1, TokensRecorded
<1>2. ASSUME job[j].pc # "popped" PROVE \A t \in Tags : Popped(t)' = Popped(t)
  BY <1>0, <1>2, StepStays
<1>3. CASE Refuse(j) \/ EarlyAck(j) \/ Ack(j)
  <2>1. /\ \A t \in Tags : Popped(t)' = Popped(t)
        /\ UNCHANGED <<sent, queue>> /\ done' = done \cup {job[j].tag} /\ exposed \subseteq exposed'
    BY <1>2, <1>3 DEF Refuse, EarlyAck, Ack
  <2>2. CASE unacked' = [unacked EXCEPT ![job[j].tag] = "none"]
    BY <1>0, <2>1, <2>2, TokensRemoved
  <2>3. CASE unacked' = unacked
    BY <2>1, <2>3, TokensStay
  <2> QED
    BY <1>3, <2>2, <2>3 DEF Refuse, EarlyAck, Ack
<1>4. CASE \/ AwaitEta(j) \/ EndEta(j) \/ Expire(j) \/ Begin(j) \/ StoreGet(j) \/ StoreSet(j)
           \/ Dispatch(j) \/ Returned(j) \/ Failed(j) \/ Raised(j) \/ Lost(j)
  <2>1. job[j].pc # "popped" /\ UNCHANGED <<sent, queue, unacked, done, exposed>>
    BY <1>4 DEF AwaitEta, EndEta, Expire, Begin, Ready, StoreGet, StoreSet, Dispatch, Returned,
                Failed, Raised, Lost
  <2> QED
    BY <1>2, <2>1, TokensStay
<1>5. CASE Retry(j)
  <2>1. /\ job[j].pc = "retry" /\ \A t \in Tags : Popped(t)' = Popped(t)
        /\ UNCHANGED <<unacked, done, exposed>>
    BY <1>2, <1>5 DEF Retry
  <2>2. CASE UNCHANGED <<sent, queue>>
    BY <2>1, <2>2, TokensStay
  <2>3. CASE Push(TaskOf(job[j].tag), mail[job[j].tag].retries + 1)
    <3>1. TaskOf(job[j].tag) \in Tasks /\ mail[job[j].tag].retries + 1 \in 0 .. MaxRetries
      <4>1. mail[job[j].tag] \in [task : Tasks, retries : 0 .. MaxRetries]
        BY <1>0 DEF QueueInv, TypeOK
      <4>2. mail[job[j].tag].retries < MaxRetries
        BY <1>0, <2>1 DEF QueueInv, RetryLeft
      <4> QED
        BY <4>1, <4>2, QueueAssumption DEF TaskOf
    <3> QED
      BY <2>1, <2>3, <3>1, TokensPushed
  <2> QED
    BY <1>5, <2>2, <2>3 DEF Retry
<1> QED
  BY <1>1, <1>3, <1>4, <1>5 DEF Deliver

LEMMA TokensRestore ==
  ASSUME Tokens, NEW j \in Jobs, Restore(j)
  PROVE  OneToken' /\ KeptUntilDone'
<1> USE DEF history
<1>0. QueueInv /\ JobStep(j) /\ job[j].tag \in Tags /\ \A t \in Tags : Popped(t)' = Popped(t)
  BY RestoreSteps, UsedTags, StepStays DEF Tokens
<1>1. CASE RestoreGet(j)
  BY <1>0, <1>1, TokensStay DEF RestoreGet
<1>2. CASE RestoreRun(j)
  <2>1. UNCHANGED <<sent, done, exposed>> /\ job[j].pc = "script"
    BY <1>2 DEF RestoreRun
  <2>2. CASE unacked[job[j].tag] = job[j].seen /\ Script(job[j].tag)
    <3>1. unacked[job[j].tag] # "none"
      BY <2>1, <2>2 DEF Tokens, QueueInv, SeenReal
    <3> QED
      BY <1>0, <2>1, <2>2, <3>1, TokensRestored
  <2>3. CASE UNCHANGED <<unacked, queue>>
    BY <1>0, <2>1, <2>3, TokensStay
  <2> QED
    BY <1>2, <2>2, <2>3 DEF RestoreRun
<1>3. CASE RestoreAck(j)
  <2>1. UNCHANGED <<sent, queue, done>> /\ exposed \subseteq exposed'
    BY <1>3 DEF RestoreAck
  <2>2. CASE unacked' = unacked
    BY <1>0, <2>1, <2>2, TokensStay
  <2>3. CASE unacked' # unacked
    <3>1. unacked' = [unacked EXCEPT ![job[j].tag] = "none"]
      BY <1>3, <2>3 DEF RestoreAck
    <3>2. unacked[job[j].tag] = "none" \/ job[j].tag \in exposed'
      BY <1>3, <2>3 DEF RestoreAck
    <3> QED
      BY <1>0, <2>1, <3>1, <3>2, TokensRemoved
  <2> QED
    BY <2>2, <2>3
<1> QED
  BY <1>1, <1>2, <1>3 DEF Restore

LEMMA TokensStep == Tokens /\ [Next]_vars => Tokens'
<1> SUFFICES ASSUME Tokens, [Next]_vars PROVE OneToken' /\ KeptUntilDone'
  BY QueueStep DEF Tokens
<1> USE DEF broker, history
<1>1. ASSUME NEW k \in Tasks, Publish(k) PROVE OneToken' /\ KeptUntilDone'
  <2>1. /\ Push(k, 0) /\ UNCHANGED <<unacked, done, exposed>> /\ 0 \in 0 .. MaxRetries
        /\ \A t \in Tags : Popped(t)' = Popped(t)
    BY <1>1, QueueAssumption DEF Publish, Popped
  <2> QED
    BY <2>1, TokensPushed
<1>2. ASSUME NEW j \in Hands, Deliver(j) PROVE OneToken' /\ KeptUntilDone'
  BY <1>2, TokensDeliver
<1>3. ASSUME NEW j \in Hands, NEW c \in Copies, Pop(j, c) PROVE OneToken' /\ KeptUntilDone'
  BY <1>3, TokensPopped
<1>4. ASSUME NEW j \in Jobs, Restore(j) PROVE OneToken' /\ KeptUntilDone'
  BY <1>4, TokensRestore
<1>5. ASSUME NEW w \in Workers, Die(w) PROVE OneToken' /\ KeptUntilDone'
  BY <1>5, TokensDie
<1>6. ASSUME NEW w \in Workers, NEW t \in Tags, Sweep(w, t) PROVE OneToken' /\ KeptUntilDone'
  <2>1. \A i \in Hands : job'[i] = job[i]
    BY <1>6, JobSets DEF Sweep, Tokens, QueueInv, TypeOK
  <2>2. \A u \in Tags : Popped(u)' = Popped(u)
    BY <2>1 DEF Popped
  <2> QED
    BY <1>6, <2>2, TokensStay DEF Sweep
<1>7. ASSUME \/ \E w \in Workers : WarmShutdown(w) \/ Restart(w)
             \/ MutexExpires \/ UNCHANGED vars
      PROVE  OneToken' /\ KeptUntilDone'
  <2>1. UNCHANGED <<sent, queue, unacked, job, done, exposed>>
    BY <1>7 DEF WarmShutdown, Restart, MutexExpires, vars
  <2>2. \A u \in Tags : Popped(u)' = Popped(u)
    BY <2>1 DEF Popped
  <2> QED
    BY <2>1, <2>2, TokensStay
<1> QED
  BY <1>1, <1>2, <1>3, <1>4, <1>5, <1>6, <1>7 DEF Next

LEMMA TokensInit == Init => Tokens
<1> SUFFICES ASSUME Init PROVE OneToken /\ KeptUntilDone
  BY QueueInit DEF Tokens
<1>1. \A t \in Tags : Queued(t) = {} /\ Popped(t) = {} /\ unacked[t] = "none"
  BY JobSets DEF Init, Queued, Popped
<1>2. \A c \in Copies : queue[c] = 0
  BY DEF Init
<1>3. 1 .. sent = {}
  BY DEF Init
<1> QED
  BY <1>1, <1>2, <1>3 DEF OneToken, KeptUntilDone

(* A message is in one place (the lists, the record, or one pair of hands about to record it),   *)
(* for any number of processes that restore it at the same time: RESTORE_SCRIPT compares what is *)
(* stored with what was read, and a restore that found nothing pushes nothing.                   *)
THEOREM OnePlace == Spec => []OneToken
<1>1. Tokens => OneToken
  BY DEF Tokens
<1> QED
  BY <1>1, TokensInit, TokensStep, PTL DEF Spec

(* A published message is kept until a delivery of it was settled, for any number of deaths,     *)
(* panics, shutdowns and failed commands, except through the windows `exposed` names.            *)
THEOREM NothingLost == Spec => []KeptUntilDone
<1>1. Tokens => KeptUntilDone
  BY DEF Tokens
<1> QED
  BY <1>1, TokensInit, TokensStep, PTL DEF Spec

-----------------------------------------------------------------------------
(* A task without acks_late.  Deliveries that come from the step as they went in, or gone, or    *)
(* moved on without a start of a task that is acknowledged early.                                *)
Calm ==
  \A i \in Hands :
    \/ job'[i].tag = 0
    \/ /\ job'[i].tag = job[i].tag
       /\ job'[i].pc \in Before => job[i].pc \in Before
       /\ Starting(i)' /\ TaskOf(job[i].tag) \notin Late => Starting(i)

\* The windows are noted for good.
Noted == exposed \subseteq exposed' /\ doubled \subseteq doubled'

LEMMA JobMoves ==
  ASSUME QueueInv, NEW j \in Jobs, JobStep(j)
  PROVE  /\ job'[j].tag \in {0, job[j].tag}
         /\ \A i \in Jobs : i # j => job'[i] = job[i]
<1>1. PICK x : Fits(j, x) /\ job' = [job EXCEPT ![j] = x]
  BY DEF JobStep
<1> QED
  BY <1>1, JobSets DEF QueueInv, TypeOK, Fits

\* A step of one delivery is calm when it does not start a task early or go back.
LEMMA CalmStep ==
  ASSUME QueueInv, NEW j \in Jobs, JobStep(j),
         \/ job'[j].tag = 0
         \/ /\ job'[j].pc \in Before => job[j].pc \in Before
            /\ Starting(j)' /\ TaskOf(job[j].tag) \notin Late => Starting(j)
  PROVE  Calm
  BY JobMoves, JobSets DEF Calm, Starting

\* A message that is nowhere stays nowhere: it is copied from its record, recorded from a pop and
\* popped from the lists.
LEMMA NowhereStays ==
  ASSUME QueueInv, [Next]_vars, NEW t \in Tags, t <= sent, NoToken(t)
  PROVE  NoToken(t)'
<1> USE DEF broker, history
<1>0. Queued(t) = {} /\ Popped(t) = {} /\ unacked[t] = "none" /\ sent \in Nat
  BY UsedTags DEF NoToken
<1>1. ASSUME NEW k, NEW n, Push(k, n) PROVE Queued(t)' = {}
  <2>1. t # sent + 1 /\ Copy(sent + 1, FALSE).tag = sent + 1
    BY <1>0 DEF Tags, Copy
  <2>2. \A c \in Copies : c.tag = t => queue'[c] = queue[c]
    BY <1>1, <2>1 DEF Push, QueueInv, TypeOK
  <2> QED
    BY <1>0, <2>2 DEF Queued
<1>2. ASSUME queue' = queue PROVE Queued(t)' = {}
  BY <1>0, <1>2 DEF Queued
<1>3. ASSUME NEW k \in Tasks, Publish(k) PROVE NoToken(t)'
  <2>1. Queued(t)' = {}
    BY <1>1, <1>3 DEF Publish
  <2> QED
    BY <1>0, <1>3, <2>1 DEF Publish, Popped, NoToken
<1>4. ASSUME NEW j \in Hands, Deliver(j) PROVE NoToken(t)'
  <2>1. Popped(t)' = {} /\ j \in Jobs /\ job[j].tag \in Tags /\ JobStep(j)
    BY <1>0, <1>4, DeliverSteps, StepPops, UsedTags, JobSets
  <2>2. Queued(t)' = {}
    BY <1>1, <1>2, <1>4
       DEF Deliver, Append, Refuse, AwaitEta, EndEta, Expire, Begin, EarlyAck, StoreGet, StoreSet,
           Dispatch, Returned, Failed, Raised, Retry, Lost, Ack
  <2>3. CASE Append(j)
    <3>1. job[j].tag # t
      BY <1>0, <2>3 DEF Append, Popped
    <3> QED
      BY <1>0, <2>1, <2>2, <2>3, <3>1 DEF Append, NoToken, QueueInv, TypeOK
  <2>4. CASE ~Append(j)
    <3>1. unacked' = unacked \/ unacked' = [unacked EXCEPT ![job[j].tag] = "none"]
      BY <1>4, <2>4
         DEF Deliver, Refuse, AwaitEta, EndEta, Expire, Begin, EarlyAck, StoreGet, StoreSet,
             Dispatch, Returned, Failed, Raised, Retry, Lost, Ack
    <3> QED
      BY <1>0, <2>1, <2>2, <3>1 DEF NoToken, QueueInv, TypeOK
  <2> QED
    BY <2>3, <2>4
<1>5. ASSUME NEW j \in Hands, NEW c \in Copies, Pop(j, c) PROVE NoToken(t)'
  <2>1. c.tag # t /\ unacked' = unacked
    BY <1>0, <1>5 DEF Pop, Queued
  <2>2. Queued(t)' = {}
    BY <1>0, <1>5, <2>1 DEF Pop, Queued, QueueInv, TypeOK
  <2>3. job'[j].tag = c.tag /\ \A i \in Hands : i # j => job'[i] = job[i]
    BY <1>5, JobSets DEF Pop, QueueInv, TypeOK, NoJob
  <2>4. Popped(t)' = {}
    BY <1>0, <2>1, <2>3 DEF Popped
  <2> QED
    BY <1>0, <2>1, <2>2, <2>4 DEF NoToken
<1>6. ASSUME NEW j \in Jobs, Restore(j) PROVE NoToken(t)'
  <2>1. Popped(t)' = {} /\ job[j].tag \in Tags
    BY <1>0, <1>6, RestoreSteps, StepPops, UsedTags
  <2>2. CASE UNCHANGED <<unacked, queue>>
    BY <1>0, <1>2, <2>1, <2>2 DEF NoToken
  <2>3. CASE RestoreRun(j) /\ unacked[job[j].tag] = job[j].seen /\ Script(job[j].tag)
    <3>1. unacked[job[j].tag] # "none"
      BY <2>3 DEF RestoreRun, QueueInv, SeenReal
    <3>2. job[j].tag # t /\ Copy(job[j].tag, TRUE).tag = job[j].tag
      BY <1>0, <3>1 DEF Copy
    <3>3. \A c \in Copies : c.tag = t => queue'[c] = queue[c]
      BY <2>3, <3>2 DEF Script, QueueInv, TypeOK
    <3>4. Queued(t)' = {}
      BY <1>0, <3>3 DEF Queued
    <3>5. unacked'[t] = "none"
      BY <1>0, <2>1, <2>3 DEF Script, QueueInv, TypeOK
    <3> QED
      BY <2>1, <3>4, <3>5 DEF NoToken
  <2>4. CASE queue' = queue /\ unacked' = [unacked EXCEPT ![job[j].tag] = "none"]
    BY <1>0, <1>2, <2>1, <2>4 DEF NoToken, QueueInv, TypeOK
  <2> QED
    BY <1>6, <2>2, <2>3, <2>4 DEF Restore, RestoreGet, RestoreRun, RestoreAck
<1>7. ASSUME NEW w \in Workers, Die(w) PROVE NoToken(t)'
  <2>1. \A i \in Hands : job'[i] = job[i] \/ job'[i] = NoJob
    BY <1>7, JobSets DEF Die
  <2>2. Popped(t)' = {}
    BY <1>0, <2>1, JobSets DEF Popped
  <2> QED
    BY <1>0, <1>2, <1>7, <2>2 DEF Die, NoToken
<1>8. ASSUME NEW w \in Workers, NEW u \in Tags, Sweep(w, u) PROVE NoToken(t)'
  <2>1. \A i \in Hands : job'[i] = job[i]
    BY <1>8, JobSets DEF Sweep, QueueInv, TypeOK
  <2>2. Popped(t)' = {}
    BY <1>0, <2>1 DEF Popped
  <2> QED
    BY <1>0, <1>2, <1>8, <2>2 DEF Sweep, NoToken
<1>9. ASSUME \/ \E w \in Workers : WarmShutdown(w) \/ Restart(w)
             \/ MutexExpires \/ UNCHANGED vars
      PROVE  NoToken(t)'
  <2>1. UNCHANGED <<queue, unacked, job>>
    BY <1>9 DEF WarmShutdown, Restart, MutexExpires, vars
  <2> QED
    BY <1>0, <1>2, <2>1 DEF NoToken, Popped
<1> QED
  BY <1>3, <1>4, <1>5, <1>6, <1>7, <1>8, <1>9 DEF Next

LEMMA CalmHolds ==
  ASSUME Calm, NEW t \in Tags
  PROVE  Held(t)' \subseteq Held(t)
<1>1. t # 0
  BY DEF Tags
<1> QED
  BY <1>1 DEF Calm, Held

LEMMA Unheld ==
  ASSUME QueueInv, NEW t \in Tags, t > sent
  PROVE  Held(t) = {} /\ runs[t] = 0
<1>1. t \in Int /\ sent \in Int
  BY UsedTags DEF Tags
<1>2. \A j \in Hands : job[j].tag = t => t <= sent
  BY UsedTags, JobSets
<1>3. \A j \in Hands : job[j].tag # t
  BY <1>1, <1>2
<1> QED
  BY <1>3 DEF Held, QueueInv, Fresh

\* A calm step in which a message comes into the lists only when nobody holds it.
LEMMA HeldKeeps ==
  ASSUME HeldOnce, Calm, Noted,
         \A t \in Tags \ (exposed' \cup doubled') : Queued(t)' # {} => Queued(t) # {} \/ Held(t)' = {}
  PROVE  HeldOnce'
<1> SUFFICES ASSUME NEW t \in Tags, t \notin exposed' \cup doubled'
             PROVE  (\A i, j \in Held(t)' : i = j) /\ (Queued(t)' # {} => Held(t)' = {})
  BY DEF HeldOnce
<1>1. t \notin exposed \cup doubled /\ Held(t)' \subseteq Held(t)
  BY CalmHolds DEF Noted
<1> QED
  BY <1>1 DEF HeldOnce

\* A calm step that starts no body.
LEMMA AckedKeeps ==
  ASSUME StartInv, [Next]_vars, Calm, Noted, runs' = runs,
         \A t \in 1 .. sent : mail'[t] = mail[t]
  PROVE  AckedFirst'
<1> SUFFICES ASSUME NEW t \in Tags, t \notin exposed' \cup doubled', TaskOf(t)' \notin Late
             PROVE  /\ \A j \in Held(t)' : Starting(j)' => NoToken(t)' /\ runs[t] = 0
                    /\ runs[t] > 0 => NoToken(t)' /\ \A j \in Held(t)' : job'[j].pc \notin Before
                    /\ runs[t] <= 1
  BY DEF AckedFirst
<1>0. t \notin exposed \cup doubled /\ Held(t)' \subseteq Held(t) /\ QueueInv /\ t # 0
  BY CalmHolds DEF Noted, StartInv, Tags
<1>1. CASE t <= sent
  <2>1. TaskOf(t) \notin Late /\ (NoToken(t) => NoToken(t)')
    BY <1>0, <1>1, UsedTags, NowhereStays DEF TaskOf, Tags
  <2>2. \A j \in Held(t)' : /\ Starting(j)' => Starting(j)
                            /\ job'[j].pc \in Before => job[j].pc \in Before
    BY <1>0, <2>1 DEF Calm, Held
  <2> QED
    BY <1>0, <2>1, <2>2 DEF StartInv, AckedFirst
<1>2. CASE t > sent
  <2>1. runs[t] = 0 /\ Held(t) = {}
    BY <1>0, <1>2, Unheld
  <2> QED
    BY <1>0, <2>1
<1> QED
  BY <1>0, <1>1, <1>2, UsedTags DEF Tags

\* The early acknowledgement: the only delivery of the message takes its record away.
LEMMA EarlyAckStarts ==
  ASSUME StartInv, NEW j \in Hands, EarlyAck(j)
  PROVE  HeldOnce' /\ AckedFirst'
<1> PICK u : u = job[j].tag
  OBVIOUS
<1>0. /\ QueueInv /\ j \in Jobs /\ u \in Tags /\ u <= sent /\ JobStep(j) /\ job[j].pc = "earlyack"
      /\ Deliver(j) /\ [Next]_vars
      /\ UNCHANGED <<sent, mail, queue, runs, doubled>> /\ exposed \subseteq exposed'
  BY JobSets, DeliverSteps, UsedTags DEF StartInv, EarlyAck, Deliver, Next
<1>1. job'[j].tag \in {0, u} /\ \A i \in Hands : i # j => job'[i] = job[i]
  BY <1>0, JobMoves, JobSets
<1>2. \A t \in Tags : Held(t)' \subseteq Held(t) /\ Queued(t)' = Queued(t)
  BY <1>0, <1>1 DEF Held, Queued, Tags
<1>3. HeldOnce'
  BY <1>0, <1>2 DEF StartInv, HeldOnce
<1>4. ASSUME NEW t \in Tags, t \notin exposed' \cup doubled', TaskOf(t)' \notin Late
      PROVE  /\ \A i \in Held(t)' : Starting(i)' => NoToken(t)' /\ runs[t] = 0
             /\ runs[t] > 0 => NoToken(t)' /\ \A i \in Held(t)' : job'[i].pc \notin Before
             /\ runs[t] <= 1
  <2>0. t \notin exposed \cup doubled /\ TaskOf(t) \notin Late
    BY <1>0, <1>4 DEF TaskOf
  <2>1. CASE t = u
    <3>1. j \in Held(u) /\ \A i \in Held(u) : i = j
      BY <1>0, <2>0, <2>1 DEF Held, StartInv, HeldOnce
    <3>2. Queued(u) = {} /\ Popped(u) = {}
      BY <1>0, <2>0, <2>1, <3>1 DEF StartInv, HeldOnce, Popped, Held
    <3>3. runs[u] = 0
      <4>1. runs[u] \in Nat /\ ~(runs[u] > 0)
        BY <1>0, <2>0, <2>1, <3>1 DEF StartInv, AckedFirst, Before, QueueInv, TypeOK
      <4> QED
        BY <4>1
    <3>4. unacked'[u] = "none"
      BY <1>0, <1>4, <2>1 DEF EarlyAck, QueueInv, TypeOK
    <3>5. Queued(u)' = {} /\ Popped(u)' = {}
      BY <1>0, <1>2, <3>2, StepPops
    <3> QED
      BY <2>1, <3>3, <3>4, <3>5 DEF NoToken
  <2>2. CASE t # u
    <3>1. \A i \in Held(t)' : i \in Held(t) /\ job'[i] = job[i]
      BY <1>1, <1>2, <2>2 DEF Held, Tags
    <3>2. CASE t <= sent
      <4>1. NoToken(t) => NoToken(t)'
        BY <1>0, <3>2, NowhereStays
      <4> QED
        BY <2>0, <3>1, <4>1 DEF StartInv, AckedFirst, Starting
    <3>3. CASE t > sent
      <4>1. Held(t) = {} /\ runs[t] = 0
        BY <1>0, <3>3, Unheld
      <4> QED
        BY <1>0, <3>1, <4>1
    <3> QED
      BY <1>0, <3>2, <3>3, UsedTags DEF Tags
  <2> QED
    BY <2>1, <2>2
<1>5. AckedFirst'
  BY <1>0, <1>4 DEF AckedFirst
<1> QED
  BY <1>3, <1>5

\* The body is started: of a task that is acknowledged early, once its record is gone.
LEMMA DispatchStarts ==
  ASSUME StartInv, NEW j \in Hands, Dispatch(j)
  PROVE  HeldOnce' /\ AckedFirst'
<1> PICK u : u = job[j].tag
  OBVIOUS
<1>0. /\ QueueInv /\ j \in Jobs /\ u \in Tags /\ u <= sent /\ JobStep(j) /\ job[j].pc = "dispatch"
      /\ Deliver(j) /\ [Next]_vars
      /\ UNCHANGED <<sent, mail, queue, exposed, doubled>> /\ runs' = [runs EXCEPT ![u] = @ + 1]
  BY JobSets, DeliverSteps, UsedTags DEF StartInv, Dispatch, Deliver, Next, broker
<1>1. /\ job'[j].tag = u /\ job'[j].pc = "running"
      /\ \A i \in Hands : i # j => job'[i] = job[i]
  BY <1>0, JobMoves, JobSets DEF Dispatch, Goto, QueueInv, TypeOK, Job
<1>2. \A t \in Tags : Held(t)' = Held(t) /\ Queued(t)' = Queued(t)
  BY <1>0, <1>1 DEF Held, Queued
<1>3. HeldOnce'
  BY <1>0, <1>2 DEF StartInv, HeldOnce
<1>4. ASSUME NEW t \in Tags, t \notin exposed \cup doubled, TaskOf(t) \notin Late
      PROVE  /\ \A i \in Held(t)' : Starting(i)' => NoToken(t)' /\ runs'[t] = 0
             /\ runs'[t] > 0 => NoToken(t)' /\ \A i \in Held(t)' : job'[i].pc \notin Before
             /\ runs'[t] <= 1
  <2>1. CASE t = u
    <3>1. j \in Held(u) /\ \A i \in Held(u) : i = j
      BY <1>0, <1>4, <2>1 DEF Held, StartInv, HeldOnce
    <3>2. NoToken(u) /\ runs[u] = 0
      BY <1>0, <1>4, <2>1, <3>1 DEF StartInv, AckedFirst, Starting
    <3>3. NoToken(u)'
      BY <1>0, <3>2, NowhereStays
    <3>4. runs'[u] = 1
      BY <1>0, <3>2 DEF QueueInv, TypeOK
    <3>5. \A i \in Held(u)' : job'[i].pc = "running"
      <4>1. Held(u)' = Held(u)
        BY <1>0, <1>2
      <4> QED
        BY <1>1, <3>1, <4>1
    <3> QED
      BY <2>1, <3>3, <3>4, <3>5 DEF Starting, Before
  <2>2. CASE t # u
    <3>1. (\A i \in Held(t)' : i \in Held(t) /\ job'[i] = job[i]) /\ runs'[t] = runs[t]
      BY <1>0, <1>1, <1>2, <2>2 DEF Held, QueueInv, TypeOK
    <3>2. CASE t <= sent
      <4>1. NoToken(t) => NoToken(t)'
        BY <1>0, <3>2, NowhereStays
      <4> QED
        BY <1>4, <3>1, <4>1 DEF StartInv, AckedFirst, Starting
    <3>3. CASE t > sent
      <4>1. Held(t) = {} /\ runs[t] = 0
        BY <1>0, <3>3, Unheld
      <4> QED
        BY <1>0, <3>1, <4>1
    <3> QED
      BY <1>0, <3>2, <3>3, UsedTags DEF Tags
  <2> QED
    BY <2>1, <2>2
<1>5. AckedFirst'
  BY <1>0, <1>4 DEF AckedFirst, TaskOf
<1> QED
  BY <1>3, <1>5

\* Storing anything but STARTED starts nothing.
LEMMA StoreCalm ==
  ASSUME QueueInv, NEW j \in Jobs, NEW put, NEW permit, Store(j, put, permit), JobStep(j),
         put # "STARTED" \/ TaskOf(job[j].tag) \in Late
  PROVE  Calm
<1> DEFINE pc == IF TaskOf(job[j].tag) \in Quiet THEN After(j, put) ELSE "get"
<1>1. pc \in {"get", "free", "ack"} \/ TaskOf(job[j].tag) \in Late
  BY DEF After
<1>2. pc \in {"get", "dispatch", "free", "ack"}
  BY DEF After
<1>3. job'[j].pc = pc /\ job'[j].put = put
  BY DEF Store, QueueInv, TypeOK, Job
<1> HIDE DEF pc
<1>4. job'[j].pc \notin Before /\ (Starting(j)' => TaskOf(job[j].tag) \in Late)
  BY <1>1, <1>2, <1>3 DEF Before, Starting
<1> QED
  BY <1>4, CalmStep

\* So does a move to any of these steps.
LEMMA GotoCalm ==
  ASSUME QueueInv, NEW j \in Jobs, JobStep(j), job'[j].pc \notin {"get", "set", "dispatch"},
         job'[j].pc \in Before => job[j].pc \in Before
  PROVE  Calm
  BY CalmStep DEF Starting

LEMMA DeliverCalm ==
  ASSUME QueueInv, NEW j \in Hands, Deliver(j), ~EarlyAck(j), ~Dispatch(j)
  PROVE  Calm
<1>0. j \in Jobs /\ JobStep(j) /\ job[j] \in Job /\ job \in [Jobs -> Job]
  BY JobSets, DeliverSteps DEF QueueInv, TypeOK
<1>1. CASE Append(j) \/ AwaitEta(j) \/ EndEta(j) \/ Raised(j) \/ Ack(j)
  <2>1. /\ job'[j].pc \in {"received", "eta", "ready", "hget", "retry", "free"}
        /\ job'[j].pc \in Before => job[j].pc \in Before
    BY <1>0, <1>1, JobSets DEF Append, AwaitEta, EndEta, Raised, Ack, Goto, Leave, Before, Job
  <2> QED
    BY <1>0, <2>1, GotoCalm
<1>2. CASE Refuse(j)
  <2>1. job'[j].pc = "get" /\ job'[j].put = "FAILURE"
    BY <1>0, <1>2 DEF Refuse, Job
  <2> QED
    BY <1>0, <2>1, CalmStep DEF Starting, Before
<1>3. CASE Expire(j) \/ Returned(j) \/ Failed(j) \/ Retry(j)
  BY <1>0, <1>3, StoreCalm DEF Expire, Returned, Failed, Retry
<1>4. CASE Begin(j)
  <2>1. CASE TaskOf(job[j].tag) \in Late
    BY <1>0, <1>4, <2>1, StoreCalm DEF Begin
  <2>2. CASE TaskOf(job[j].tag) \notin Late
    <3>1. job'[j].pc = "earlyack" /\ job[j].pc \in Before
      BY <1>0, <1>4, <2>2 DEF Begin, Ready, Goto, Before, Job
    <3> QED
      BY <1>0, <3>1, GotoCalm
  <2> QED
    BY <2>1, <2>2
<1>5. CASE Lost(j)
  <2>1. CASE Store(j, "FAILURE", FALSE)
    BY <1>0, <2>1, StoreCalm
  <2>2. CASE job' = [job EXCEPT ![j].pc = "hget", ![j].permit = FALSE]
    <3>1. job'[j].pc = "hget"
      BY <1>0, <2>2 DEF Job
    <3> QED
      BY <1>0, <3>1, GotoCalm DEF Before
  <2> QED
    BY <1>5, <2>1, <2>2 DEF Lost
<1>6. CASE StoreGet(j) \/ StoreSet(j)
  <2>0. job[j].pc \in {"get", "set"}
    BY <1>6 DEF StoreGet, StoreSet
  <2>1. \/ Goto(j, "set") \/ Leave(j) \/ Goto(j, After(j, job[j].put))
    BY <1>6 DEF StoreGet, StoreSet
  <2>2. CASE Leave(j)
    BY <1>0, <2>2, JobSets, CalmStep DEF Leave
  <2>3. CASE Goto(j, "set") \/ Goto(j, After(j, job[j].put))
    <3>1. After(j, job[j].put) \in {"dispatch", "free", "ack"}
          /\ (After(j, job[j].put) = "dispatch" => job[j].put = "STARTED")
      BY DEF After
    <3>2. job'[j].put = job[j].put /\ job'[j].pc \in {"set", After(j, job[j].put)}
      BY <1>0, <2>3 DEF Goto, Job
    <3>3. job'[j].pc \notin Before /\ (Starting(j)' => Starting(j))
      BY <2>0, <3>1, <3>2 DEF Starting, Before
    <3> QED
      BY <1>0, <3>3, CalmStep
  <2> QED
    BY <2>1, <2>2, <2>3
<1> QED
  BY <1>1, <1>2, <1>3, <1>4, <1>5, <1>6 DEF Deliver

\* A message is published under a tag nobody holds.
LEMMA PushLists ==
  ASSUME QueueInv, NEW k, NEW n, Push(k, n), NEW t \in Tags, Queued(t)' # {}
  PROVE  Queued(t) # {} \/ Held(t) = {}
<1>1. CASE t <= sent
  <2>1. t # sent + 1 /\ Copy(sent + 1, FALSE).tag = sent + 1
    BY <1>1, UsedTags DEF Tags, Copy
  <2>2. \A c \in Copies : c.tag = t => queue'[c] = queue[c]
    BY <2>1 DEF Push, QueueInv, TypeOK
  <2> QED
    BY <2>2 DEF Queued
<1>2. CASE t > sent
  BY <1>2, Unheld
<1> QED
  BY <1>1, <1>2, UsedTags DEF Tags

LEMMA StartDeliver ==
  ASSUME StartInv, NEW j \in Hands, Deliver(j)
  PROVE  HeldOnce' /\ AckedFirst'
<1> USE DEF broker, history
<1>1. CASE EarlyAck(j)
  BY <1>1, EarlyAckStarts
<1>2. CASE Dispatch(j)
  BY <1>2, DispatchStarts
<1>3. CASE ~EarlyAck(j) /\ ~Dispatch(j)
  <2>0. QueueInv /\ Calm /\ [Next]_vars
    BY <1>3, DeliverCalm DEF StartInv, Next
  <2>1. Noted /\ runs' = runs
    BY <1>3
       DEF Deliver, Append, Refuse, AwaitEta, EndEta, Expire, Begin, StoreGet, StoreSet,
           Returned, Failed, Raised, Retry, Lost, Ack, Noted
  <2>2. CASE Retry(j)
    <3>1. \A t \in Tags : Queued(t)' # {} => Queued(t) # {} \/ Held(t)' = {}
      <4>1. CASE queue' = queue
        BY <4>1 DEF Queued
      <4>2. CASE Push(TaskOf(job[j].tag), mail[job[j].tag].retries + 1)
        <5>1. \A t \in Tags : Queued(t)' # {} => Queued(t) # {} \/ Held(t) = {}
          BY <2>0, <4>2, PushLists
        <5> QED
          BY <2>0, <5>1, CalmHolds
      <4> QED
        BY <2>2, <4>1, <4>2 DEF Retry
    <3>2. \A t \in 1 .. sent : mail'[t] = mail[t]
      <4>1. CASE mail' = mail
        BY <4>1
      <4>2. CASE Push(TaskOf(job[j].tag), mail[job[j].tag].retries + 1)
        <5>1. \A t \in 1 .. sent : t \in Tags /\ t # sent + 1
          BY <2>0, UsedTags
        <5> QED
          BY <2>0, <4>2, <5>1 DEF Push, QueueInv, TypeOK
      <4> QED
        BY <2>2, <4>1, <4>2 DEF Retry
    <3> QED
      BY <2>0, <2>1, <3>1, <3>2, HeldKeeps, AckedKeeps DEF StartInv
  <2>3. CASE ~Retry(j)
    <3>1. UNCHANGED <<queue, mail>>
      BY <1>3, <2>3
         DEF Deliver, Append, Refuse, AwaitEta, EndEta, Expire, Begin, StoreGet, StoreSet,
             Returned, Failed, Raised, Lost, Ack
    <3>2. \A t \in Tags : Queued(t)' # {} => Queued(t) # {}
      BY <3>1 DEF Queued
    <3> QED
      BY <2>0, <2>1, <3>1, <3>2, HeldKeeps, AckedKeeps DEF StartInv
  <2> QED
    BY <2>2, <2>3
<1> QED
  BY <1>1, <1>2, <1>3

\* A delivery or a sweep that restores the message leaves it; with another one at work the tag
\* is noted in `doubled`.
LEMMA StartRestore ==
  ASSUME StartInv, NEW j \in Jobs, Restore(j)
  PROVE  HeldOnce' /\ AckedFirst'
<1> USE DEF history
<1>0. /\ QueueInv /\ JobStep(j) /\ job \in [Jobs -> Job] /\ job[j] \in Job /\ [Next]_vars
      /\ job[j].tag \in Tags
  BY RestoreSteps, UsedTags DEF StartInv, QueueInv, TypeOK, Next
<1>1. Calm
  <2>1. job'[j].pc \in {"free", "script", "blindack"}
    BY <1>0, JobSets DEF Restore, RestoreGet, RestoreRun, RestoreAck, Leave, Job
  <2> QED
    BY <1>0, <2>1, GotoCalm DEF Before
<1>2. Noted /\ UNCHANGED <<runs, mail>>
  BY DEF Restore, RestoreGet, RestoreRun, RestoreAck, Noted
<1>3. AckedFirst'
  BY <1>0, <1>1, <1>2, AckedKeeps
<1>4. ASSUME NEW t \in Tags, t \notin exposed' \cup doubled', Queued(t)' # {}
      PROVE  Queued(t) # {} \/ Held(t)' = {}
  <2>1. CASE queue' = queue
    BY <1>4, <2>1 DEF Queued
  <2>2. CASE queue' # queue
    <3>1. /\ RestoreRun(j) /\ Script(job[j].tag) /\ Leave(j)
          /\ doubled' = IF Held(job[j].tag) \ {j} = {} THEN doubled ELSE doubled \cup {job[j].tag}
      BY <2>2 DEF Restore, RestoreGet, RestoreRun, RestoreAck
    <3>2. CASE t = job[j].tag
      <4>1. Held(t) \ {j} = {}
        BY <1>4, <3>1, <3>2
      <4>2. job'[j].tag = 0 /\ t # 0
        BY <1>0, <3>1, JobSets DEF Leave, Tags
      <4>3. Held(t)' \subseteq Held(t) /\ j \notin Held(t)'
        BY <1>1, <4>2, CalmHolds DEF Held
      <4> QED
        BY <4>1, <4>3
    <3>3. CASE t # job[j].tag
      <4>1. Copy(job[j].tag, TRUE).tag = job[j].tag
        BY DEF Copy
      <4>2. \A c \in Copies : c.tag = t => queue'[c] = queue[c]
        BY <1>0, <3>1, <3>3, <4>1 DEF Script, QueueInv, TypeOK
      <4> QED
        BY <1>4, <4>2 DEF Queued
    <3> QED
      BY <3>2, <3>3
  <2> QED
    BY <2>1, <2>2
<1>5. HeldOnce'
  BY <1>1, <1>2, <1>4, HeldKeeps DEF StartInv
<1> QED
  BY <1>3, <1>5

\* What is in the lists is in nobody's hands, so a pop makes one delivery.
LEMMA StartPop ==
  ASSUME StartInv, NEW j \in Hands, NEW c \in Copies, Pop(j, c)
  PROVE  HeldOnce' /\ AckedFirst'
<1> DEFINE u == c.tag
<1>0. /\ QueueInv /\ u \in Tags /\ c \in Queued(u) /\ [Next]_vars /\ u <= sent
      /\ UNCHANGED <<sent, mail, runs, exposed, doubled>>
  <2>1. ~(u > sent) /\ u \in Tags
    BY CopyTyped DEF Pop, StartInv, QueueInv, Fresh
  <2>2. u <= sent
    BY <2>1, UsedTags DEF StartInv, Tags
  <2> QED
    BY <2>1, <2>2 DEF StartInv, Pop, Queued, history, Next
<1>1. /\ job'[j].pc = "popped" /\ job'[j].tag = u /\ job[j].tag = 0
      /\ \A i \in Hands : i # j => job'[i] = job[i]
  BY <1>0, JobSets DEF Pop, QueueInv, TypeOK, Shaped, NoJob
<1>2. \A t \in Tags : t # u => Held(t)' = Held(t)
  BY <1>1 DEF Held, Tags
<1>3. \A d \in Copies : queue'[d] > 0 => queue[d] > 0
  BY <1>0 DEF Pop, QueueInv, TypeOK
<1>4. \A t \in Tags : Queued(t)' \subseteq Queued(t)
  BY <1>3 DEF Queued
<1>5. Queued(u)' = {}
  <2>1. queue'[c] = 0
    BY <1>0, CopyTyped DEF Pop, QueueInv, TypeOK, StartInv, OneToken
  <2> QED
    BY <1>0, <1>4, <2>1 DEF Queued, StartInv, OneToken
<1>6. u \notin exposed \cup doubled => Held(u) = {} /\ \A i \in Held(u)' : i = j
  <2>1. u \notin exposed \cup doubled => Held(u) = {}
    BY <1>0 DEF StartInv, HeldOnce
  <2> QED
    BY <1>1, <2>1 DEF Held
<1>7. HeldOnce'
  BY <1>0, <1>2, <1>4, <1>5, <1>6 DEF StartInv, HeldOnce
<1>8. ASSUME NEW t \in Tags, t \notin exposed \cup doubled, TaskOf(t) \notin Late
      PROVE  /\ \A i \in Held(t)' : Starting(i)' => NoToken(t)' /\ runs[t] = 0
             /\ runs[t] > 0 => NoToken(t)' /\ \A i \in Held(t)' : job'[i].pc \notin Before
             /\ runs[t] <= 1
  <2>1. CASE t = u
    <3>1. ~NoToken(u) /\ runs[u] \in Nat
      BY <1>0 DEF NoToken, QueueInv, TypeOK
    <3>2. runs[u] = 0
      BY <1>8, <2>1, <3>1 DEF StartInv, AckedFirst
    <3>3. \A i \in Held(u)' : ~Starting(i)'
      BY <1>1, <1>6, <1>8, <2>1 DEF Starting
    <3> QED
      BY <2>1, <3>2, <3>3
  <2>2. CASE t # u
    <3>1. \A i \in Held(t)' : i \in Held(t) /\ job'[i] = job[i]
      BY <1>1, <1>2, <2>2 DEF Held
    <3>2. CASE t <= sent
      <4>1. NoToken(t) => NoToken(t)'
        BY <1>0, <3>2, NowhereStays
      <4> QED
        BY <1>8, <3>1, <4>1 DEF StartInv, AckedFirst, Starting
    <3>3. CASE t > sent
      <4>1. Held(t) = {} /\ runs[t] = 0
        BY <1>0, <3>3, Unheld
      <4> QED
        BY <3>1, <4>1
    <3> QED
      BY <1>0, <3>2, <3>3, UsedTags DEF Tags
  <2> QED
    BY <2>1, <2>2
<1>9. AckedFirst'
  BY <1>0, <1>8 DEF AckedFirst, TaskOf
<1> QED
  BY <1>7, <1>9

LEMMA StartStep == StartInv /\ [Next]_vars => StartInv'
<1> SUFFICES ASSUME StartInv, [Next]_vars PROVE HeldOnce' /\ AckedFirst'
  BY TokensStep DEF StartInv, Tokens
<1> USE DEF broker, history
<1>0. QueueInv
  BY DEF StartInv
<1>1. ASSUME NEW k \in Tasks, Publish(k) PROVE HeldOnce' /\ AckedFirst'
  <2>1. Push(k, 0) /\ UNCHANGED <<job, runs, exposed, doubled>>
    BY <1>1 DEF Publish
  <2>2. Noted /\ \A t \in Tags : Held(t)' = Held(t)
    BY <2>1 DEF Noted, Held
  <2>3. Calm
    BY <2>1 DEF Calm, Starting
  <2>4. \A t \in Tags : Queued(t)' # {} => Queued(t) # {} \/ Held(t)' = {}
    BY <1>0, <2>1, <2>2, PushLists
  <2>5. \A t \in 1 .. sent : mail'[t] = mail[t]
    <3>1. \A t \in 1 .. sent : t \in Tags /\ t # sent + 1
      BY <1>0, UsedTags
    <3> QED
      BY <1>0, <2>1, <3>1 DEF Push, QueueInv, TypeOK
  <2> QED
    BY <2>1, <2>2, <2>3, <2>4, <2>5, HeldKeeps, AckedKeeps DEF StartInv
<1>2. ASSUME NEW j \in Hands, Deliver(j) PROVE HeldOnce' /\ AckedFirst'
  BY <1>2, StartDeliver
<1>3. ASSUME NEW j \in Hands, NEW c \in Copies, Pop(j, c) PROVE HeldOnce' /\ AckedFirst'
  BY <1>3, StartPop
<1>4. ASSUME NEW j \in Jobs, Restore(j) PROVE HeldOnce' /\ AckedFirst'
  BY <1>4, StartRestore
<1>5. ASSUME \/ \E w \in Workers : Die(w) \/ WarmShutdown(w) \/ Restart(w) \/ \E t \in Tags : Sweep(w, t)
             \/ MutexExpires \/ UNCHANGED vars
      PROVE  HeldOnce' /\ AckedFirst'
  <2>1. Noted /\ UNCHANGED <<runs, mail, queue>>
    BY <1>5 DEF Die, WarmShutdown, Restart, Sweep, MutexExpires, vars, Noted
  <2>2. \A i \in Hands : job'[i] = job[i] \/ job'[i] = NoJob
    BY <1>0, <1>5, JobSets DEF Die, WarmShutdown, Restart, Sweep, MutexExpires, vars, QueueInv, TypeOK
  <2>3. Calm
    BY <2>2, JobSets DEF Calm, Starting
  <2>4. \A t \in Tags : Queued(t)' # {} => Queued(t) # {}
    BY <2>1 DEF Queued
  <2> QED
    BY <2>1, <2>3, <2>4, HeldKeeps, AckedKeeps DEF StartInv
<1> QED
  BY <1>1, <1>2, <1>3, <1>4, <1>5 DEF Next

LEMMA StartInit == Init => StartInv
<1> SUFFICES ASSUME Init PROVE HeldOnce /\ AckedFirst
  BY TokensInit DEF StartInv, Tokens
<1>1. \A t \in Tags : Held(t) = {} /\ runs[t] = 0
  BY JobSets DEF Init, Held, Tags
<1> QED
  BY <1>1 DEF HeldOnce, AckedFirst

(* A task without acks_late is started at most once, for any number of processes, deaths and     *)
(* redeliveries, unless its early acknowledgement failed or a sweep restored it while it was in  *)
(* hand.                                                                                         *)
THEOREM StartedOnce == Spec => []EarlyRunsOnce
<1>1. StartInv => EarlyRunsOnce
  BY UsedTags DEF StartInv, AckedFirst, EarlyRunsOnce
<1> QED
  BY <1>1, StartInit, StartStep, PTL DEF Spec
=============================================================================
