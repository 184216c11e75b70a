----------------------------- MODULE TaskQueue ------------------------------
(***************************************************************************)
(* The worker's message queue over Redis (baskfy-worker, runtime/          *)
(* consumer.rs, celery.rs, beat_daemon.rs): consumer processes pop         *)
(* messages, record them as unacked, run them, answer, acknowledge, retry  *)
(* and restore them, with kombu's acknowledgement emulation.               *)
(*                                                                         *)
(* A step is one Redis command or script; between two of them any other    *)
(* process may act, the command may fail, or the process may die.  A       *)
(* delivery keeps the tag of its message, also when it is redelivered.     *)
(* The lists (queues and priorities) are one bag of copies.  Time is a     *)
(* choice: a record is old when its process died, or a body outlived the   *)
(* visibility timeout.                                                     *)
(***************************************************************************)
EXTENDS Integers, FiniteSets

CONSTANTS
  Workers,       \* consumer processes
  Slots,         \* deliveries one process may have in hand, the waiting ones included
  Concurrency,   \* its permits
  Tasks,         \* task ids that are published
  Late,          \* those with acks_late
  Quiet,         \* those with ignore_result
  Expiring,      \* those with an expiry
  Unknown,       \* those no body is registered for
  Retried,       \* those whose exceptions are retried
  MaxRetries,    \* task_max_retries
  MaxTags,       \* bound: messages ever published, retries included
  MaxFaults      \* bound: deaths, stops, panics, failed commands, overlong bodies

ASSUME QueueAssumption ==
  /\ Concurrency \in Nat \ {0} /\ MaxRetries \in Nat
  /\ MaxTags \in Nat /\ MaxFaults \in Nat
  /\ Tasks # {} /\ "sweep" \notin Slots /\ "none" \notin Workers

VARIABLES
  sent, mail,    \* tags used so far, and the message of each: task and retries
  queue,         \* copies in the lists
  unacked,       \* the `unacked` hash and its index: what is stored under a tag
  mutex,         \* `unacked_mutex`: the process whose sweep holds it
  result,        \* the result backend
  warm,          \* processes in a warm shutdown
  job,           \* what each process has in hand: its deliveries and its sweep
  faults,
  \* history:
  runs,          \* how often a body was started for the tag
  done,          \* tags a delivery of which was settled
  exposed,       \* tags that lost their only copy or record to a named window
  doubled        \* tags restored while a delivery of them was in hand

broker  == <<sent, mail, queue, unacked, mutex>>
history == <<runs, done, exposed, doubled>>
vars    == <<sent, mail, queue, unacked, mutex, result, warm, job, faults, runs, done, exposed,
             doubled>>

Tags   == 1 .. MaxTags
Copies == [tag : Tags, again : BOOLEAN]
Stored == {"none", "first", "again"}
States == {"PENDING", "STARTED", "RETRY", "SUCCESS", "FAILURE", "REVOKED"}
Steps  == {"free", "popped", "received", "eta", "ready", "earlyack", "get", "set", "dispatch",
           "running", "retry", "ack", "hget", "script", "blindack"}
Jobs   == Workers \X (Slots \cup {"sweep"})
Hands  == Workers \X Slots
Job    == [pc : Steps, tag : Tags \cup {0}, again : BOOLEAN, permit : BOOLEAN,
           put : States, seen : Stored]
NoJob  == [pc |-> "free", tag |-> 0, again |-> FALSE, permit |-> FALSE,
           put |-> "PENDING", seen |-> "none"]

TaskOf(t) == mail[t].task
Text(again) == IF again THEN "again" ELSE "first"     \* the stored envelope, as compared
Copy(t, again) == [tag |-> t, again |-> again]

Init ==
  /\ sent = 0
  /\ mail = [t \in Tags |-> [task |-> CHOOSE k \in Tasks : TRUE, retries |-> 0]]
  /\ queue = [c \in Copies |-> 0]
  /\ unacked = [t \in Tags |-> "none"]
  /\ mutex = "none"
  /\ result = [k \in Tasks |-> "PENDING"]
  /\ warm = [w \in Workers |-> FALSE]
  /\ job = [j \in Jobs |-> NoJob]
  /\ faults = 0
  /\ runs = [t \in Tags |-> 0]
  /\ done = {} /\ exposed = {} /\ doubled = {}

-----------------------------------------------------------------------------
Goto(j, pc) == job' = [job EXCEPT ![j].pc = pc]
Fault       == faults < MaxFaults /\ faults' = faults + 1

\* The delivery or the sweep returns; a sweep releases the mutex when it still holds it.
Leave(j) ==
  /\ job' = [job EXCEPT ![j] = NoJob]
  /\ mutex' = IF j[2] = "sweep" /\ mutex = j[1] THEN "none" ELSE mutex

\* A permit of process w is free.
HasPermit(w) == Cardinality({s \in Slots : job[<<w, s>>].permit}) < Concurrency

\* Where process() and finish() go once `put` is stored, and how they start storing it.
After(j, put) == CASE put = "STARTED" -> "dispatch"
                   [] TaskOf(job[j].tag) \in Unknown -> "free"
                   [] OTHER -> "ack"
Store(j, put, permit) ==
  job' = [job EXCEPT ![j].put = put, ![j].permit = permit,
                     ![j].pc = IF TaskOf(job[j].tag) \in Quiet THEN After(j, put) ELSE "get"]

\* The bound MaxTags leaves a tag for one more message, the retries under way included.
Room == sent + Cardinality({j \in Hands : job[j].pc = "retry"}) < MaxTags

\* LPUSH of a message under a fresh tag.
Push(k, n) ==
  /\ sent < MaxTags
  /\ sent' = sent + 1
  /\ mail' = [mail EXCEPT ![sent + 1] = [task |-> k, retries |-> n]]
  /\ queue' = [queue EXCEPT ![Copy(sent + 1, FALSE)] = @ + 1]

-----------------------------------------------------------------------------
\* Beat, or the API, publishes a task.
Publish(k) ==
  /\ Room /\ \A t \in 1 .. sent : TaskOf(t) # k
  /\ Push(k, 0)
  /\ UNCHANGED <<unacked, mutex, result, warm, job, faults, history>>

\* serve: with a permit in hand, BRPOP takes a copy.
Pop(j, c) ==
  /\ ~warm[j[1]] /\ HasPermit(j[1])
  /\ job[j].pc = "free" /\ queue[c] > 0
  /\ queue' = [queue EXCEPT ![c] = @ - 1]
  /\ job' = [job EXCEPT ![j] = [NoJob EXCEPT !.pc = "popped", !.tag = c.tag,
                                             !.again = c.again, !.permit = TRUE]]
  /\ UNCHANGED <<sent, mail, unacked, mutex, result, warm, faults, history>>

\* Broker::append records the copy; when it fails the message is processed all the same.
Append(j) ==
  /\ job[j].pc = "popped"
  /\ Goto(j, "received")
  /\ \/ /\ unacked' = [unacked EXCEPT ![job[j].tag] = Text(job[j].again)]
        /\ UNCHANGED <<faults, exposed>>
     \/ /\ Fault
        /\ exposed' = exposed \cup {job[j].tag}
        /\ UNCHANGED unacked
  /\ UNCHANGED <<sent, mail, queue, mutex, result, warm, runs, done, doubled>>

\* process, of a task nothing is registered for: acknowledged, then FAILURE.
Refuse(j) ==
  /\ job[j].pc = "received" /\ TaskOf(job[j].tag) \in Unknown
  /\ \/ unacked' = [unacked EXCEPT ![job[j].tag] = "none"] /\ UNCHANGED faults
     \/ Fault /\ UNCHANGED unacked
  /\ done' = done \cup {job[j].tag}
  /\ job' = [job EXCEPT ![j].put = "FAILURE", ![j].pc = "get"]
  /\ UNCHANGED <<sent, mail, queue, mutex, result, warm, runs, exposed, doubled>>

\* process: a retry whose ETA lies ahead gives its permit back and waits ...
AwaitEta(j) ==
  /\ job[j].pc = "received" /\ TaskOf(job[j].tag) \notin Unknown
  /\ mail[job[j].tag].retries > 0
  /\ job' = [job EXCEPT ![j].pc = "eta", ![j].permit = FALSE]
  /\ UNCHANGED <<broker, result, warm, faults, history>>

\* mutant: nothing wakes the wait when a warm shutdown begins
EndEtaWaits(j) ==
  /\ job[j].pc = "eta"
  /\ ~warm[j[1]] /\ HasPermit(j[1])
  /\ job' = [job EXCEPT ![j].pc = "ready", ![j].permit = TRUE]
  /\ UNCHANGED <<broker, result, warm, faults, history>>

\* ... for the ETA and a permit; a warm shutdown makes it restore the message instead.
EndEta(j) ==
  /\ job[j].pc = "eta"
  /\ \/ /\ ~warm[j[1]] /\ HasPermit(j[1])
        /\ job' = [job EXCEPT ![j].pc = "ready", ![j].permit = TRUE]
     \/ warm[j[1]] /\ Goto(j, "hget")
  /\ UNCHANGED <<broker, result, warm, faults, history>>

Ready(j) == \/ job[j].pc = "received" /\ TaskOf(job[j].tag) \notin Unknown
            \/ job[j].pc = "ready"

\* process: the message expired while it was queued or waited.
Expire(j) ==
  /\ Ready(j) /\ TaskOf(job[j].tag) \in Expiring
  /\ Store(j, "REVOKED", TRUE)
  /\ UNCHANGED <<broker, result, warm, faults, history>>

\* mutant: every task is acknowledged when it ends
BeginLate(j) ==
  /\ Ready(j)
  /\ Store(j, "STARTED", TRUE)
  /\ UNCHANGED <<broker, result, warm, faults, history>>

\* process: a task without acks_late is acknowledged before it starts.
Begin(j) ==
  /\ Ready(j)
  /\ IF TaskOf(job[j].tag) \in Late THEN Store(j, "STARTED", TRUE) ELSE Goto(j, "earlyack")
  /\ UNCHANGED <<broker, result, warm, faults, history>>

EarlyAck(j) ==
  /\ job[j].pc = "earlyack"
  /\ \/ unacked' = [unacked EXCEPT ![job[j].tag] = "none"] /\ UNCHANGED <<faults, exposed>>
     \/ Fault /\ exposed' = exposed \cup {job[j].tag} /\ UNCHANGED unacked
  /\ done' = done \cup {job[j].tag}
  /\ Store(j, "STARTED", TRUE)
  /\ UNCHANGED <<sent, mail, queue, mutex, result, warm, runs, doubled>>

\* Backend::store, first half: nothing is written over a SUCCESS (a failed GET reads nothing).
StoreGet(j) ==
  /\ job[j].pc = "get"
  /\ \/ result[TaskOf(job[j].tag)] # "SUCCESS" /\ Goto(j, "set") /\ UNCHANGED <<faults, mutex>>
     \/ Fault /\ Goto(j, "set") /\ UNCHANGED mutex
     \/ /\ result[TaskOf(job[j].tag)] = "SUCCESS"
        /\ IF After(j, job[j].put) = "free"
           THEN Leave(j)
           ELSE Goto(j, After(j, job[j].put)) /\ UNCHANGED mutex
        /\ UNCHANGED faults
  /\ UNCHANGED <<sent, mail, queue, unacked, result, warm, history>>

\* Second half: SETEX.
StoreSet(j) ==
  /\ job[j].pc = "set"
  /\ \/ result' = [result EXCEPT ![TaskOf(job[j].tag)] = job[j].put] /\ UNCHANGED faults
     \/ Fault /\ UNCHANGED result
  /\ IF After(j, job[j].put) = "free"
     THEN Leave(j)
     ELSE Goto(j, After(j, job[j].put)) /\ UNCHANGED mutex
  /\ UNCHANGED <<sent, mail, queue, unacked, warm, history>>

-----------------------------------------------------------------------------
\* process: the job goes to a pool thread, which starts the body.
Dispatch(j) ==
  /\ job[j].pc = "dispatch"
  /\ Goto(j, "running")
  /\ runs' = [runs EXCEPT ![job[j].tag] = @ + 1]
  /\ UNCHANGED <<broker, result, warm, faults, done, exposed, doubled>>

\* execute and finish, Returned.
Returned(j) ==
  /\ job[j].pc = "running"
  /\ Store(j, "SUCCESS", FALSE)
  /\ UNCHANGED <<broker, result, warm, faults, history>>

\* Raised without a retry left, or TimedOut.
Failed(j) ==
  /\ job[j].pc = "running"
  /\ Store(j, "FAILURE", FALSE)
  /\ UNCHANGED <<broker, result, warm, faults, history>>

\* mutant: the retries are not counted
RaisedAgain(j) ==
  /\ job[j].pc = "running"
  /\ Room /\ TaskOf(job[j].tag) \in Retried
  /\ job' = [job EXCEPT ![j].pc = "retry", ![j].permit = FALSE]
  /\ UNCHANGED <<broker, result, warm, faults, history>>

\* Raised, with a retry left.
Raised(j) ==
  /\ job[j].pc = "running"
  /\ Room /\ TaskOf(job[j].tag) \in Retried /\ mail[job[j].tag].retries < MaxRetries
  /\ job' = [job EXCEPT ![j].pc = "retry", ![j].permit = FALSE]
  /\ UNCHANGED <<broker, result, warm, faults, history>>

\* The retry is published before the message is acknowledged; FAILURE when it cannot be.
Retry(j) ==
  /\ job[j].pc = "retry"
  /\ \/ /\ Push(TaskOf(job[j].tag), mail[job[j].tag].retries + 1)
        /\ Store(j, "RETRY", FALSE)
        /\ UNCHANGED faults
     \/ /\ Fault
        /\ Store(j, "FAILURE", FALSE)
        /\ UNCHANGED <<sent, mail, queue>>
  /\ UNCHANGED <<unacked, mutex, result, warm, history>>

\* Lost: the body panicked or its pool thread is gone.
Lost(j) ==
  /\ job[j].pc = "running"
  /\ Fault
  /\ IF TaskOf(job[j].tag) \in Late
     THEN job' = [job EXCEPT ![j].pc = "hget", ![j].permit = FALSE]
     ELSE Store(j, "FAILURE", FALSE)
  /\ UNCHANGED <<broker, result, warm, history>>

\* Broker::ack at the end of finish, or of an expired message.
Ack(j) ==
  /\ job[j].pc = "ack"
  /\ \/ unacked' = [unacked EXCEPT ![job[j].tag] = "none"] /\ UNCHANGED faults
     \/ Fault /\ UNCHANGED unacked
  /\ done' = done \cup {job[j].tag}
  /\ Leave(j)
  /\ UNCHANGED <<sent, mail, queue, result, warm, runs, exposed, doubled>>

-----------------------------------------------------------------------------
\* restore_by_tag: HGET of the record; on an error it gives up.
RestoreGet(j) ==
  /\ job[j].pc = "hget"
  /\ \/ /\ job' = [job EXCEPT ![j].seen = unacked[job[j].tag],
                              ![j].pc = IF unacked[job[j].tag] = "none" THEN "blindack" ELSE "script"]
        /\ UNCHANGED <<faults, mutex>>
     \/ Fault /\ Leave(j)
  /\ UNCHANGED <<sent, mail, queue, unacked, result, warm, history>>

\* Live deliveries of a tag.
Held(t) == {j \in Hands : job[j].tag = t}

\* mutants: the record stays, or the copy is not pushed
ScriptCopies(t)  == /\ queue' = [queue EXCEPT ![Copy(t, TRUE)] = @ + 1] /\ UNCHANGED unacked
ScriptRemoves(t) == /\ unacked' = [unacked EXCEPT ![t] = "none"] /\ UNCHANGED queue

\* RESTORE_SCRIPT, when what is stored is what was read: one step of Redis.
Script(t) ==
  /\ unacked' = [unacked EXCEPT ![t] = "none"]
  /\ queue' = [queue EXCEPT ![Copy(t, TRUE)] = @ + 1]

RestoreRun(j) ==
  /\ job[j].pc = "script"
  /\ \/ /\ unacked[job[j].tag] = job[j].seen /\ Script(job[j].tag)
        /\ doubled' = IF Held(job[j].tag) \ {j} = {} THEN doubled ELSE doubled \cup {job[j].tag}
        /\ UNCHANGED faults
     \/ unacked[job[j].tag] # job[j].seen /\ UNCHANGED <<unacked, queue, faults, doubled>>
     \/ Fault /\ UNCHANGED <<unacked, queue, doubled>>
  /\ Leave(j)
  /\ UNCHANGED <<sent, mail, result, warm, runs, done, exposed>>

\* restore_by_tag found no record: it acknowledges the tag, whoever recorded it meanwhile.
RestoreAck(j) ==
  /\ job[j].pc = "blindack"
  /\ \/ /\ unacked' = [unacked EXCEPT ![job[j].tag] = "none"]
        /\ exposed' = IF unacked[job[j].tag] = "none" THEN exposed ELSE exposed \cup {job[j].tag}
        /\ UNCHANGED faults
     \/ Fault /\ UNCHANGED <<unacked, exposed>>
  /\ Leave(j)
  /\ UNCHANGED <<sent, mail, queue, result, warm, runs, done, doubled>>

\* restore_visible: a sweep takes the mutex and lists an old record.  (Its up to ten tags are
\* restored one after another: as many sweeps of one tag that are slow to start.)
Sweep(w, t) ==
  /\ ~warm[w] /\ mutex = "none" /\ job[<<w, "sweep">>].pc = "free"
  /\ unacked[t] # "none"
  /\ \/ Held(t) = {} /\ UNCHANGED faults
     \/ (\E j \in Held(t) : job[j].pc \in {"running", "eta"}) /\ Fault
  /\ mutex' = w
  /\ job' = [job EXCEPT ![<<w, "sweep">>] = [NoJob EXCEPT !.pc = "hget", !.tag = t]]
  /\ UNCHANGED <<sent, mail, queue, unacked, result, warm, history>>

\* The mutex lives for 300 s: it outlives a dead sweep and not a slow one.
MutexExpires ==
  /\ mutex # "none"
  /\ \/ job[<<mutex, "sweep">>].pc = "free" /\ UNCHANGED faults
     \/ job[<<mutex, "sweep">>].pc # "free" /\ Fault
  /\ mutex' = "none"
  /\ UNCHANGED <<sent, mail, queue, unacked, result, warm, job, history>>

-----------------------------------------------------------------------------
\* A process dies, or is shut down cold, and is started again: what it popped and had not yet
\* recorded is gone.
Die(w) ==
  /\ Fault
  /\ \E j \in Jobs : j[1] = w /\ job[j].pc # "free"
  /\ job' = [j \in Jobs |-> IF j[1] = w THEN NoJob ELSE job[j]]
  /\ exposed' = exposed \cup {job[j].tag : j \in {h \in Hands : h[1] = w /\ job[h].pc = "popped"}}
  /\ warm' = [warm EXCEPT ![w] = FALSE]
  /\ UNCHANGED <<broker, result, runs, done, doubled>>

WarmShutdown(w) ==
  /\ Fault /\ ~warm[w]
  /\ warm' = [warm EXCEPT ![w] = TRUE]
  /\ UNCHANGED <<broker, result, job, history>>

\* serve returned once nothing was in hand; the process is started again.
Restart(w) ==
  /\ warm[w] /\ \A j \in Jobs : j[1] = w => job[j].pc = "free"
  /\ warm' = [warm EXCEPT ![w] = FALSE]
  /\ UNCHANGED <<broker, result, job, faults, history>>

Deliver(j) ==
  \/ Append(j) \/ Refuse(j) \/ AwaitEta(j) \/ EndEta(j) \/ Expire(j) \/ Begin(j) \/ EarlyAck(j)
  \/ StoreGet(j) \/ StoreSet(j) \/ Dispatch(j) \/ Returned(j) \/ Failed(j) \/ Raised(j)
  \/ Retry(j) \/ Lost(j) \/ Ack(j)
Restore(j) == RestoreGet(j) \/ RestoreRun(j) \/ RestoreAck(j)

Next ==
  \/ \E k \in Tasks : Publish(k)
  \/ \E j \in Hands : Deliver(j) \/ \E c \in Copies : Pop(j, c)
  \/ \E j \in Jobs : Restore(j)
  \/ \E w \in Workers : Die(w) \/ WarmShutdown(w) \/ Restart(w) \/ \E t \in Tags : Sweep(w, t)
  \/ MutexExpires

Spec == Init /\ [][Next]_vars

(* Every process keeps polling and every command it issued returns; a body ends (a retry is not  *)
(* forced); a dead sweep's mutex expires; a stopped process is started again.  The lists are     *)
(* popped in order, so a copy that is offered again and again is taken.                          *)
Fairness ==
  /\ \A j \in Hands : WF_vars(Deliver(j))
  /\ \A j \in Jobs : WF_vars(Restore(j))
  /\ WF_vars(\E j \in Hands, c \in Copies : Pop(j, c))
  /\ WF_vars(\E w \in Workers, t \in Tags : Sweep(w, t))
  /\ WF_vars(MutexExpires)
  /\ \A w \in Workers : WF_vars(Restart(w))

FairSpec == Spec /\ Fairness

-----------------------------------------------------------------------------
(* Every variable holds a value of its type, and what is in hand is of a published message.      *)
TypeOK ==
  /\ sent \in 0 .. MaxTags
  /\ mail \in [Tags -> [task : Tasks, retries : 0 .. MaxRetries]]
  /\ queue \in [Copies -> Nat]
  /\ unacked \in [Tags -> Stored]
  /\ mutex \in Workers \cup {"none"}
  /\ result \in [Tasks -> States]
  /\ warm \in [Workers -> BOOLEAN]
  /\ job \in [Jobs -> Job]
  /\ \A j \in Jobs : job[j].pc # "free" => job[j].tag \in 1 .. sent
  /\ faults \in 0 .. MaxFaults
  /\ runs \in [Tags -> Nat]
  /\ done \subseteq Tags /\ exposed \subseteq Tags /\ doubled \subseteq Tags

Queued(t) == {c \in Copies : c.tag = t /\ queue[c] > 0}
Popped(t) == {j \in Hands : job[j].tag = t /\ job[j].pc = "popped"}

(* However often processes restore a message at the same time, it is in one place: one copy in   *)
(* the lists, or one record, or one process about to record it, never two of these.              *)
OneToken ==
  \A t \in Tags :
    /\ \A c \in Copies : queue[c] \in {0, 1}
    /\ \A c, d \in Queued(t) : c = d
    /\ \A i, j \in Popped(t) : i = j
    /\ Queued(t) # {} => Popped(t) = {} /\ unacked[t] = "none"
    /\ Popped(t) # {} => unacked[t] = "none"

(* A published message stays queued or recorded until a delivery of it was settled, whatever     *)
(* dies, panics, stops or is redelivered meanwhile; the exceptions are the windows `exposed`     *)
(* names (a pop that was not recorded, an acknowledgement of a record somebody else just made).  *)
KeptUntilDone ==
  \A t \in 1 .. sent : t \notin done \cup exposed =>
    Queued(t) # {} \/ Popped(t) # {} \/ unacked[t] # "none"

(* A task without acks_late is started at most once: a process that dies or panics in its body   *)
(* does not bring the minute back; the exceptions are a failed early acknowledgement and a sweep *)
(* that restored the record while it was in hand.                                                *)
EarlyRunsOnce ==
  \A t \in 1 .. sent : TaskOf(t) \notin Late /\ t \notin exposed \cup doubled => runs[t] <= 1

(* Every published message, retries included, is settled in the end, or fell into a window.      *)
EverythingSettles ==
  \A t \in Tags : (sent >= t) ~> (t \in done \cup exposed)
=============================================================================
