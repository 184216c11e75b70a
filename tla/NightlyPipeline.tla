-------------------------- MODULE NightlyPipeline ---------------------------
(***************************************************************************)
(* The nightly chain and its bookkeeping (baskfy-worker: nightly.rs,       *)
(* ops.rs, orchestrator.rs, steps.rs, steps/gate/publish.rs, catch_up.rs,  *)
(* tasks/pipeline.rs, tasks/ops_alerts/checks.rs): who runs which trading  *)
(* day, the pipeline_run rows, the chain's lock, what is published under   *)
(* which data_version, and the screen cache the API reads.                 *)
(*                                                                         *)
(* A step is a SQL statement whose effect others see, a commit, or a cache *)
(* command.  PostgreSQL runs READ COMMITTED: a statement sees what was     *)
(* committed before it, an UPDATE waits for a row another transaction      *)
(* changed and then changes only the columns it names.  The chain's own    *)
(* transaction is invisible until it commits and leaves nothing when it    *)
(* raises or its process dies, except in the cache.                        *)
(***************************************************************************)
EXTENDS Integers, FiniteSets

CONSTANTS
  Procs,        \* worker processes that may run the chain
  Days,         \* trade dates of the look-back window, as integers
  Derived,      \* those the calendar only guesses are sessions
  Traded,       \* those NSE published a bhavcopy for
  MaxSessions,  \* days one catch-up runs
  MaxRuns,      \* bound: rows of pipeline_run
  MaxVersions,  \* bound: data versions
  MaxFaults     \* bound: deaths, raised steps, cache failures, overlapping starts, slow chains

ASSUME NightlyAssumption ==
  /\ Days \subseteq Nat /\ Days # {} /\ IsFiniteSet(Days) /\ Derived \subseteq Days /\ Traded \subseteq Days
  /\ MaxSessions \in Nat \ {0} /\ MaxRuns \in Nat /\ MaxVersions \in Nat
  /\ MaxFaults \in Nat
  /\ "none" \notin Procs

VARIABLES
  trading,     \* the calendar: is_trading_day
  rows, run,   \* pipeline_run: rows inserted, and the rows (gate: its data_quality_gate step)
  lock,        \* the chain's advisory lock
  proc,        \* the processes
  reaping,     \* rows the reaper found abandoned and has not yet updated
  cache,       \* the screen cache by data_version: nothing, figures of the chain that publishes
               \* the version ("own"), or anybody else's
  reader,      \* the data_version an API request computes a screen for, 0 for none
  faults,
  unpurged     \* history: versions published after a purge that failed

store == <<trading, rows, run>>
vars  == <<trading, rows, run, lock, proc, reaping, cache, reader, faults, unpurged>>

Ids      == 1 .. MaxRuns
Versions == 1 .. MaxVersions
Status   == {"running", "succeeded", "failed", "aborted"}
Steps    == {"idle", "next", "begin", "insert", "chain", "abort", "steps", "publish", "purge",
             "warm", "post", "fail", "failing", "probe"}
Row      == [day : Days, status : Status, version : Nat, gate : {"none", "passed", "failed"}]
Proc     == [pc : Steps, day : Days, id : Nat, version : Nat,
             sweep : BOOLEAN, todo : SUBSET Days]
SomeDay  == CHOOSE d \in Days : TRUE
Idle     == [pc |-> "idle", day |-> SomeDay, id |-> 0, version |-> 0,
             sweep |-> FALSE, todo |-> {}]

Rows == 1 .. rows
\* current_data_version: the highest version of a committed row.
Current == CHOOSE v \in {run[i].version : i \in Rows} \cup {0} :
             \A i \in Rows : run[i].version <= v

\* landed_sessions and gate_refused_sessions.
Landed(d)  == \E i \in Rows : run[i].day = d /\ run[i].version > 0
Refused(d) == \E i \in Rows : run[i].day = d /\ run[i].version = 0 /\ run[i].gate = "failed"
\* unlanded_sessions (every day of the window has had time to publish).
Missing    == {d \in Days : trading[d] /\ ~Landed(d) /\ ~Refused(d)}
\* split_sweep: the oldest of them.
Oldest(S)  == {d \in S : Cardinality({e \in S : e < d}) < MaxSessions}

\* The row a transaction has changed and not committed: publish's.
Locked(i) == \E q \in Procs : proc[q].pc \in {"purge", "warm", "post"} /\ proc[q].id = i

Init ==
  /\ trading = [d \in Days |-> TRUE]
  /\ rows = 0
  /\ run = [i \in Ids |-> [day |-> SomeDay, status |-> "running", version |-> 0, gate |-> "none"]]
  /\ lock = "none"
  /\ proc = [p \in Procs |-> Idle]
  /\ reaping = {}
  /\ cache = [v \in Versions |-> "none"]
  /\ reader = 0
  /\ faults = 0
  /\ unpurged = {}

-----------------------------------------------------------------------------
Goto(p, pc) == proc' = [proc EXCEPT ![p].pc = pc]
Fault       == faults < MaxFaults /\ faults' = faults + 1

\* A start is expected, or it is one of the faults the instance bounds.
Alone(p) == \A q \in Procs \ {p} : proc[q].pc = "idle"
Start(p, expected) == proc[p].pc = "idle" /\ IF expected THEN UNCHANGED faults ELSE Fault

\* Where a run for `day` leads once it returned without publishing, or having published.
AfterRun(p, published) ==
  proc' = [proc EXCEPT ![p] = IF ~@.sweep THEN Idle
                              ELSE [@ EXCEPT !.pc = IF published THEN "next" ELSE "probe",
                                             !.id = 0, !.version = 0]]
\* A raised error ends the whole task.
GiveUp(p) == proc' = [proc EXCEPT ![p] = Idle]

\* nightly_body, Beat's path: today, if it is a session and has not been published (once a day,
\* more often when the message is redelivered).
Beat(p, d) ==
  /\ Start(p, Alone(p) /\ \A i \in Rows : run[i].day # d)
  /\ trading[d] /\ ~Landed(d)
  /\ proc' = [proc EXCEPT ![p] = [Idle EXCEPT !.pc = "begin", !.day = d]]
  /\ UNCHANGED <<store, lock, reaping, cache, reader, unpurged>>

\* nightly_body with a date: no guard.
Ask(p, d) ==
  /\ proc[p].pc = "idle" /\ Fault
  /\ proc' = [proc EXCEPT ![p] = [Idle EXCEPT !.pc = "begin", !.day = d]]
  /\ UNCHANGED <<store, lock, reaping, cache, reader, unpurged>>

\* session_catch_up lists what never landed, once ...
CatchUp(p) ==
  /\ Start(p, Alone(p))
  /\ Missing # {}
  /\ proc' = [proc EXCEPT ![p] = [Idle EXCEPT !.pc = "next", !.sweep = TRUE,
                                              !.todo = Oldest(Missing)]]
  /\ UNCHANGED <<store, lock, reaping, cache, reader, unpurged>>

\* ... and runs the chain for one day after another, oldest first.
NextDay(p) ==
  /\ proc[p].pc = "next"
  /\ \/ proc[p].todo = {} /\ GiveUp(p)
     \/ \E d \in proc[p].todo :
          /\ \A e \in proc[p].todo : d <= e
          /\ proc' = [proc EXCEPT ![p].pc = "begin", ![p].day = d, ![p].todo = @ \ {d}]
  /\ UNCHANGED <<store, lock, reaping, cache, reader, faults, unpurged>>

\* begin_run: the latest running row of the day is taken over ...
BeginRun(p) ==
  /\ proc[p].pc = "begin"
  /\ LET open == {i \in Rows : run[i].day = proc[p].day /\ run[i].status = "running"}
     IN  \/ open = {} /\ Goto(p, "insert")
         \/ \E i \in open : /\ \A j \in open : j <= i
                            /\ proc' = [proc EXCEPT ![p].pc = "chain", ![p].id = i]
  /\ UNCHANGED <<store, lock, reaping, cache, reader, faults, unpurged>>

\* mutant: the id of the inserted row is not kept
InsertRunForgets(p) ==
  /\ proc[p].pc = "insert" /\ rows < MaxRuns
  /\ rows' = rows + 1
  /\ run' = [run EXCEPT ![rows + 1] = [day |-> proc[p].day, status |-> "running",
                                       version |-> 0, gate |-> "none"]]
  /\ Goto(p, "chain")
  /\ UNCHANGED <<trading, lock, reaping, cache, reader, faults, unpurged>>

\* ... or a row is inserted, in the same transaction but a statement later.
InsertRun(p) ==
  /\ proc[p].pc = "insert" /\ rows < MaxRuns
  /\ rows' = rows + 1
  /\ run' = [run EXCEPT ![rows + 1] = [day |-> proc[p].day, status |-> "running",
                                       version |-> 0, gate |-> "none"]]
  /\ proc' = [proc EXCEPT ![p].pc = "chain", ![p].id = rows + 1]
  /\ UNCHANGED <<trading, lock, reaping, cache, reader, faults, unpurged>>

\* run_nightly_pipeline: not a session, or the lock is taken (a try, never a wait): the run is
\* aborted; otherwise the chain starts on the row, whatever the row's status is by now.
StartChain(p) ==
  /\ proc[p].pc = "chain"
  /\ \/ /\ ~trading[proc[p].day] \/ lock # "none"
        /\ Goto(p, "abort") /\ UNCHANGED lock
     \/ /\ trading[proc[p].day] /\ lock = "none"
        /\ lock' = p /\ Goto(p, "steps")
  /\ UNCHANGED <<store, reaping, cache, reader, faults, unpurged>>

\* mutant: the row as it was adopted is written back whole
CloseRunWhole(i, status) == [run[i] EXCEPT !.status = status, !.version = 0]

\* close_run without a version: the status alone.
CloseRun(i, status) == [run[i] EXCEPT !.status = status]

\* The aborted run's transaction: it waits for the row, closes it and commits.
Abort(p) ==
  /\ proc[p].pc = "abort" /\ ~Locked(proc[p].id)
  /\ run' = [run EXCEPT ![proc[p].id] = CloseRun(proc[p].id, "aborted")]
  /\ AfterRun(p, FALSE)
  /\ UNCHANGED <<trading, rows, lock, reaping, cache, reader, faults, unpurged>>

-----------------------------------------------------------------------------
\* run_chain: the gate refuses; the row is closed and everything the chain wrote is committed.
GateRefuses(p) ==
  /\ proc[p].pc = "steps"
  /\ run' = [run EXCEPT ![proc[p].id] = [CloseRun(proc[p].id, "failed") EXCEPT !.gate = "failed"]]
  /\ lock' = "none"
  /\ AfterRun(p, FALSE)
  /\ UNCHANGED <<trading, rows, reaping, cache, reader, faults, unpurged>>

\* The gate passes; the steps before it cannot end well for a day NSE did not publish.
GatePasses(p) ==
  /\ proc[p].pc = "steps" /\ proc[p].day \in Traded
  /\ Goto(p, "publish")
  /\ UNCHANGED <<store, lock, reaping, cache, reader, faults, unpurged>>

\* mutant: the version counts the days that landed
NewVersionCounts(p) == Cardinality({d \in Days : Landed(d)}) + 1

\* next_data_version, read by the chain's own transaction.
NewVersion(p) == Current + 1

\* run_publish: the version is taken and the row changed, uncommitted.
Publish(p) ==
  /\ proc[p].pc = "publish" /\ NewVersion(p) \in Versions
  /\ proc' = [proc EXCEPT ![p].pc = "purge", ![p].version = NewVersion(p)]
  /\ UNCHANGED <<store, lock, reaping, cache, reader, faults, unpurged>>

\* mutant: only the entries of the version being replaced are deleted
PurgeCurrent(p) ==
  /\ proc[p].pc = "purge"
  /\ cache' = [v \in Versions |-> IF v = Current THEN "none" ELSE cache[v]]
  /\ Goto(p, "warm")
  /\ UNCHANGED <<store, lock, reaping, reader, faults, unpurged>>

\* purge: every screen:* key, or a note that the cache could not be reached.
Purge(p) ==
  /\ proc[p].pc = "purge"
  /\ \/ /\ cache' = [v \in Versions |-> "none"]
        /\ unpurged' = unpurged \ {proc[p].version}
        /\ UNCHANGED faults
     \/ Fault /\ unpurged' = unpurged \cup {proc[p].version} /\ UNCHANGED cache
  /\ Goto(p, "warm")
  /\ UNCHANGED <<store, lock, reaping, reader>>

\* warm_screen_cache: the chain's own connection sees the new version; an entry that is there
\* is left alone; a cache failure is noted.
Warm(p) ==
  /\ proc[p].pc = "warm"
  /\ \/ /\ cache' = [cache EXCEPT ![proc[p].version] = IF @ = "none" THEN "own" ELSE @]
        /\ UNCHANGED faults
     \/ Fault /\ UNCHANGED cache
  /\ Goto(p, "post")
  /\ UNCHANGED <<store, lock, reaping, reader, unpurged>>

\* The steps after publish, which cannot refuse, and the commit.
Commit(p) ==
  /\ proc[p].pc = "post"
  /\ run' = [run EXCEPT ![proc[p].id] = [@ EXCEPT !.status = "succeeded", !.gate = "passed",
                                                   !.version = proc[p].version]]
  /\ lock' = "none"
  /\ AfterRun(p, TRUE)
  /\ UNCHANGED <<trading, rows, reaping, cache, reader, faults, unpurged>>

\* mutant: the lock outlives the transaction
RollBackHeld(p) ==
  /\ UNCHANGED lock
  /\ cache' = [v \in Versions |-> IF v = proc[p].version /\ cache[v] = "own" THEN "other"
                                 ELSE cache[v]]

\* The chain's transaction is rolled back: what it put in the cache stays, and is nobody's.
RollBack(p) ==
  /\ lock' = IF lock = p THEN "none" ELSE lock
  /\ cache' = [v \in Versions |-> IF v = proc[p].version /\ cache[v] = "own" THEN "other"
                                 ELSE cache[v]]

\* A step raises.
Raise(p) ==
  /\ proc[p].pc \in {"steps", "publish", "warm", "post"} /\ Fault
  /\ RollBack(p)
  /\ proc' = [proc EXCEPT ![p].pc = "fail", ![p].version = 0]
  /\ UNCHANGED <<store, reaping, reader, unpurged>>

\* fail_run reads the status, and a statement later fails the run if it was still running.
FailRead(p) ==
  /\ proc[p].pc = "fail"
  /\ IF run[proc[p].id].status = "running" THEN Goto(p, "failing") ELSE GiveUp(p)
  /\ UNCHANGED <<store, lock, reaping, cache, reader, faults, unpurged>>

FailRun(p) ==
  /\ proc[p].pc = "failing" /\ ~Locked(proc[p].id)
  /\ run' = [run EXCEPT ![proc[p].id].status = "failed"]
  /\ GiveUp(p)
  /\ UNCHANGED <<trading, rows, lock, reaping, cache, reader, faults, unpurged>>

\* probe_and_demote, after a chain of the sweep that did not publish.
Probe(p) ==
  /\ proc[p].pc = "probe"
  /\ trading' = IF proc[p].day \in Derived \ Traded
                THEN [trading EXCEPT ![proc[p].day] = FALSE] ELSE trading
  /\ Goto(p, "next")
  /\ UNCHANGED <<rows, run, lock, reaping, cache, reader, faults, unpurged>>

\* The process dies; PostgreSQL rolls its transaction back.
Die(p) ==
  /\ proc[p].pc # "idle" /\ Fault
  /\ RollBack(p)
  /\ GiveUp(p)
  /\ UNCHANGED <<store, reaping, reader, unpurged>>

-----------------------------------------------------------------------------
\* A process still works on the row.
Owned(i) == \E p \in Procs : proc[p].id = i /\ proc[p].pc # "idle"

\* mutant: only a day's latest run is looked at
ReapListLatest ==
  /\ reaping = {}
  /\ \E i \in Rows :
       /\ run[i].status = "running" /\ \A j \in Rows : run[j].day = run[i].day => j <= i
       /\ IF Owned(i) THEN Fault ELSE UNCHANGED faults
       /\ reaping' = {i}
  /\ UNCHANGED <<store, lock, proc, cache, reader, unpurged>>

\* reap_abandoned_runs lists the runs that have been running too long (one of a live chain
\* only when that chain is slow) ...
ReapList ==
  /\ reaping = {}
  /\ \E i \in Rows :
       /\ run[i].status = "running"
       /\ IF Owned(i) THEN Fault ELSE UNCHANGED faults
       /\ reaping' = {i}
  /\ UNCHANGED <<store, lock, proc, cache, reader, unpurged>>

\* ... and fails each by its id.
Reap ==
  /\ \E i \in reaping :
       /\ ~Locked(i)
       /\ run' = [run EXCEPT ![i].status = "failed"]
       /\ reaping' = reaping \ {i}
  /\ UNCHANGED <<trading, rows, lock, proc, cache, reader, faults, unpurged>>

\* run_screen for an API request: it reads the version, and finding nothing cached ...
ScreenBegin ==
  /\ reader = 0 /\ Current > 0 /\ cache[Current] = "none"
  /\ reader' = Current
  /\ UNCHANGED <<store, lock, proc, reaping, cache, faults, unpurged>>

\* ... computes from what is committed by then and stores it under that version.
ScreenEnd ==
  /\ reader # 0
  /\ cache' = [cache EXCEPT ![reader] = IF reader = Current THEN "own" ELSE "other"]
  /\ reader' = 0
  /\ UNCHANGED <<store, lock, proc, reaping, faults, unpurged>>

Work(p) ==
  \/ NextDay(p) \/ BeginRun(p) \/ InsertRun(p) \/ StartChain(p) \/ Abort(p) \/ GateRefuses(p)
  \/ GatePasses(p) \/ Publish(p) \/ Purge(p) \/ Warm(p) \/ Commit(p) \/ Raise(p) \/ FailRead(p)
  \/ FailRun(p) \/ Probe(p)

Next ==
  \/ \E p \in Procs : Work(p) \/ CatchUp(p) \/ Die(p) \/ \E d \in Days : Beat(p, d) \/ Ask(p, d)
  \/ ReapList \/ Reap \/ ScreenBegin \/ ScreenEnd

Spec == Init /\ [][Next]_vars

(* A process that started goes on (its statements return, its lock waits end); Beat fires the    *)
(* catch-up and the reaper again and again.                                                      *)
Fairness ==
  /\ \A p \in Procs : WF_vars(Work(p))
  /\ SF_vars(\E p \in Procs : CatchUp(p))
  /\ WF_vars(ReapList) /\ WF_vars(Reap)

FairSpec == Spec /\ Fairness

-----------------------------------------------------------------------------
(* Every variable holds a value of its type, and a process past begin_run works on a real row.   *)
TypeOK ==
  /\ trading \in [Days -> BOOLEAN]
  /\ rows \in 0 .. MaxRuns
  /\ run \in [Ids -> Row]
  /\ lock \in Procs \cup {"none"}
  /\ proc \in [Procs -> Proc]
  /\ \A p \in Procs : proc[p].pc \notin {"idle", "next", "begin", "insert", "probe"} =>
                       proc[p].id \in Rows
  /\ reaping \subseteq Rows
  /\ cache \in [Versions -> {"none", "own", "other"}]
  /\ reader \in Versions \cup {0}
  /\ faults \in 0 .. MaxFaults
  /\ unpurged \subseteq Versions

(* However many processes run days at once, share rows and lose the lock, no two runs ever carry *)
(* the same data_version.                                                                        *)
VersionsUnique ==
  \A i, j \in Rows : i # j /\ run[i].version > 0 => run[i].version # run[j].version

(* The current data_version never falls and grows by one at a time, and a day that landed stays  *)
(* landed: an abort, a failure or the reaper never takes a publication back.                     *)
PublishedForGood ==
  [][/\ Current' \in {Current, Current + 1}
     /\ \A d \in Days : Landed(d) => Landed(d)']_vars

(* What the API serves from the cache under the current data_version are the figures of the      *)
(* chain that published it, although a chain warms the cache before it commits and may then be   *)
(* rolled back; versions published after a failed purge are excepted.                            *)
ServedIsPublished ==
  Current > 0 /\ Current \notin unpurged => cache[Current] # "other"

(* Every session of the window is landed, refused by the gate, or demoted in the end.            *)
EverySessionDecided ==
  \A d \in Days : <>(Landed(d) \/ Refused(d) \/ ~trading[d])

(* No row stays `running` for ever.                                                              *)
EveryRunEnds ==
  \A i \in Ids : (i \in Rows /\ run[i].status = "running") ~> (run[i].status # "running")
=============================================================================
