----------------------- MODULE NightlyPipelineProofs ------------------------
(***************************************************************************)
(* Proofs about NightlyPipeline, for any number of processes, days, rows,  *)
(* versions and faults: type correctness; no data_version is given twice;  *)
(* a publication is for good; and what is served under the current version *)
(* are the figures of the chain that published it.                         *)
(***************************************************************************)
EXTENDS NightlyPipeline, TLAPS

Chain   == {"steps", "publish", "purge", "warm", "post"}
Writing == {"purge", "warm", "post"}

\* v is the highest version of a committed row.
IsCurrent(v) ==
  /\ v \in Nat
  /\ v = 0 \/ \E i \in Rows : run[i].version = v
  /\ \A i \in Rows : run[i].version <= v

\* The chain's lock excludes every other chain.
Holder == \A p \in Procs : proc[p].pc \in Chain => lock = p

\* A chain that took a version took the one after the current one, and still has it to itself.
Pending ==
  \A p \in Procs :
    /\ proc[p].pc \in Writing => proc[p].version = Current + 1 /\ proc[p].version \in Versions
    /\ proc[p].pc \notin Writing => proc[p].version = 0

\* There is a current version, and it is within the bound.
HasCurrent == IsCurrent(Current) /\ Current \in Versions \cup {0}

\* A request stores its screen under a version that was current.
ReaderOld == reader <= Current

\* What the chain finds or puts under its version is its own, once the purge went through.
Warmed ==
  \A p \in Procs : proc[p].pc \in {"warm", "post"} /\ proc[p].version \notin unpurged =>
                     cache[proc[p].version] # "other"

ChainInv == TypeOK /\ Holder /\ Pending /\ HasCurrent /\ VersionsUnique
NightInv == ChainInv /\ ReaderOld /\ Warmed /\ ServedIsPublished

-----------------------------------------------------------------------------
NoRow == {"idle", "next", "begin", "insert", "probe"}

\* TypeOK in two parts.
ProcsOK ==
  /\ proc \in [Procs -> Proc]
  /\ \A p \in Procs : proc[p].pc \notin NoRow => proc[p].id \in Rows
RestOK ==
  /\ trading \in [Days -> BOOLEAN]
  /\ rows \in 0 .. MaxRuns
  /\ run \in [Ids -> Row]
  /\ lock \in Procs \cup {"none"}
  /\ reaping \subseteq Rows
  /\ cache \in [Versions -> {"none", "own", "other"}]
  /\ reader \in Versions \cup {0}
  /\ faults \in 0 .. MaxFaults
  /\ unpurged \subseteq Versions

LEMMA TwoParts ==
  /\ TypeOK <=> ProcsOK /\ RestOK
  /\ TypeOK' <=> ProcsOK' /\ RestOK'
  BY DEF TypeOK, ProcsOK, RestOK, NoRow

(* The current version.                                                                          *)
LEMMA HighestIs ==
  ASSUME NEW f, NEW n, NEW v \in Nat, \A i \in 1 .. n : f[i].version \in Nat,
         v = 0 \/ \E i \in 1 .. n : f[i].version = v,
         \A i \in 1 .. n : f[i].version <= v
  PROVE  v = CHOOSE u \in {f[i].version : i \in 1 .. n} \cup {0} : \A i \in 1 .. n : f[i].version <= u
<1> DEFINE S == {f[i].version : i \in 1 .. n} \cup {0}
           P(u) == \A i \in 1 .. n : f[i].version <= u
<1>1. v \in S /\ P(v)
  OBVIOUS
<1>2. \A u \in S : P(u) => u = v
  <2> SUFFICES ASSUME NEW u \in S, P(u) PROVE u = v
    OBVIOUS
  <2>1. u \in Nat /\ u <= v
    OBVIOUS
  <2>2. v <= u
    BY <2>1
  <2> QED
    BY <2>1, <2>2
<1> HIDE DEF S, P
<1>3. v = CHOOSE u \in S : P(u)
  <2> DEFINE w == CHOOSE u \in S : P(u)
  <2>1. w \in S /\ P(w)
    BY <1>1
  <2> QED
    BY <1>2, <2>1
<1> QED
  BY <1>3 DEF S, P

LEMMA CurrentIs ==
  ASSUME TypeOK, NEW v, IsCurrent(v)
  PROVE  Current = v
<1>1. \A i \in 1 .. rows : run[i].version \in Nat
  BY NightlyAssumption DEF TypeOK, Ids, Row
<1>2. v \in Nat /\ (v = 0 \/ \E i \in 1 .. rows : run[i].version = v) /\ \A i \in 1 .. rows : run[i].version <= v
  BY DEF IsCurrent, Rows
<1> QED
  BY <1>1, <1>2, HighestIs DEF Current, Rows

LEMMA CurrentIsNext ==
  ASSUME RestOK', NEW v, IsCurrent(v)'
  PROVE  Current' = v
<1>1. \A i \in 1 .. rows' : run'[i].version \in Nat
  BY NightlyAssumption DEF RestOK, Ids, Row
<1>2. v \in Nat /\ (v = 0 \/ \E i \in 1 .. rows' : run'[i].version = v) /\ \A i \in 1 .. rows' : run'[i].version <= v
  BY DEF IsCurrent, Rows
<1> QED
  BY <1>1, <1>2, HighestIs DEF Current, Rows

\* A step that changes no version.
SameVersions == rows' = rows /\ \A i \in Rows : run'[i].version = run[i].version

LEMMA CurrentStays ==
  ASSUME RestOK', HasCurrent, SameVersions
  PROVE  Current' = Current /\ HasCurrent'
<1> PICK v : v = Current
  OBVIOUS
<1>1. IsCurrent(v)'
  BY DEF HasCurrent, IsCurrent, SameVersions, Rows
<1>2. Current' = v
  BY <1>1, CurrentIsNext
<1> QED
  BY <1>1, <1>2 DEF HasCurrent, Versions

-----------------------------------------------------------------------------
LEMMA IdleTyped == Idle \in Proc /\ Idle.pc = "idle" /\ Idle.version = 0 /\ Idle.id = 0 /\ SomeDay \in Days
<1>1. SomeDay \in Days
  BY NightlyAssumption DEF SomeDay
<1> QED
  BY <1>1 DEF Idle, Proc, Steps

LEMMA Used ==
  ASSUME TypeOK
  PROVE  /\ rows \in Nat /\ rows <= MaxRuns /\ MaxRuns \in Nat /\ Rows \subseteq Ids
         /\ \A i \in Rows : run[i] \in Row
         /\ Fault => faults' \in 0 .. MaxFaults
<1>1. rows \in Nat /\ rows <= MaxRuns /\ MaxRuns \in Nat /\ Rows \subseteq Ids
  BY NightlyAssumption DEF TypeOK, Rows, Ids
<1>2. Fault => faults' \in 0 .. MaxFaults
  BY NightlyAssumption DEF TypeOK, Fault
<1> QED
  BY <1>1, <1>2 DEF TypeOK

\* What a step of one process leaves of the parts that are about the processes: it may take the
\* lock when it is free and give it back, and only its holder moves the current version.
LEMMA MoveKeeps ==
  ASSUME ChainInv, NEW p \in Procs, NEW x \in Proc, proc' = [proc EXCEPT ![p] = x],
         rows' \in Nat, rows <= rows', x.pc \notin NoRow => x.id \in 1 .. rows',
         lock' = lock \/ lock \in {p, "none"}, x.pc \in Chain => lock' = p,
         Current' = Current \/ lock = p,
         x.pc \in Writing => x.version = Current' + 1 /\ x.version \in Versions,
         x.pc \notin Writing => x.version = 0
  PROVE  ProcsOK' /\ Holder' /\ Pending'
<1>1. proc' \in [Procs -> Proc] /\ proc'[p] = x /\ \A q \in Procs : q # p => proc'[q] = proc[q]
  BY DEF ChainInv, TypeOK
<1>2. Rows \subseteq 1 .. rows'
  BY Used DEF ChainInv, Rows
<1>3. ProcsOK'
  BY <1>1, <1>2 DEF ChainInv, TypeOK, ProcsOK, NoRow, Rows
<1>4. \A q \in Procs : q # p /\ proc[q].pc \in Chain => lock = q /\ lock' = lock /\ lock # p
  BY NightlyAssumption DEF ChainInv, Holder
<1>5. Holder'
  BY <1>1, <1>4 DEF Holder
<1>6. Writing \subseteq Chain
  BY DEF Writing, Chain
<1>7. Pending'
  <2> SUFFICES ASSUME NEW q \in Procs
               PROVE  /\ proc'[q].pc \in Writing => proc'[q].version = Current' + 1 /\ proc'[q].version \in Versions
                      /\ proc'[q].pc \notin Writing => proc'[q].version = 0
    BY DEF Pending, Versions
  <2>1. CASE q = p
    BY <1>1, <2>1
  <2>2. CASE q # p
    BY <1>1, <1>4, <1>6, <2>2 DEF ChainInv, Pending
  <2> QED
    BY <2>1, <2>2
<1> QED
  BY <1>3, <1>5, <1>7

\* A step that leaves rows and versions alone.
LEMMA QuietKeeps ==
  ASSUME ChainInv, RestOK', UNCHANGED <<rows, run>>, NEW p \in Procs, NEW x \in Proc,
         proc' = [proc EXCEPT ![p] = x],
         x.pc \notin NoRow => x.id \in Rows,
         lock' = lock \/ lock \in {p, "none"}, x.pc \in Chain => lock' = p,
         x.pc \in Writing => x.version = Current + 1 /\ x.version \in Versions,
         x.pc \notin Writing => x.version = 0
  PROVE  ChainInv'
<1>1. Current' = Current /\ Rows' = Rows /\ rows \in Nat
  BY Used DEF Current, Rows, ChainInv
<1>2. ProcsOK' /\ Holder' /\ Pending'
  <2>1. rows' \in Nat /\ rows <= rows' /\ (x.pc \notin NoRow => x.id \in 1 .. rows')
    BY <1>1 DEF Rows
  <2> QED
    BY <1>1, <2>1, MoveKeeps
<1>3. HasCurrent' /\ VersionsUnique'
  BY <1>1 DEF ChainInv, HasCurrent, IsCurrent, VersionsUnique, Versions
<1> QED
  BY <1>2, <1>3, TwoParts DEF ChainInv

\* A step that closes a row: its versions stay.
LEMMA ClosingKeeps ==
  ASSUME ChainInv, NEW i \in Rows, NEW s \in Status, NEW g \in {"none", "passed", "failed"},
         run' = [run EXCEPT ![i] = [run[i] EXCEPT !.status = s, !.gate = g]], rows' = rows
  PROVE  run' \in [Ids -> Row] /\ SameVersions /\ \A k \in Rows : run'[k].day = run[k].day
<1>1. i \in Ids /\ run[i] \in Row /\ run \in [Ids -> Row] /\ Rows \subseteq Ids
  BY Used DEF ChainInv, TypeOK
<1>2. [run[i] EXCEPT !.status = s, !.gate = g] \in Row
  BY <1>1 DEF Row
<1> QED
  BY <1>1, <1>2 DEF SameVersions, Row

\* A process that is done with a row it closed.
LEMMA ClosedKeeps ==
  ASSUME ChainInv, RestOK', SameVersions, NEW p \in Procs, NEW x \in Proc,
         proc' = [proc EXCEPT ![p] = x], x.pc \in NoRow, x.version = 0,
         lock' = lock \/ lock = p
  PROVE  ChainInv' /\ Current' = Current
<1>1. Current' = Current /\ HasCurrent'
  BY CurrentStays DEF ChainInv
<1>2. rows' \in Nat /\ rows <= rows'
  BY Used DEF ChainInv, SameVersions
<1>3. ProcsOK' /\ Holder' /\ Pending'
  BY <1>1, <1>2, MoveKeeps DEF NoRow, Chain, Writing
<1>4. VersionsUnique'
  BY DEF ChainInv, VersionsUnique, SameVersions, Rows
<1> QED
  BY <1>1, <1>3, <1>4, TwoParts DEF ChainInv

\* Where AfterRun leaves the process.
LEMMA AfterRunMoves ==
  ASSUME TypeOK, NEW p \in Procs, NEW b \in BOOLEAN, AfterRun(p, b)
  PROVE  \E x \in Proc : /\ proc' = [proc EXCEPT ![p] = x]
                         /\ x.pc \in NoRow /\ x.version = 0
<1> DEFINE x == IF ~proc[p].sweep THEN Idle
                ELSE [proc[p] EXCEPT !.pc = IF b THEN "next" ELSE "probe", !.id = 0, !.version = 0]
<1>1. proc' = [proc EXCEPT ![p] = x]
  BY DEF AfterRun, TypeOK
<1>2. x \in Proc /\ x.pc \in NoRow /\ x.version = 0
  BY IdleTyped DEF TypeOK, Proc, Steps, NoRow
<1> QED
  BY <1>1, <1>2

LEMMA RollBackTyped ==
  ASSUME RestOK, NEW p \in Procs, RollBack(p)
  PROVE  /\ lock' \in Procs \cup {"none"} /\ (lock' = lock \/ lock = p)
         /\ cache' \in [Versions -> {"none", "own", "other"}]
  BY DEF RestOK, RollBack

\* The steps that start a task, choose a day and give up.
LEMMA StartKeeps ==
  ASSUME ChainInv, NEW p \in Procs,
         \/ CatchUp(p) \/ NextDay(p) \/ BeginRun(p) \/ FailRead(p) \/ Die(p) \/ GatePasses(p)
         \/ \E d \in Days : Beat(p, d) \/ Ask(p, d)
  PROVE  ChainInv'
<1> USE DEF store
<1>0. TypeOK /\ RestOK /\ ProcsOK /\ proc[p] \in Proc
  BY TwoParts DEF ChainInv, ProcsOK
<1>1. ASSUME NEW d \in Days, Beat(p, d) \/ Ask(p, d) PROVE ChainInv'
  <2> DEFINE x == [Idle EXCEPT !.pc = "begin", !.day = d]
  <2>1. x \in Proc /\ x.pc = "begin" /\ x.version = 0
    BY IdleTyped DEF Idle, Proc, Steps
  <2>2. /\ proc' = [proc EXCEPT ![p] = x] /\ UNCHANGED <<trading, rows, run, lock, reaping, cache, reader, unpurged>>
        /\ faults' \in 0 .. MaxFaults
    BY <1>0, <1>1, Used DEF Beat, Ask, Start, RestOK
  <2> HIDE DEF x
  <2>3. RestOK'
    BY <1>0, <2>2 DEF RestOK, Rows
  <2> QED
    BY <2>1, <2>2, <2>3, QuietKeeps DEF NoRow, Chain, Writing
<1>2. CASE CatchUp(p)
  <2> DEFINE x == [Idle EXCEPT !.pc = "next", !.sweep = TRUE, !.todo = Oldest(Missing)]
  <2>1. x \in Proc /\ x.pc = "next" /\ x.version = 0
    BY IdleTyped DEF Idle, Proc, Steps, Oldest, Missing
  <2>2. /\ proc' = [proc EXCEPT ![p] = x] /\ UNCHANGED <<trading, rows, run, lock, reaping, cache, reader, unpurged>>
        /\ faults' \in 0 .. MaxFaults
    BY <1>0, <1>2, Used DEF CatchUp, Start, RestOK
  <2> HIDE DEF x
  <2>3. RestOK'
    BY <1>0, <2>2 DEF RestOK, Rows
  <2> QED
    BY <2>1, <2>2, <2>3, QuietKeeps DEF NoRow, Chain, Writing
<1>3. CASE NextDay(p)
  <2>1. RestOK' /\ UNCHANGED <<rows, run, lock>> /\ proc[p].version = 0
    BY <1>0, <1>3 DEF NextDay, RestOK, Rows, ChainInv, Pending, Writing
  <2>2. CASE GiveUp(p)
    BY <2>1, <2>2, IdleTyped, QuietKeeps DEF GiveUp, NoRow, Chain, Writing
  <2>3. CASE ~GiveUp(p)
    <3>1. PICK d \in proc[p].todo :
            proc' = [proc EXCEPT ![p].pc = "begin", ![p].day = d, ![p].todo = @ \ {d}]
      BY <1>3, <2>3 DEF NextDay
    <3> DEFINE x == [proc[p] EXCEPT !.pc = "begin", !.day = d, !.todo = @ \ {d}]
    <3>2. proc' = [proc EXCEPT ![p] = x]
      BY <1>0, <3>1 DEF ProcsOK
    <3>3. x \in Proc /\ x.pc = "begin" /\ x.version = 0
      BY <1>0, <2>1 DEF Proc, Steps
    <3> HIDE DEF x
    <3> QED
      BY <2>1, <3>2, <3>3, QuietKeeps DEF NoRow, Chain, Writing
  <2> QED
    BY <2>2, <2>3
<1>4. CASE BeginRun(p)
  <2>1. RestOK' /\ UNCHANGED <<rows, run, lock>> /\ proc[p].version = 0 /\ proc[p].pc = "begin"
    BY <1>0, <1>4 DEF BeginRun, RestOK, Rows, ChainInv, Pending, Writing
  <2>2. CASE Goto(p, "insert")
    <3> DEFINE x == [proc[p] EXCEPT !.pc = "insert"]
    <3>1. proc' = [proc EXCEPT ![p] = x] /\ x \in Proc /\ x.pc = "insert" /\ x.version = 0
      BY <1>0, <2>1, <2>2 DEF Goto, ProcsOK, Proc, Steps
    <3> HIDE DEF x
    <3> QED
      BY <2>1, <3>1, QuietKeeps DEF NoRow, Chain, Writing
  <2>3. CASE ~Goto(p, "insert")
    <3>1. PICK i \in Rows : proc' = [proc EXCEPT ![p].pc = "chain", ![p].id = i]
      BY <1>4, <2>3 DEF BeginRun
    <3> DEFINE x == [proc[p] EXCEPT !.pc = "chain", !.id = i]
    <3>2. proc' = [proc EXCEPT ![p] = x]
      BY <1>0, <3>1 DEF ProcsOK
    <3>3. i \in Nat
      BY DEF Rows
    <3>4. x \in Proc /\ x.pc = "chain" /\ x.version = 0 /\ x.id = i
      BY <1>0, <2>1, <3>3 DEF Proc, Steps
    <3> HIDE DEF x
    <3> QED
      BY <2>1, <3>2, <3>4, QuietKeeps DEF NoRow, Chain, Writing
  <2> QED
    BY <2>2, <2>3
<1>5. CASE FailRead(p)
  <2>1. RestOK' /\ UNCHANGED <<rows, run, lock>> /\ proc[p].version = 0 /\ proc[p].pc = "fail" /\ proc[p].id \in Rows
    BY <1>0, <1>5 DEF FailRead, RestOK, Rows, ChainInv, Pending, Writing, ProcsOK, NoRow
  <2>2. CASE Goto(p, "failing")
    <3> DEFINE x == [proc[p] EXCEPT !.pc = "failing"]
    <3>1. proc' = [proc EXCEPT ![p] = x] /\ x \in Proc /\ x.pc = "failing" /\ x.version = 0 /\ x.id = proc[p].id
      BY <1>0, <2>1, <2>2 DEF Goto, ProcsOK, Proc, Steps
    <3> HIDE DEF x
    <3> QED
      BY <2>1, <3>1, QuietKeeps DEF NoRow, Chain, Writing
  <2>3. CASE GiveUp(p)
    BY <2>1, <2>3, IdleTyped, QuietKeeps DEF GiveUp, NoRow, Chain, Writing
  <2> QED
    BY <1>5, <2>2, <2>3 DEF FailRead
<1>6. CASE Die(p)
  <2>1. UNCHANGED <<trading, rows, run, reaping, reader, unpurged>> /\ faults' \in 0 .. MaxFaults
        /\ RollBack(p) /\ GiveUp(p)
    BY <1>0, <1>6, Used DEF Die
  <2>2. RestOK'
    BY <1>0, <2>1, RollBackTyped DEF RestOK, Rows
  <2> QED
    BY <1>0, <2>1, <2>2, IdleTyped, QuietKeeps, RollBackTyped DEF GiveUp, NoRow, Chain, Writing
<1>7. CASE GatePasses(p)
  <2> DEFINE x == [proc[p] EXCEPT !.pc = "publish"]
  <2>1. RestOK' /\ UNCHANGED <<rows, run, lock>> /\ proc[p].pc = "steps" /\ lock = p
        /\ proc[p].version = 0 /\ proc[p].id \in Rows
    BY <1>0, <1>7 DEF GatePasses, RestOK, Rows, ChainInv, Pending, Holder, Chain, Writing, ProcsOK, NoRow
  <2>2. proc' = [proc EXCEPT ![p] = x] /\ x \in Proc /\ x.pc = "publish" /\ x.version = 0 /\ x.id = proc[p].id
    BY <1>0, <1>7, <2>1 DEF GatePasses, Goto, ProcsOK, Proc, Steps
  <2> HIDE DEF x
  <2> QED
    BY <2>1, <2>2, QuietKeeps DEF NoRow, Chain, Writing
<1> QED
  BY <1>1, <1>2, <1>3, <1>4, <1>5, <1>6, <1>7

LEMMA GotoMoves ==
  ASSUME TypeOK, NEW p \in Procs, NEW s \in Steps, Goto(p, s)
  PROVE  \E x \in Proc : /\ proc' = [proc EXCEPT ![p] = x]
                         /\ x.pc = s /\ x.version = proc[p].version /\ x.id = proc[p].id
<1> DEFINE x == [proc[p] EXCEPT !.pc = s]
<1>1. proc' = [proc EXCEPT ![p] = x]
  BY DEF Goto, TypeOK
<1>2. x \in Proc /\ x.pc = s /\ x.version = proc[p].version /\ x.id = proc[p].id
  BY DEF TypeOK, Proc
<1> QED
  BY <1>1, <1>2

\* The steps of a chain that change no row.
LEMMA ChainKeeps ==
  ASSUME ChainInv, NEW p \in Procs,
         StartChain(p) \/ Publish(p) \/ Purge(p) \/ Warm(p) \/ Raise(p) \/ Probe(p)
  PROVE  ChainInv'
<1> USE DEF store
<1>0. TypeOK /\ RestOK /\ ProcsOK /\ proc[p] \in Proc
  BY TwoParts DEF ChainInv, ProcsOK
<1>1. CASE StartChain(p)
  <2>1. UNCHANGED <<trading, rows, run, reaping, cache, reader, faults, unpurged>> /\ proc[p].version = 0 /\ proc[p].id \in Rows
    BY <1>0, <1>1 DEF StartChain, ChainInv, Pending, Writing, ProcsOK, NoRow
  <2>2. CASE UNCHANGED lock /\ Goto(p, "abort")
    <3>1. RestOK'
      BY <1>0, <2>1, <2>2 DEF RestOK, Rows
    <3>2. PICK x \in Proc : proc' = [proc EXCEPT ![p] = x] /\ x.pc = "abort" /\ x.version = 0 /\ x.id \in Rows
      BY <1>0, <2>1, <2>2, GotoMoves DEF Steps
    <3> QED
      BY <2>1, <2>2, <3>1, <3>2, QuietKeeps DEF NoRow, Chain, Writing
  <2>3. CASE lock = "none" /\ lock' = p /\ Goto(p, "steps")
    <3>1. RestOK'
      BY <1>0, <2>1, <2>3 DEF RestOK, Rows
    <3>2. PICK x \in Proc : proc' = [proc EXCEPT ![p] = x] /\ x.pc = "steps" /\ x.version = 0 /\ x.id \in Rows
      BY <1>0, <2>1, <2>3, GotoMoves DEF Steps
    <3> QED
      BY <2>1, <2>3, <3>1, <3>2, QuietKeeps DEF NoRow, Chain, Writing
  <2> QED
    BY <1>1, <2>2, <2>3 DEF StartChain
<1>2. CASE Publish(p)
  <2>1. RestOK' /\ UNCHANGED <<rows, run, lock>> /\ proc[p].id \in Rows /\ lock = p
    BY <1>0, <1>2 DEF Publish, RestOK, Rows, ChainInv, Holder, Chain, ProcsOK, NoRow
  <2> PICK v : v = Current + 1
    OBVIOUS
  <2>2. v \in Versions /\ v \in Nat /\ proc' = [proc EXCEPT ![p].pc = "purge", ![p].version = v]
    BY <1>2 DEF Publish, NewVersion, Versions
  <2> DEFINE x == [proc[p] EXCEPT !.pc = "purge", !.version = v]
  <2>3. proc' = [proc EXCEPT ![p] = x]
    BY <1>0, <2>2 DEF ProcsOK
  <2>4. x \in Proc /\ x.pc = "purge" /\ x.version = v /\ x.id = proc[p].id
    BY <1>0, <2>2 DEF Proc, Steps
  <2> HIDE DEF x
  <2> QED
    BY <2>1, <2>2, <2>3, <2>4, QuietKeeps DEF NoRow, Chain, Writing
<1>3. CASE Purge(p)
  <2>1. /\ UNCHANGED <<trading, rows, run, lock, reaping, reader>> /\ proc[p].id \in Rows /\ lock = p
        /\ proc[p].version = Current + 1 /\ proc[p].version \in Versions /\ Goto(p, "warm")
    BY <1>0, <1>3 DEF Purge, ChainInv, Holder, Pending, Chain, Writing, ProcsOK, NoRow
  <2>2. faults' \in 0 .. MaxFaults /\ cache' \in [Versions -> {"none", "own", "other"}] /\ unpurged' \subseteq Versions
    BY <1>0, <1>3, <2>1, Used DEF Purge, RestOK
  <2>3. RestOK'
    BY <1>0, <2>1, <2>2 DEF RestOK, Rows
  <2>4. PICK x \in Proc : proc' = [proc EXCEPT ![p] = x] /\ x.pc = "warm" /\ x.version = proc[p].version /\ x.id = proc[p].id
    BY <1>0, <2>1, GotoMoves DEF Steps
  <2> QED
    BY <2>1, <2>3, <2>4, QuietKeeps DEF NoRow, Chain, Writing
<1>4. CASE Warm(p)
  <2>1. /\ UNCHANGED <<trading, rows, run, lock, reaping, reader, unpurged>> /\ proc[p].id \in Rows /\ lock = p
        /\ proc[p].version = Current + 1 /\ proc[p].version \in Versions /\ Goto(p, "post")
    BY <1>0, <1>4 DEF Warm, ChainInv, Holder, Pending, Chain, Writing, ProcsOK, NoRow
  <2>2. faults' \in 0 .. MaxFaults
    BY <1>0, <1>4, Used DEF Warm, RestOK
  <2>3. cache' \in [Versions -> {"none", "own", "other"}]
    BY <1>0, <1>4 DEF Warm, RestOK
  <2>4. RestOK'
    BY <1>0, <2>1, <2>2, <2>3 DEF RestOK, Rows
  <2>5. PICK x \in Proc : proc' = [proc EXCEPT ![p] = x] /\ x.pc = "post" /\ x.version = proc[p].version /\ x.id = proc[p].id
    BY <1>0, <2>1, GotoMoves DEF Steps
  <2> QED
    BY <2>1, <2>4, <2>5, QuietKeeps DEF NoRow, Chain, Writing
<1>5. CASE Raise(p)
  <2> DEFINE x == [proc[p] EXCEPT !.pc = "fail", !.version = 0]
  <2>1. UNCHANGED <<trading, rows, run, reaping, reader, unpurged>> /\ faults' \in 0 .. MaxFaults
        /\ RollBack(p) /\ proc[p].id \in Rows
    BY <1>0, <1>5, Used DEF Raise, ProcsOK, NoRow
  <2>2. RestOK'
    BY <1>0, <2>1, RollBackTyped DEF RestOK, Rows
  <2>3. proc' = [proc EXCEPT ![p] = x]
    BY <1>0, <1>5 DEF Raise, ProcsOK
  <2>4. x \in Proc /\ x.pc = "fail" /\ x.version = 0 /\ x.id = proc[p].id
    BY <1>0 DEF Proc, Steps
  <2> HIDE DEF x
  <2> QED
    BY <1>0, <2>1, <2>2, <2>3, <2>4, QuietKeeps, RollBackTyped DEF NoRow, Chain, Writing
<1>6. CASE Probe(p)
  <2>1. /\ UNCHANGED <<rows, run, lock, reaping, cache, reader, faults, unpurged>> /\ Goto(p, "next")
        /\ proc[p].version = 0
    BY <1>6 DEF Probe, ChainInv, Pending, Writing
  <2>2. trading' \in [Days -> BOOLEAN]
    BY <1>0, <1>6 DEF Probe, RestOK
  <2>3. RestOK'
    BY <1>0, <2>1, <2>2 DEF RestOK, Rows
  <2>4. PICK x \in Proc : proc' = [proc EXCEPT ![p] = x] /\ x.pc = "next" /\ x.version = 0
    BY <1>0, <2>1, GotoMoves DEF Steps
  <2> QED
    BY <2>1, <2>3, <2>4, QuietKeeps DEF NoRow, Chain, Writing
<1> QED
  BY <1>1, <1>2, <1>3, <1>4, <1>5, <1>6

\* The steps of no process that change no row.
LEMMA AsideKeeps ==
  ASSUME ChainInv, ReapList \/ ScreenBegin \/ ScreenEnd \/ UNCHANGED vars
  PROVE  ChainInv'
<1> USE DEF store, vars
<1>0. TypeOK /\ RestOK /\ ProcsOK
  BY TwoParts DEF ChainInv
<1>1. UNCHANGED <<trading, rows, run, lock, proc, unpurged>> /\ Current' = Current /\ Rows' = Rows
  BY DEF ReapList, ScreenBegin, ScreenEnd, Current, Rows
<1>2. RestOK'
  <2>1. CASE ReapList
    <3>1. faults' \in 0 .. MaxFaults /\ reaping' \subseteq Rows
      BY <1>0, <2>1, Used DEF ReapList, RestOK
    <3> QED
      BY <1>0, <1>1, <2>1, <3>1 DEF RestOK, ReapList
  <2>2. CASE ScreenBegin
    BY <1>0, <1>1, <2>2 DEF RestOK, ScreenBegin, ChainInv, HasCurrent
  <2>3. CASE ScreenEnd
    <3>1. cache' \in [Versions -> {"none", "own", "other"}] /\ reader' = 0
      BY <1>0, <2>3 DEF RestOK, ScreenEnd
    <3> QED
      BY <1>0, <1>1, <2>3, <3>1 DEF RestOK, ScreenEnd
  <2>4. CASE UNCHANGED vars
    BY <1>0, <1>1, <2>4 DEF RestOK
  <2> QED
    BY <2>1, <2>2, <2>3, <2>4
<1>3. ProcsOK' /\ Holder' /\ Pending' /\ HasCurrent' /\ VersionsUnique'
  BY <1>0, <1>1 DEF ChainInv, ProcsOK, Holder, Pending, HasCurrent, IsCurrent, VersionsUnique, Versions
<1> QED
  BY <1>2, <1>3, TwoParts DEF ChainInv

\* The steps that close a row.
LEMMA CloseKeeps ==
  ASSUME ChainInv, NEW p \in Procs, Abort(p) \/ GateRefuses(p) \/ FailRun(p)
  PROVE  ChainInv' /\ Current' = Current
<1>0. TypeOK /\ RestOK /\ ProcsOK /\ proc[p] \in Proc
  BY TwoParts DEF ChainInv, ProcsOK
<1> PICK i : i = proc[p].id
  OBVIOUS
<1>1. /\ i \in Rows /\ run[i] \in Row
      /\ UNCHANGED <<trading, rows, reaping, cache, reader, faults, unpurged>>
      /\ lock' = lock \/ lock = p
      /\ lock' \in {lock, "none"}
  BY <1>0, Used DEF Abort, GateRefuses, FailRun, ProcsOK, NoRow, ChainInv, Holder, Chain
<1>2. \E s \in Status, g \in {"none", "passed", "failed"} :
        run' = [run EXCEPT ![i] = [run[i] EXCEPT !.status = s, !.gate = g]]
  <2>1. CASE Abort(p)
    <3>1. run' = [run EXCEPT ![i] = [run[i] EXCEPT !.status = "aborted"]]
      BY <2>1 DEF Abort, CloseRun
    <3>2. [run[i] EXCEPT !.status = "aborted"] = [run[i] EXCEPT !.status = "aborted", !.gate = run[i].gate]
      BY <1>1 DEF Row
    <3> QED
      BY <1>1, <3>1, <3>2 DEF Row, Status
  <2>2. CASE GateRefuses(p)
    <3>1. run' = [run EXCEPT ![i] = [[run[i] EXCEPT !.status = "failed"] EXCEPT !.gate = "failed"]]
      BY <2>2 DEF GateRefuses, CloseRun
    <3>2. [[run[i] EXCEPT !.status = "failed"] EXCEPT !.gate = "failed"] = [run[i] EXCEPT !.status = "failed", !.gate = "failed"]
      BY <1>1 DEF Row
    <3> QED
      BY <1>1, <3>1, <3>2 DEF Row, Status
  <2>3. CASE FailRun(p)
    <3>1. run' = [run EXCEPT ![i] = [run[i] EXCEPT !.status = "failed"]]
      BY <1>0, <2>3 DEF FailRun, RestOK
    <3>2. [run[i] EXCEPT !.status = "failed"] = [run[i] EXCEPT !.status = "failed", !.gate = run[i].gate]
      BY <1>1 DEF Row
    <3> QED
      BY <1>1, <3>1, <3>2 DEF Row, Status
  <2> QED
    BY <2>1, <2>2, <2>3
<1>3. run' \in [Ids -> Row] /\ SameVersions
  BY <1>1, <1>2, ClosingKeeps
<1>4. RestOK'
  BY <1>0, <1>1, <1>3 DEF RestOK, Rows
<1>5. \E x \in Proc : proc' = [proc EXCEPT ![p] = x] /\ x.pc \in NoRow /\ x.version = 0
  <2>1. CASE AfterRun(p, FALSE)
    BY <1>0, <2>1, AfterRunMoves
  <2>2. CASE GiveUp(p)
    BY <2>2, IdleTyped DEF GiveUp, NoRow
  <2> QED
    BY <2>1, <2>2 DEF Abort, GateRefuses, FailRun
<1> QED
  BY <1>1, <1>3, <1>4, <1>5, ClosedKeeps

LEMMA ReapKeeps ==
  ASSUME ChainInv, Reap
  PROVE  ChainInv' /\ Current' = Current
<1>0. TypeOK /\ RestOK /\ ProcsOK
  BY TwoParts DEF ChainInv
<1>1. PICK i \in reaping : run' = [run EXCEPT ![i].status = "failed"] /\ reaping' = reaping \ {i}
  BY DEF Reap
<1>2. i \in Rows /\ run[i] \in Row /\ UNCHANGED <<trading, rows, lock, proc, cache, reader, faults, unpurged>>
  BY <1>0, Used DEF Reap, RestOK
<1>3. run' = [run EXCEPT ![i] = [run[i] EXCEPT !.status = "failed", !.gate = run[i].gate]]
  <2>1. run' = [run EXCEPT ![i] = [run[i] EXCEPT !.status = "failed"]]
    BY <1>0, <1>1 DEF RestOK
  <2>2. [run[i] EXCEPT !.status = "failed"] = [run[i] EXCEPT !.status = "failed", !.gate = run[i].gate]
    BY <1>2 DEF Row
  <2> QED
    BY <2>1, <2>2
<1>4. run' \in [Ids -> Row] /\ SameVersions
  BY <1>2, <1>3, ClosingKeeps DEF Row, Status
<1>5. RestOK'
  BY <1>0, <1>1, <1>2, <1>4 DEF RestOK, Rows
<1>6. Current' = Current /\ HasCurrent'
  BY <1>4, <1>5, CurrentStays DEF ChainInv
<1>7. ProcsOK' /\ Holder' /\ Pending'
  BY <1>0, <1>2, <1>6 DEF ChainInv, ProcsOK, Holder, Pending, Rows, Versions
<1>8. VersionsUnique'
  BY <1>4 DEF ChainInv, VersionsUnique, SameVersions, Rows
<1> QED
  BY <1>5, <1>6, <1>7, <1>8, TwoParts DEF ChainInv

\* A row is inserted without a version.
LEMMA InsertKeeps ==
  ASSUME ChainInv, NEW p \in Procs, InsertRun(p)
  PROVE  ChainInv' /\ Current' = Current
<1>0. TypeOK /\ RestOK /\ ProcsOK /\ proc[p] \in Proc
  BY TwoParts DEF ChainInv, ProcsOK
<1> PICK n : n = rows + 1
  OBVIOUS
<1> PICK r : r = [day |-> proc[p].day, status |-> "running", version |-> 0, gate |-> "none"]
  OBVIOUS
<1>1. /\ n \in Ids /\ n \in Nat /\ Rows = 1 .. (n - 1) /\ rows' = n /\ r \in Row /\ r.version = 0
      /\ run' = [run EXCEPT ![n] = r] /\ rows \in Nat
      /\ UNCHANGED <<trading, lock, reaping, cache, reader, faults, unpurged>>
      /\ proc[p].pc = "insert" /\ proc[p].version = 0
  <2>1. n \in Ids /\ n \in Nat /\ Rows = 1 .. (n - 1) /\ rows' = n /\ rows \in Nat
    BY <1>0, NightlyAssumption, Used DEF InsertRun, RestOK, Ids, Rows
  <2>2. r \in Row /\ r.version = 0
    BY <1>0 DEF Row, Proc, Status
  <2> QED
    BY <2>1, <2>2 DEF InsertRun, ChainInv, Pending, Writing
<1>2. Rows' = Rows \cup {n} /\ run' \in [Ids -> Row] /\ Rows \subseteq Ids
      /\ run'[n] = r /\ \A k \in Rows : run'[k] = run[k] /\ k # n
  <2>1. Rows' = Rows \cup {n} /\ Rows \subseteq Ids /\ \A k \in Rows : k # n
    BY <1>0, <1>1, Used DEF Rows, Ids
  <2> QED
    BY <1>0, <1>1, <2>1 DEF RestOK
<1>3. RestOK'
  <2>1. rows' \in 0 .. MaxRuns
    BY <1>1 DEF Ids
  <2> QED
    BY <1>0, <1>1, <1>2, <2>1 DEF RestOK
<1> PICK v : v = Current
  OBVIOUS
<1>4. IsCurrent(v)'
  <2>1. v \in Nat /\ (v = 0 \/ \E i \in Rows : run[i].version = v) /\ \A i \in Rows : run[i].version <= v
    BY DEF ChainInv, HasCurrent, IsCurrent
  <2>2. \A i \in Rows' : run'[i].version <= v
    BY <1>1, <1>2, <2>1
  <2>3. v = 0 \/ \E i \in Rows' : run'[i].version = v
    BY <1>2, <2>1
  <2> QED
    BY <2>1, <2>2, <2>3 DEF IsCurrent
<1>5. Current' = v /\ HasCurrent'
  <2>1. Current' = v
    BY <1>3, <1>4, CurrentIsNext
  <2> QED
    BY <1>4, <2>1 DEF ChainInv, HasCurrent, Versions
<1>6. VersionsUnique'
  <2>1. \A k \in Rows' : run'[k].version > 0 => k \in Rows
    BY <1>1, <1>2
  <2>2. \A k \in Rows : run[k].version \in Nat
    BY <1>0, Used DEF Row
  <2>3. ASSUME NEW i \in Rows', NEW j \in Rows', i # j, run'[i].version > 0
        PROVE  run'[i].version # run'[j].version
    <3>1. i \in Rows /\ run'[i] = run[i]
      BY <1>2, <2>1, <2>3
    <3>2. CASE j = n
      BY <1>1, <1>2, <2>3, <3>2
    <3>3. CASE j \in Rows
      BY <1>2, <2>3, <3>1, <3>3 DEF ChainInv, VersionsUnique
    <3> QED
      BY <1>2, <3>2, <3>3
  <2> QED
    BY <2>3 DEF VersionsUnique
<1> DEFINE x == [proc[p] EXCEPT !.pc = "chain", !.id = n]
<1>7. proc' = [proc EXCEPT ![p] = x]
  BY <1>0 DEF InsertRun, ProcsOK
<1>8. x \in Proc /\ x.pc = "chain" /\ x.version = 0 /\ x.id = n
  BY <1>0, <1>1 DEF Proc, Steps
<1> HIDE DEF x
<1>9. ProcsOK' /\ Holder' /\ Pending'
  <2>1. rows' \in Nat /\ rows <= rows' /\ n \in 1 .. rows'
    BY <1>1
  <2> QED
    BY <1>1, <1>5, <1>7, <1>8, <2>1, MoveKeeps DEF NoRow, Chain, Writing
<1> QED
  BY <1>3, <1>5, <1>6, <1>9, TwoParts DEF ChainInv

\* A commit makes its version the current one, and nobody had it before.
LEMMA CommitKeeps ==
  ASSUME ChainInv, NEW p \in Procs, Commit(p)
  PROVE  ChainInv' /\ Current' = Current + 1 /\ Current' = proc[p].version
<1>0. TypeOK /\ RestOK /\ ProcsOK /\ proc[p] \in Proc
  BY TwoParts DEF ChainInv, ProcsOK
<1> PICK i, v : i = proc[p].id /\ v = proc[p].version
  OBVIOUS
<1>1. /\ i \in Rows /\ run[i] \in Row /\ lock = p /\ lock' = "none" /\ rows' = rows
      /\ v = Current + 1 /\ v \in Versions /\ v \in Nat /\ v > 0
      /\ UNCHANGED <<trading, reaping, cache, reader, faults, unpurged>>
  BY <1>0, Used DEF Commit, ProcsOK, NoRow, ChainInv, Holder, Pending, Chain, Writing, Versions
<1> DEFINE r == [run[i] EXCEPT !.status = "succeeded", !.gate = "passed", !.version = v]
<1>2. run' = [run EXCEPT ![i] = r] /\ r \in Row /\ r.version = v
  BY <1>0, <1>1 DEF Commit, RestOK, Row, Status
<1> HIDE DEF r
<1>3. /\ run' \in [Ids -> Row] /\ run'[i].version = v /\ Rows' = Rows
      /\ \A k \in Rows : k # i => run'[k] = run[k]
  BY <1>0, <1>1, <1>2, Used DEF RestOK, Rows
<1>4. RestOK'
  BY <1>0, <1>1, <1>3 DEF RestOK
<1>5. \A k \in Rows : run[k].version \in Nat /\ run[k].version < v
  <2>1. Current \in Nat /\ \A k \in Rows : run[k].version <= Current
    BY DEF ChainInv, HasCurrent, IsCurrent
  <2>2. \A k \in Rows : run[k].version \in Nat
    BY <1>0, Used DEF Row
  <2> QED
    BY <1>1, <2>1, <2>2
<1>6. IsCurrent(v)'
  <2>1. \A k \in Rows : run'[k].version <= v
    <3> SUFFICES ASSUME NEW k \in Rows PROVE run'[k].version <= v
      OBVIOUS
    <3>1. CASE k = i
      BY <1>1, <1>3, <3>1
    <3>2. CASE k # i
      BY <1>1, <1>3, <1>5, <3>2
    <3> QED
      BY <3>1, <3>2
  <2> QED
    BY <1>1, <1>3, <2>1 DEF IsCurrent
<1>7. Current' = v /\ HasCurrent'
  <2>1. Current' = v
    BY <1>4, <1>6, CurrentIsNext
  <2> QED
    BY <1>1, <1>6, <2>1 DEF HasCurrent, Versions
<1>8. VersionsUnique'
  <2> SUFFICES ASSUME NEW j \in Rows, NEW k \in Rows, j # k, run'[j].version > 0
               PROVE  run'[j].version # run'[k].version
    BY <1>3 DEF VersionsUnique
  <2>1. CASE j = i
    BY <1>3, <1>5, <2>1
  <2>2. CASE k = i
    BY <1>3, <1>5, <2>2
  <2>3. CASE j # i /\ k # i
    BY <1>3, <2>3 DEF ChainInv, VersionsUnique
  <2> QED
    BY <2>1, <2>2, <2>3
<1>9. PICK x \in Proc : proc' = [proc EXCEPT ![p] = x] /\ x.pc \in NoRow /\ x.version = 0
  BY <1>0, AfterRunMoves DEF Commit
<1>10. ProcsOK' /\ Holder' /\ Pending'
  <2>1. rows' \in Nat /\ rows <= rows'
    BY <1>0, <1>1, Used
  <2> QED
    BY <1>1, <1>9, <2>1, MoveKeeps DEF NoRow, Chain, Writing
<1> QED
  BY <1>1, <1>4, <1>7, <1>8, <1>10, TwoParts DEF ChainInv

-----------------------------------------------------------------------------
LEMMA ChainInit == Init => NightInv
<1> SUFFICES ASSUME Init PROVE NightInv
  OBVIOUS
<1>1. Rows = {} /\ rows = 0 /\ MaxRuns \in Nat /\ MaxFaults \in Nat /\ MaxVersions \in Nat
  BY NightlyAssumption DEF Init, Rows
<1>2. RestOK
  BY <1>1, IdleTyped DEF Init, RestOK, Row, Status
<1>3. ProcsOK
  BY IdleTyped DEF Init, ProcsOK, NoRow
<1>4. TypeOK
  BY <1>2, <1>3, TwoParts
<1>5. IsCurrent(0)
  BY <1>1 DEF IsCurrent
<1>6. Current = 0
  BY <1>4, <1>5, CurrentIs
<1>7. \A p \in Procs : proc[p].pc = "idle" /\ proc[p].version = 0
  BY IdleTyped DEF Init
<1> QED
  BY <1>1, <1>4, <1>5, <1>6, <1>7
  DEF Init, NightInv, ChainInv, Holder, Pending, HasCurrent, VersionsUnique, ReaderOld, Warmed,
      ServedIsPublished, Chain, Writing

\* Every step keeps the rows, the lock and the versions in order.
LEMMA ChainStep == ChainInv /\ [Next]_vars => ChainInv'
<1> SUFFICES ASSUME ChainInv, [Next]_vars PROVE ChainInv'
  OBVIOUS
<1>1. ASSUME NEW p \in Procs, Work(p) PROVE ChainInv'
  BY <1>1, StartKeeps, ChainKeeps, CloseKeeps, InsertKeeps, CommitKeeps DEF Work
<1>2. ASSUME NEW p \in Procs, CatchUp(p) \/ Die(p) \/ \E d \in Days : Beat(p, d) \/ Ask(p, d) PROVE ChainInv'
  BY <1>2, StartKeeps
<1> QED
  BY <1>1, <1>2, AsideKeeps, ReapKeeps DEF Next

(* Every variable holds a value of its type, and a process past begin_run works on a row that    *)
(* was inserted, for any number of processes.                                                    *)
THEOREM TypeCorrect == Spec => []TypeOK
<1>1. ChainInv => TypeOK
  BY DEF ChainInv
<1>2. Init => ChainInv
  BY ChainInit DEF NightInv
<1> QED
  BY <1>1, <1>2, ChainStep, PTL DEF Spec

(* However many processes run days at once, share rows and lose the lock, no two runs ever carry *)
(* the same data_version (next_data_version and publish under the chain's advisory lock).        *)
THEOREM NeverSameVersion == Spec => []VersionsUnique
<1>1. ChainInv => VersionsUnique
  BY DEF ChainInv
<1>2. Init => ChainInv
  BY ChainInit DEF NightInv
<1> QED
  BY <1>1, <1>2, ChainStep, PTL DEF Spec

-----------------------------------------------------------------------------
\* A step that keeps the rows and their versions and days, or gives a row another version.
RowsKept ==
  \A i \in Rows : /\ i \in Rows' /\ run'[i].day = run[i].day
                  /\ run[i].version > 0 => run'[i].version > 0

LEMMA RowsStay ==
  ASSUME ChainInv, [Next]_vars
  PROVE  RowsKept
<1> USE DEF store, vars
<1>0. TypeOK /\ \A i \in Rows : i \in Ids /\ run[i] \in Row /\ run \in [Ids -> Row]
  BY Used DEF ChainInv, TypeOK
<1>1. CASE UNCHANGED <<rows, run>>
  BY <1>1 DEF RowsKept, Rows
<1>2. ASSUME NEW p \in Procs, InsertRun(p) PROVE RowsKept
  <2>1. \A i \in Rows : i \in Rows' /\ i # rows + 1
    BY <1>0, <1>2, Used DEF InsertRun, Rows
  <2> QED
    BY <1>0, <1>2, <2>1 DEF InsertRun, RowsKept
<1>3. ASSUME NEW p \in Procs, Abort(p) \/ GateRefuses(p) \/ FailRun(p) PROVE RowsKept
  <2>1. CASE Abort(p)
    BY <1>0, <2>1 DEF Abort, CloseRun, RowsKept, Rows, Row
  <2>2. CASE GateRefuses(p)
    BY <1>0, <2>2 DEF GateRefuses, CloseRun, RowsKept, Rows, Row
  <2>3. CASE FailRun(p)
    BY <1>0, <2>3 DEF FailRun, RowsKept, Rows, Row
  <2> QED
    BY <1>3, <2>1, <2>2, <2>3
<1>4. ASSUME NEW p \in Procs, Commit(p) PROVE RowsKept
  <2>1. proc[p].version > 0
    BY <1>4 DEF Commit, ChainInv, Pending, Writing, Versions
  <2> QED
    BY <1>0, <1>4, <2>1 DEF Commit, RowsKept, Rows, Row
<1>5. CASE Reap
  BY <1>0, <1>5 DEF Reap, RowsKept, Rows, Row
<1>6. ASSUME NEW p \in Procs, Work(p) PROVE RowsKept
  <2>1. InsertRun(p) \/ Abort(p) \/ GateRefuses(p) \/ FailRun(p) \/ Commit(p) \/ UNCHANGED <<rows, run>>
    BY <1>6 DEF Work, NextDay, BeginRun, StartChain, GatePasses, Publish, Purge, Warm, Raise, FailRead, Probe
  <2> QED
    BY <1>1, <1>2, <1>3, <1>4, <2>1
<1>7. ASSUME NEW p \in Procs, CatchUp(p) \/ Die(p) \/ \E d \in Days : Beat(p, d) \/ Ask(p, d) PROVE RowsKept
  BY <1>1, <1>7 DEF CatchUp, Die, Beat, Ask
<1>8. CASE ReapList \/ ScreenBegin \/ ScreenEnd \/ UNCHANGED vars
  BY <1>1, <1>8 DEF ReapList, ScreenBegin, ScreenEnd
<1> QED
  BY <1>5, <1>6, <1>7, <1>8 DEF Next

\* Only a commit moves the current version, to the next.
LEMMA CurrentMoves ==
  ASSUME ChainInv, [Next]_vars
  PROVE  \/ Current' = Current
         \/ \E p \in Procs : Commit(p) /\ Current' = Current + 1 /\ Current' = proc[p].version
<1> USE DEF store, vars
<1>1. UNCHANGED <<rows, run>> => Current' = Current
  BY DEF Current, Rows
<1>2. ASSUME NEW p \in Procs, Work(p)
      PROVE  Current' = Current \/ Commit(p)
  <2>1. InsertRun(p) \/ Abort(p) \/ GateRefuses(p) \/ FailRun(p) \/ Commit(p) \/ UNCHANGED <<rows, run>>
    BY <1>2 DEF Work, NextDay, BeginRun, StartChain, GatePasses, Publish, Purge, Warm, Raise, FailRead, Probe
  <2>2. CASE UNCHANGED <<rows, run>>
    BY <1>1, <2>2
  <2>3. CASE InsertRun(p) \/ Abort(p) \/ GateRefuses(p) \/ FailRun(p)
    BY <2>3, CloseKeeps, InsertKeeps
  <2> QED
    BY <2>1, <2>2, <2>3
<1>3. ASSUME NEW p \in Procs, CatchUp(p) \/ Die(p) \/ \E d \in Days : Beat(p, d) \/ Ask(p, d)
      PROVE  Current' = Current
  <2>1. UNCHANGED <<rows, run>>
    BY <1>3 DEF CatchUp, Die, Beat, Ask
  <2> QED
    BY <1>1, <2>1
<1>4. CASE ReapList \/ ScreenBegin \/ ScreenEnd \/ UNCHANGED vars
  BY <1>1, <1>4 DEF ReapList, ScreenBegin, ScreenEnd
<1>5. CASE \E p \in Procs : Commit(p)
  BY <1>5, CommitKeeps
<1> QED
  BY <1>2, <1>3, <1>4, <1>5, ReapKeeps DEF Next

(* The current data_version never falls and grows by one at a time, and a day that landed stays  *)
(* landed, whatever closes or reaps its row.                                                     *)
THEOREM NeverTakenBack == Spec => PublishedForGood
<1>1. ChainInv /\ [Next]_vars =>
        [/\ Current' \in {Current, Current + 1}
         /\ \A d \in Days : Landed(d) => Landed(d)']_vars
  <2> SUFFICES ASSUME ChainInv, [Next]_vars
               PROVE  /\ Current' \in {Current, Current + 1}
                      /\ \A d \in Days : Landed(d) => Landed(d)'
    OBVIOUS
  <2>1. Current' \in {Current, Current + 1}
    BY CurrentMoves
  <2>2. \A d \in Days : Landed(d) => Landed(d)'
    BY RowsStay DEF RowsKept, Landed
  <2> QED
    BY <2>1, <2>2
<1>2. Init => ChainInv
  BY ChainInit DEF NightInv
<1> QED
  BY <1>1, <1>2, ChainStep, PTL DEF Spec, PublishedForGood

-----------------------------------------------------------------------------
Warming == {"warm", "post"}

\* Nobody else is in the chain.
LEMMA OneChain ==
  ASSUME ChainInv, NEW p \in Procs, proc[p].pc \in Chain
  PROVE  \A q \in Procs : q # p => proc[q].pc \notin Warming
  BY DEF ChainInv, Holder, Chain, Warming

LEMMA CurrentTyped ==
  ASSUME ChainInv
  PROVE  /\ Current \in Nat /\ (Current > 0 => Current \in Versions)
         /\ cache \in [Versions -> {"none", "own", "other"}]
         /\ \A q \in Procs : proc[q].pc \in Warming => proc[q].version = Current + 1 /\ proc[q].version \in Versions
  BY DEF ChainInv, HasCurrent, IsCurrent, TypeOK, Pending, Warming, Writing

\* A step that leaves the cache and the version alone, and brings no chain past its purge.
LEMMA CalmKeeps ==
  ASSUME NightInv, ChainInv', Current' = Current, UNCHANGED <<cache, unpurged>>,
         reader' \in {reader, 0, Current},
         \A q \in Procs : proc'[q].pc \in Warming =>
                            proc[q].pc \in Warming /\ proc'[q].version = proc[q].version
  PROVE  NightInv'
<1>1. ReaderOld'
  BY CurrentTyped DEF NightInv, ReaderOld
<1>2. Warmed' /\ ServedIsPublished'
  BY DEF NightInv, Warmed, ServedIsPublished, Warming
<1> QED
  BY <1>1, <1>2 DEF NightInv

LEMMA PurgeServes ==
  ASSUME NightInv, ChainInv', Current' = Current, NEW p \in Procs, Purge(p)
  PROVE  NightInv'
<1> USE DEF store
<1>0. ChainInv /\ TypeOK /\ reader' = reader
  BY DEF NightInv, ChainInv, Purge
<1>1. /\ proc[p].pc = "purge" /\ proc[p].version = Current + 1 /\ proc[p].version \in Versions
      /\ \A q \in Procs : q # p => proc'[q] = proc[q] /\ proc[q].pc \notin Warming
      /\ proc'[p].version = proc[p].version
  BY <1>0, OneChain DEF Purge, Goto, ChainInv, Pending, TypeOK, Proc, Chain, Writing
<1>2. ReaderOld'
  BY <1>0 DEF NightInv, ReaderOld
<1>3. CASE cache' = [v \in Versions |-> "none"]
  BY <1>0, <1>1, <1>2, <1>3, CurrentTyped DEF NightInv, Warmed, ServedIsPublished, Warming
<1>4. CASE unpurged' = unpurged \cup {proc[p].version} /\ UNCHANGED cache
  BY <1>0, <1>1, <1>2, <1>4 DEF NightInv, Warmed, ServedIsPublished, Warming
<1> QED
  BY <1>3, <1>4 DEF Purge

LEMMA WarmServes ==
  ASSUME NightInv, ChainInv', Current' = Current, NEW p \in Procs, Warm(p)
  PROVE  NightInv'
<1> USE DEF store
<1>0. ChainInv /\ TypeOK /\ reader' = reader /\ unpurged' = unpurged
  BY DEF NightInv, ChainInv, Warm
<1>1. /\ proc[p].pc = "warm" /\ proc[p].version = Current + 1 /\ proc[p].version \in Versions
      /\ \A q \in Procs : q # p => proc'[q] = proc[q] /\ proc[q].pc \notin Warming
      /\ proc'[p].version = proc[p].version
  BY <1>0, OneChain DEF Warm, Goto, ChainInv, Pending, TypeOK, Proc, Chain, Writing
<1>2. ReaderOld'
  BY <1>0 DEF NightInv, ReaderOld
<1>3. /\ cache[proc[p].version] # "other" => cache'[proc[p].version] # "other"
      /\ Current > 0 => cache'[Current] = cache[Current]
  <2>1. CASE UNCHANGED cache
    BY <2>1
  <2>2. CASE cache' = [cache EXCEPT ![proc[p].version] = IF @ = "none" THEN "own" ELSE @]
    BY <1>0, <1>1, <2>2, CurrentTyped
  <2> QED
    BY <2>1, <2>2 DEF Warm
<1>4. Warmed'
  BY <1>0, <1>1, <1>3 DEF NightInv, Warmed, Warming
<1>5. ServedIsPublished'
  BY <1>0, <1>3 DEF NightInv, ServedIsPublished
<1> QED
  BY <1>2, <1>4, <1>5 DEF NightInv

\* A chain that is rolled back leaves its figures under a version that is nobody's yet.
LEMMA RolledBackServes ==
  ASSUME NightInv, ChainInv', Current' = Current, NEW p \in Procs, RollBack(p),
         UNCHANGED <<reader, unpurged>>, proc'[p].pc \notin Warming,
         \A q \in Procs : q # p => proc'[q] = proc[q]
  PROVE  NightInv'
<1>0. ChainInv /\ TypeOK
  BY DEF NightInv, ChainInv
<1>2. CASE proc[p].pc \in Writing
  <2>1. proc[p].version = Current + 1 /\ Current \in Nat
    BY <1>0, <1>2, CurrentTyped DEF ChainInv, Pending
  <2>2. Current > 0 => cache'[Current] = cache[Current]
    BY <1>0, <2>1, CurrentTyped DEF RollBack
  <2>3. \A q \in Procs : proc'[q].pc \notin Warming
    BY <1>0, <1>2, OneChain DEF Chain, Writing
  <2> QED
    BY <2>2, <2>3 DEF NightInv, ReaderOld, Warmed, ServedIsPublished, Warming
<1>3. CASE proc[p].pc \notin Writing
  <2>1. proc[p].version = 0
    BY <1>0, <1>3 DEF ChainInv, Pending
  <2>2. cache' = cache
    <3>1. \A v \in Versions : v # 0
      BY DEF Versions
    <3>2. cache' = [v \in Versions |-> cache[v]]
      BY <2>1, <3>1 DEF RollBack
    <3> QED
      BY <1>0, <3>2, CurrentTyped
  <2> QED
    BY <2>2, CalmKeeps
<1> QED
  BY <1>2, <1>3

\* A late screen goes under a version that is current, or was.
LEMMA ScreenServes ==
  ASSUME NightInv, ChainInv', Current' = Current, ScreenEnd
  PROVE  NightInv'
<1> USE DEF store
<1>0. ChainInv /\ UNCHANGED <<proc, unpurged>> /\ reader' = 0
  BY DEF NightInv, ScreenEnd
<1>1. reader \in Versions /\ reader \in Nat /\ reader <= Current
  BY <1>0 DEF NightInv, ReaderOld, ChainInv, TypeOK, ScreenEnd, Versions
<1>2. Current > 0 => cache'[Current] = cache[Current] \/ cache'[Current] = "own"
  BY <1>0, <1>1, CurrentTyped DEF ScreenEnd
<1>3. \A v \in Versions : v = Current + 1 => cache'[v] = cache[v]
  BY <1>0, <1>1, CurrentTyped DEF ScreenEnd
<1>4. ReaderOld'
  BY <1>0, CurrentTyped DEF ReaderOld
<1>5. Warmed'
  BY <1>0, <1>3, CurrentTyped DEF NightInv, Warmed, Warming
<1>6. ServedIsPublished'
  BY <1>0, <1>2 DEF NightInv, ServedIsPublished
<1> QED
  BY <1>4, <1>5, <1>6 DEF NightInv

LEMMA CommitServes ==
  ASSUME NightInv, ChainInv', NEW p \in Procs, Commit(p)
  PROVE  NightInv'
<1>0. ChainInv /\ TypeOK /\ UNCHANGED <<cache, reader, unpurged>> /\ proc[p].pc = "post"
  BY DEF NightInv, ChainInv, Commit
<1>1. Current' = Current + 1 /\ Current' = proc[p].version /\ Current \in Nat
  BY <1>0, CommitKeeps, CurrentTyped
<1>2. PICK x \in Proc : proc' = [proc EXCEPT ![p] = x] /\ x.pc \in NoRow
  BY <1>0, AfterRunMoves DEF Commit
<1>3. \A q \in Procs : proc'[q].pc \notin Warming
  <2>1. \A q \in Procs : q # p => proc[q].pc \notin Warming /\ proc'[q] = proc[q]
    BY <1>0, <1>2, OneChain DEF Chain, TypeOK
  <2> QED
    BY <1>0, <1>2, <2>1 DEF NoRow, Warming, TypeOK
<1>4. ReaderOld'
  <2>1. reader \in Nat
    BY <1>0 DEF TypeOK, Versions
  <2> QED
    BY <1>0, <1>1, <2>1 DEF NightInv, ReaderOld
<1>5. ServedIsPublished'
  BY <1>0, <1>1 DEF NightInv, Warmed, ServedIsPublished
<1> QED
  BY <1>3, <1>4, <1>5 DEF NightInv, Warmed, Warming

\* The process that moves is not past its purge afterwards.
LEMMA CalmMove ==
  ASSUME NightInv, ChainInv', Current' = Current, UNCHANGED <<cache, unpurged, reader>>,
         NEW p \in Procs, proc' \in [Procs -> Proc], proc'[p].pc \notin Warming,
         \A q \in Procs : q # p => proc'[q] = proc[q]
  PROVE  NightInv'
<1>1. \A q \in Procs : proc'[q].pc \in Warming =>
                         proc[q].pc \in Warming /\ proc'[q].version = proc[q].version
  OBVIOUS
<1> QED
  BY <1>1, CalmKeeps

\* Every step keeps what is served under the current version the figures of its chain.
LEMMA NightStep == NightInv /\ [Next]_vars => NightInv'
<1> SUFFICES ASSUME NightInv, [Next]_vars PROVE NightInv'
  OBVIOUS
<1> USE DEF store, vars
<1>0. ChainInv /\ TypeOK /\ ChainInv' /\ TypeOK' /\ proc \in [Procs -> Proc] /\ proc' \in [Procs -> Proc]
  BY ChainStep DEF NightInv, ChainInv, TypeOK
<1>1. CASE \E p \in Procs : Commit(p)
  BY <1>0, <1>1, CommitServes
<1>2. CASE Current' = Current
  <2>1. ASSUME NEW p \in Procs, Raise(p) \/ Die(p) PROVE NightInv'
    <3>1. RollBack(p) /\ UNCHANGED <<reader, unpurged>>
      BY <2>1 DEF Raise, Die
    <3>2. proc'[p].pc \in {"fail", "idle"} /\ \A q \in Procs : q # p => proc'[q] = proc[q]
      <4>1. CASE Raise(p)
        BY <1>0, <4>1 DEF Raise, Proc
      <4>2. CASE Die(p)
        BY <1>0, <4>2, IdleTyped DEF Die, GiveUp
      <4> QED
        BY <2>1, <4>1, <4>2
    <3> QED
      BY <1>0, <1>2, <3>1, <3>2, RolledBackServes DEF Warming
  <2>2. ASSUME NEW p \in Procs,
               \/ NextDay(p) \/ BeginRun(p) \/ InsertRun(p) \/ StartChain(p) \/ GatePasses(p)
               \/ Publish(p) \/ FailRead(p) \/ Probe(p)
        PROVE  NightInv'
    <3>1. UNCHANGED <<cache, unpurged, reader>>
      BY <2>2 DEF NextDay, BeginRun, InsertRun, StartChain, GatePasses, Publish, FailRead, Probe
    <3>2. /\ proc'[p].pc \in {"idle", "begin", "insert", "chain", "abort", "steps", "publish", "purge", "failing", "next"}
          /\ \A q \in Procs : q # p => proc'[q] = proc[q]
      <4>1. CASE NextDay(p)
        <5>1. CASE GiveUp(p)
          BY <1>0, <5>1, IdleTyped DEF GiveUp
        <5>2. CASE ~GiveUp(p)
          BY <1>0, <4>1, <5>2 DEF NextDay, Proc
        <5> QED
          BY <5>1, <5>2
      <4>2. CASE BeginRun(p) \/ InsertRun(p)
        BY <1>0, <4>2 DEF BeginRun, InsertRun, Goto, Proc
      <4>3. CASE StartChain(p) \/ GatePasses(p) \/ Publish(p)
        BY <1>0, <4>3 DEF StartChain, GatePasses, Publish, Goto, Proc
      <4>4. CASE FailRead(p) \/ Probe(p)
        BY <1>0, <4>4, IdleTyped DEF FailRead, Probe, GiveUp, Goto, Proc
      <4> QED
        BY <2>2, <4>1, <4>2, <4>3, <4>4
    <3> QED
      BY <1>0, <1>2, <3>1, <3>2, CalmMove DEF Warming
  <2>3. ASSUME NEW p \in Procs, Abort(p) \/ GateRefuses(p) \/ FailRun(p) PROVE NightInv'
    <3>1. UNCHANGED <<cache, unpurged, reader>> /\ (AfterRun(p, FALSE) \/ GiveUp(p))
      BY <2>3 DEF Abort, GateRefuses, FailRun
    <3>2. PICK x \in Proc : proc' = [proc EXCEPT ![p] = x] /\ x.pc \in NoRow
      BY <1>0, <3>1, AfterRunMoves, IdleTyped DEF GiveUp, NoRow
    <3>3. proc'[p].pc \notin Warming /\ \A q \in Procs : q # p => proc'[q] = proc[q]
      BY <1>0, <3>2 DEF NoRow, Warming
    <3> QED
      BY <1>0, <1>2, <3>1, <3>3, CalmMove
  <2>4. ASSUME NEW p \in Procs, CatchUp(p) \/ \E d \in Days : Beat(p, d) \/ Ask(p, d) PROVE NightInv'
    <3>1. UNCHANGED <<cache, unpurged, reader>> /\ \A q \in Procs : q # p => proc'[q] = proc[q]
      BY <1>0, <2>4 DEF CatchUp, Beat, Ask
    <3>2. proc'[p].pc \in {"next", "begin"}
      BY <1>0, <2>4, IdleTyped DEF CatchUp, Beat, Ask, Idle
    <3> QED
      BY <1>0, <1>2, <3>1, <3>2, CalmMove DEF Warming
  <2>5. CASE ReapList \/ Reap \/ ScreenBegin \/ UNCHANGED vars
    <3>1. UNCHANGED <<cache, unpurged, proc>> /\ reader' \in {reader, 0, Current}
      BY <2>5 DEF ReapList, Reap, ScreenBegin
    <3> QED
      BY <1>0, <1>2, <3>1, CalmKeeps
  <2>6. ASSUME NEW p \in Procs, Work(p), ~Commit(p) PROVE NightInv'
    BY <1>0, <1>2, <2>1, <2>2, <2>3, <2>6, PurgeServes, WarmServes DEF Work
  <2> QED
    BY <1>0, <1>1, <1>2, <2>1, <2>4, <2>5, <2>6, ScreenServes DEF Next
<1> QED
  BY <1>0, <1>1, <1>2, CurrentMoves

(* What the API serves from the cache under the current data_version are the figures of the      *)
(* chain that published it, although publish warms the cache before it commits and may then be   *)
(* rolled back, and a request may store its screen after the version it read has been replaced;  *)
(* versions published after a failed purge are excepted.                                         *)
THEOREM ServedFigures == Spec => []ServedIsPublished
<1>1. NightInv => ServedIsPublished
  BY DEF NightInv
<1> QED
  BY <1>1, ChainInit, NightStep, PTL DEF Spec
=============================================================================
