----------------------------- MODULE RiskLedger -----------------------------
(***************************************************************************)
(* The account's risk ledger: `RiskManager` over `PgRiskStateStore`        *)
(* (baskfy-desk, lanes/exec_core/risk.rs).  Several processes (the desk,   *)
(* the swing monitor, twt-auto, the session supervisor) each own a         *)
(* RiskManager; all of them decide against one `risk_ledger` row per IST   *)
(* day, taken FOR UPDATE.                                                  *)
(*                                                                         *)
(* One operation of a manager is three steps: Begin (connect, BEGIN, read  *)
(* the date that names the row), Acquire (the row lock is granted and the  *)
(* payload is loaded over `inner`), and the operation's own action (roll,  *)
(* body, save, COMMIT).  The manager's async mutex admits one operation at *)
(* a time, so `pc` is per process.  `reasons` and `day_pnl` are left out:  *)
(* nothing decides on them.                                                *)
(*                                                                         *)
(* A caller's future can be dropped at any await (its HTTP client hangs    *)
(* up).  BEGIN and COMMIT are plain statements on a pooled connection, so  *)
(* the transaction then stays open, and its row locked, until the pool     *)
(* closes the connection or a later operation ends it.                     *)
(***************************************************************************)
EXTENDS Integers

CONSTANTS
  Procs,        \* processes holding a RiskManager
  Symbols,      \* traded symbols
  Values,       \* notionals an order or a release can carry (|value|)
  Seeds,        \* notionals a holding can have when it is seeded
  Grosses,      \* gross exposures a caller can report
  Pnls,         \* day P&L readings
  MaxOrders,    \* RiskConfig.max_orders_per_day
  PosCap,       \* RiskConfig.max_position_value
  GrossCap,     \* RiskConfig.max_gross_exposure
  MaxLoss,      \* RiskConfig.max_daily_loss
  LastDay,      \* bound: the clock stops at this IST day
  MidnightRace  \* may midnight pass while an operation is in progress?

ASSUME LimitsAssumption ==
  /\ MaxOrders \in Nat /\ PosCap \in Nat /\ GrossCap \in Nat /\ MaxLoss \in Nat
  /\ LastDay \in Nat /\ MidnightRace \in BOOLEAN
ASSUME InputsAssumption ==
  /\ Values \subseteq Nat /\ Seeds \subseteq Nat
  /\ Grosses \subseteq Nat /\ Pnls \subseteq Int

VARIABLES
  today,       \* the IST date
  row,         \* the risk_ledger row of each day
  inner,       \* each manager's in-memory {day, state}
  pc,          \* where each process is
  up,          \* the manager's constructor has returned
  txday,       \* the day whose row the open transaction is about
  stuck,       \* days whose row an abandoned transaction keeps locked
  accepted,    \* history: orders the callers were told they may place, per day
  exposure,    \* history: acknowledged buys less committed sells and releases,
               \* per day and symbol
  lossHalted,  \* history: days on which a daily-loss trip was acknowledged
  killHalted   \* history: days on which a kill() was acknowledged

ledger  == <<row, inner>>
history == <<accepted, exposure, lossHalted, killHalted>>
vars    == <<today, row, inner, pc, up, txday, stuck, accepted, exposure,
             lossHalted, killHalted>>

Days     == 0 .. LastDay
Sides    == {"BUY", "SELL"}
\* COMMIT done; not done; done but not heard of; or the caller was dropped, with
\* the new state not in the row, or in it (and seen by nobody until it is unlocked).
Outcomes == {"ok", "failed", "unacked", "dropped", "dropped_saved"}
Dropped  == {"dropped", "dropped_saved"}
Saved    == {"ok", "unacked", "dropped_saved"}
State    == [day : Days, orders : Nat, killed : BOOLEAN, pos : [Symbols -> Nat]]

-----------------------------------------------------------------------------
\* RiskState::default() under the day d.
Default(d) == [day |-> d, orders |-> 0, killed |-> FALSE, pos |-> [s \in Symbols |-> 0]]

NoRow == [written |-> FALSE, st |-> Default(0)]

Init ==
  /\ today = 0
  /\ row = [d \in Days |-> NoRow]
  /\ inner = [p \in Procs |-> Default(0)]
  /\ pc = [p \in Procs |-> "down"]
  /\ up = [p \in Procs |-> FALSE]
  /\ txday = [p \in Procs |-> 0]
  /\ stuck = {}
  /\ accepted = [d \in Days |-> 0]
  /\ exposure = [d \in Days |-> [s \in Symbols |-> 0]]
  /\ lossHalted = {}
  /\ killHalted = {}

\* mutant: `.max(0.0)` forgotten
NonNegUnclamped(n) == n

NonNeg(n) == IF n < 0 THEN 0 ELSE n

\* mutant: the decision is taken on what the process remembers
ReloadSkipped(p) == inner[p]

\* PgTxn::load: a row that carries only its day answers None, and `reload` then
\* leaves what the process already had in memory.
Reload(p) == IF row[txday[p]].written THEN row[txday[p]].st ELSE inner[p]

\* roll: a state of another day is replaced by an empty one.
Rolled(p) == IF inner[p].day # today THEN Default(today) ELSE inner[p]
Rolls(p)  == inner[p].day # today

\* mutant: the position is not accumulated
ProjectedAlone(st, s, side, v) == v

\* decide, in the code's order: kill switch, order count, position, gross.
Projected(st, s, side, v) == IF side = "BUY" THEN st.pos[s] + v ELSE v
Accepts(st, s, side, v, gross) ==
  /\ ~st.killed
  /\ st.orders < MaxOrders
  /\ Projected(st, s, side, v) <= PosCap
  /\ gross <= GrossCap
Booked(st, s, side, v) ==
  [st EXCEPT !.orders = @ + 1,
             !.pos[s] = IF side = "BUY" THEN @ + v ELSE NonNeg(@ - v)]

-----------------------------------------------------------------------------
\* The process starts: RiskManager::new builds an empty state for today; the
\* locked reload that follows is Begin, Acquire and New.
Start(p) ==
  /\ pc[p] = "down"
  /\ pc' = [pc EXCEPT ![p] = "idle"]
  /\ inner' = [inner EXCEPT ![p] = Default(today)]
  /\ UNCHANGED <<today, row, up, txday, stuck, history>>

\* store.lock(): connect, BEGIN, then read the date that names the row.
Begin(p) ==
  /\ pc[p] = "idle"
  /\ pc' = [pc EXCEPT ![p] = "wait"]
  /\ txday' = [txday EXCEPT ![p] = today]
  /\ UNCHANGED <<today, ledger, up, stuck, history>>

\* mutants: no FOR UPDATE; waiting for whoever waits
RowNeverLocked(p) == TRUE
RowFreeOfWaiters(p) == \A q \in Procs \ {p} : pc[q] \notin {"wait", "held"}

RowFree(p) ==
  /\ txday[p] \notin stuck
  /\ \A q \in Procs \ {p} : ~(pc[q] = "held" /\ txday[q] = txday[p])

\* INSERT ... ON CONFLICT DO NOTHING, SELECT ... FOR UPDATE, then reload.
Acquire(p) ==
  /\ pc[p] = "wait"
  /\ RowFree(p)
  /\ pc' = [pc EXCEPT ![p] = "held"]
  /\ inner' = [inner EXCEPT ![p] = Reload(p)]
  /\ UNCHANGED <<today, row, up, txday, stuck, history>>

\* lock() or load() fails: the transaction is rolled back and the caller told;
\* a constructor that fails leaves no manager.
LockFails(p) ==
  /\ pc[p] = "wait"
  /\ pc' = [pc EXCEPT ![p] = IF up[p] THEN "idle" ELSE "down"]
  /\ txday' = [txday EXCEPT ![p] = 0]
  /\ UNCHANGED <<today, ledger, up, stuck, history>>

\* The caller is dropped while it waits: the lock, once granted, is kept by the
\* abandoned connection (or the connection was never used).
Abandon(p, locks) ==
  /\ pc[p] = "wait"
  /\ locks => RowFree(p)
  /\ pc' = [pc EXCEPT ![p] = IF up[p] THEN "idle" ELSE "down"]
  /\ txday' = [txday EXCEPT ![p] = 0]
  /\ stuck' = IF locks THEN stuck \cup {txday[p]} ELSE stuck
  /\ UNCHANGED <<today, ledger, up, history>>

\* The pool closes the abandoned connection, or a later operation that is given
\* it ends its transaction.
Unstick(d) ==
  /\ d \in stuck
  /\ stuck' = stuck \ {d}
  /\ UNCHANGED <<today, ledger, pc, up, txday, history>>

\* Leave the locked section with the in-memory state st, saved to the row of
\* the transaction unless it rolls back.  A failure never undoes `inner`.
Leave(p, st, saves, out) ==
  /\ pc[p] = "held"
  /\ inner' = [inner EXCEPT ![p] = st]
  /\ row' = IF saves /\ out \in Saved
              THEN [row EXCEPT ![txday[p]] = [written |-> TRUE, st |-> st]]
              ELSE row
  /\ pc' = [pc EXCEPT ![p] = "idle"]
  /\ txday' = [txday EXCEPT ![p] = 0]
  /\ stuck' = IF out \in Dropped THEN stuck \cup {txday[p]} ELSE stuck
  /\ UNCHANGED today

\* RiskManager::new after its reload: COMMIT.  On an error there is no manager.
New(p, out) ==
  /\ ~up[p]
  /\ pc[p] = "held"
  /\ pc' = [pc EXCEPT ![p] = IF out = "ok" THEN "idle" ELSE "down"]
  /\ up' = [up EXCEPT ![p] = out = "ok"]
  /\ txday' = [txday EXCEPT ![p] = 0]
  /\ stuck' = IF out \in Dropped THEN stuck \cup {txday[p]} ELSE stuck
  /\ UNCHANGED <<today, ledger, history>>

\* The save inside `roll` fails, or the caller is dropped in it: the body never
\* runs, the empty state stays.
RollFails(p, out) ==
  /\ up[p]
  /\ Rolls(p)
  /\ out \in {"failed"} \cup Dropped
  /\ Leave(p, Rolled(p), TRUE, out)
  /\ UNCHANGED <<up, history>>

\* pre_order: roll, decide, and save only what was accepted (or rolled).
PreOrder(p, s, side, v, gross, out) ==
  LET st == Rolled(p)
      ok == Accepts(st, s, side, v, gross)
  IN  /\ up[p]
      /\ Leave(p, IF ok THEN Booked(st, s, side, v) ELSE st, ok \/ Rolls(p), out)
      /\ accepted' = IF ok /\ out = "ok" THEN [accepted EXCEPT ![today] = @ + 1]
                                        ELSE accepted
      /\ exposure' = IF ok /\ side = "BUY" /\ out = "ok"
                       THEN [exposure EXCEPT ![today][s] = @ + v]
                     ELSE IF ok /\ side = "SELL" /\ out \in Saved
                       THEN [exposure EXCEPT ![today][s] = NonNeg(@ - v)]
                     ELSE exposure
      /\ UNCHANGED <<up, lossHalted, killHalted>>

\* kill: no roll.
Kill(p, out) ==
  /\ up[p]
  /\ Leave(p, [inner[p] EXCEPT !.killed = TRUE], TRUE, out)
  /\ killHalted' = IF out = "ok" THEN killHalted \cup {today} ELSE killHalted
  /\ UNCHANGED <<up, accepted, exposure, lossHalted>>

\* mutant: every reading decides the switch anew
OnPnlUnlatched(p, pnl, out) ==
  LET trips == pnl <= -MaxLoss
  IN  /\ up[p]
      /\ Leave(p, [Rolled(p) EXCEPT !.killed = trips], TRUE, out)
      /\ lossHalted' = IF trips /\ out = "ok" THEN lossHalted \cup {today} ELSE lossHalted
      /\ UNCHANGED <<up, accepted, exposure, killHalted>>

\* on_pnl: at or below the loss cap the kill switch trips.
OnPnl(p, pnl, out) ==
  LET trips == pnl <= -MaxLoss
  IN  /\ up[p]
      /\ Leave(p, [Rolled(p) EXCEPT !.killed = @ \/ trips], TRUE, out)
      /\ lossHalted' = IF trips /\ out = "ok" THEN lossHalted \cup {today} ELSE lossHalted
      /\ UNCHANGED <<up, accepted, exposure, killHalted>>

\* release: give back the reservation of shares that never filled.
Release(p, s, v, out) ==
  /\ up[p]
  /\ Leave(p, [Rolled(p) EXCEPT !.pos[s] = NonNeg(@ - v)], TRUE, out)
  /\ exposure' = IF out \in Saved
                   THEN [exposure EXCEPT ![today][s] = NonNeg(@ - v)]
                   ELSE exposure
  /\ UNCHANGED <<up, accepted, lossHalted, killHalted>>

\* seed_positions: raise (never lower) the map to what the account holds.
SeedPositions(p, held, out) ==
  /\ up[p]
  /\ Leave(p, [Rolled(p) EXCEPT
                 !.pos = [s \in Symbols |-> IF held[s] > @[s] THEN held[s] ELSE @[s]]],
           TRUE, out)
  /\ UNCHANGED <<up, history>>

\* refresh: COMMIT first, then roll outside the lock, where
\* PgRiskStateStore::save_unlocked refuses to save (the roll stays in memory).
Refresh(p, out) ==
  /\ up[p]
  /\ Leave(p, IF out = "ok" THEN Rolled(p) ELSE inner[p], FALSE, out)
  /\ UNCHANGED <<up, history>>

\* What kill_switch_reason answers after a refresh whose COMMIT succeeded: the
\* error of the refused save, the kill switch's words, or nothing.
KillSwitchReason(p) ==
  IF Rolls(p) THEN "err" ELSE IF inner[p].killed THEN "killed" ELSE ""

\* The process dies: the transaction rolls back, the memory is gone.
Crash(p) ==
  /\ pc[p] # "down"
  /\ pc' = [pc EXCEPT ![p] = "down"]
  /\ up' = [up EXCEPT ![p] = FALSE]
  /\ inner' = [inner EXCEPT ![p] = Default(0)]
  /\ txday' = [txday EXCEPT ![p] = 0]
  /\ UNCHANGED <<today, row, stuck, history>>

\* Midnight IST.
Tick ==
  /\ today < LastDay
  /\ MidnightRace \/ \A p \in Procs : pc[p] \notin {"wait", "held"}
  /\ today' = today + 1
  /\ UNCHANGED <<ledger, pc, up, txday, stuck, history>>

Operation(p) ==
  \E out \in Outcomes :
    \/ New(p, out)
    \/ RollFails(p, out)
    \/ \E s \in Symbols, side \in Sides, v \in Values, gross \in Grosses :
         PreOrder(p, s, side, v, gross, out)
    \/ Kill(p, out)
    \/ \E pnl \in Pnls : OnPnl(p, pnl, out)
    \/ \E s \in Symbols, v \in Values : Release(p, s, v, out)
    \/ \E held \in [Symbols -> Seeds] : SeedPositions(p, held, out)
    \/ Refresh(p, out)

Next ==
  \/ \E p \in Procs : Start(p) \/ Begin(p) \/ Acquire(p) \/ LockFails(p)
                        \/ Operation(p) \/ Crash(p)
                        \/ \E locks \in BOOLEAN : Abandon(p, locks)
  \/ \E d \in Days : Unstick(d)
  \/ Tick

Spec == Init /\ [][Next]_vars

\* The database grants a contended row in turn and runs every transaction to
\* its end, and the pool closes a connection after its idle time or its maximum
\* lifetime; nothing obliges a process to start an operation.
FairSpec ==
  /\ Spec
  /\ \A p \in Procs : SF_vars(Acquire(p)) /\ WF_vars(Operation(p))
  /\ \A d \in Days : WF_vars(Unstick(d))

-----------------------------------------------------------------------------
\* Every variable holds a value of its type.
TypeOK ==
  /\ today \in Days
  /\ row \in [Days -> [written : BOOLEAN, st : State]]
  /\ inner \in [Procs -> State]
  /\ pc \in [Procs -> {"down", "idle", "wait", "held"}]
  /\ up \in [Procs -> BOOLEAN]
  /\ txday \in [Procs -> Days]
  /\ stuck \subseteq Days
  /\ accepted \in [Days -> Nat]
  /\ exposure \in [Days -> [Symbols -> Nat]]
  /\ lossHalted \subseteq Days
  /\ killHalted \subseteq Days

\* "cannot each read the same headroom and each spend it" (risk.rs, module
\* doc), for the order count: on no day are the processes together told to go
\* ahead more often than max_orders_per_day, whatever crashed or failed to commit.
OrderCapRespected == \A d \in Days : accepted[d] <= MaxOrders

\* The same for the per-symbol notional: the buys all processes were allowed
\* on a day, less the sells and releases committed, never exceed max_position_value.
PositionCapRespected ==
  \A d \in Days, s \in Symbols : exposure[d][s] <= PosCap

\* Somebody is told to go ahead: an order is accepted, or a refresh answers
\* that the kill switch is off.
Cleared ==
  \/ accepted' # accepted
  \/ \E p \in Procs : Refresh(p, "ok") /\ KillSwitchReason(p) = ""

\* Once on_pnl has acknowledged a loss at the cap, nobody is cleared again that
\* day: not after a restart, a failed commit or a better P&L reading.
LossHaltHolds == [][Cleared => today \notin lossHalted]_vars

\* "a kill switch that reaches every process" (docs/00-merge-status.md, LV3):
\* the same for an acknowledged kill().
KillHolds == [][Cleared => today \notin killHalted]_vars

\* What the callers see, read as an account: answered orders, exposure, halts.
Account == INSTANCE AccountRisk WITH
             TradingDays <- Days, spent <- accepted, halted <- lossHalted

\* All those processes, crashes and failed commits behave as one account that
\* spends its headroom once and stays halted (RiskManager over the shared row).
ActsAsOneAccount == Account!Spec

\* Everyone who waits for the row is answered or dies: the lock is always
\* handed on, through refusals, failed commits and crashes.
EveryoneIsAnswered ==
  \A p \in Procs : pc[p] \in {"wait", "held"} ~> pc[p] \in {"idle", "down"}
=============================================================================
