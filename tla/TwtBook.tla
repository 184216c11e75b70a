------------------------------ MODULE TwtBook -------------------------------
(***************************************************************************)
(* The TWT sleeve's book of one position (baskfy-desk, lanes/twt/          *)
(* execute.rs and store.rs): the owner confirms plan lines (buy, sell, arm *)
(* the stop, raise it), the supervisor's pass applies what the broker      *)
(* reports of the orders, and a chore re-arms or attaches a stop.  Orders  *)
(* and stops (GTTs) live at the broker; lines, orders and the position are *)
(* rows of a database.                                                     *)
(*                                                                         *)
(* A confirm and a report each run in one transaction that holds a         *)
(* tw_session row (FOR UPDATE NOWAIT).  A step ends at a call of the       *)
(* broker; what was written is visible, and survives a death, only after   *)
(* the commit, while the broker keeps what it was told.  The two processes *)
(* are "web" (confirms, chores) and "pass" (reports).                      *)
(*                                                                         *)
(* Left out: dry runs, a second confirm of a line that is being confirmed, *)
(* and a chore at the same time as a confirm or a report.                  *)
(***************************************************************************)
EXTENDS Integers, FiniteSets

CONSTANTS
  BuyQty, SellQty,  \* shares the buy and the sell line ask for
  InitialStop,      \* initial_stop at the fill price
  ArmAt,            \* the level of the ARM_GTT line
  RaiseTo,          \* the level of each RAISE_GTT_STOP line
  PlanRow,          \* the session row the plan's date names: "today", or an earlier one
  MaxGtts,          \* bound: triggers ever armed
  MaxFaults         \* bound: deaths, blocked and failed calls, lost replies

Raises == DOMAIN RaiseTo
Orders == {"buy", "sell"}
Lines  == Orders \cup {"arm"} \cup Raises
Gtts   == 1 .. MaxGtts
Levels == {0, InitialStop, ArmAt} \cup {RaiseTo[l] : l \in Raises}
Qty    == [buy |-> BuyQty, sell |-> SellQty]

ASSUME TwtAssumption ==
  /\ BuyQty \in Nat \ {0} /\ SellQty \in 1 .. BuyQty
  /\ InitialStop \in Nat \ {0} /\ ArmAt \in Nat \ {0}
  /\ \A l \in Raises : RaiseTo[l] \in Nat \ {0}
  /\ Raises \cap (Orders \cup {"arm", "fill", "rearm", "none"}) = {}
  /\ PlanRow \in {"plan", "today"}
  /\ MaxGtts \in Nat /\ MaxFaults \in Nat

VARIABLES
  line,       \* tw_plan_line.state
  row,        \* tw_order and the exit order: state, filled_quantity
  pos,        \* tw_position
  lock,       \* who holds a session row
  op,         \* the handler each process is in
  key,        \* client ids of the stops in the gateways' maps and journals
  ord,        \* the broker's orders
  gtt, armed, \* the broker's triggers, and how many were ever armed
  faults,
  stray       \* history: triggers a failed call, a lost reply or a death left unaccounted for

broker == <<ord, gtt, armed>>
vars   == <<line, row, pos, lock, op, key, ord, gtt, armed, faults, stray>>

Procs   == {"web", "pass"}
Rows    == {"plan", "today"}
Columns == {"entered", "open", "closed", "gtt", "trig", "stop"}
Cids    == {"fill", "rearm", "arm"} \cup Raises
Owner(c) == IF c = "fill" THEN "pass" ELSE "web"
Position == [entered : 0 .. BuyQty, open : 0 .. BuyQty, closed : BOOLEAN,
             gtt : Gtts \cup {0}, trig : Levels, stop : Levels]
NoPos == [entered |-> 0, open |-> 0, closed |-> FALSE, gtt |-> 0, trig |-> 0, stop |-> 0]
Report == [status : {"none", "OPEN", "COMPLETE", "DEAD"}, filled : 0 .. BuyQty]
NoReport == [status |-> "none", filled |-> 0]
OrderRow == [state : {"none", "SENT", "PARTIAL", "FILLED", "DEAD"}, filled : 0 .. BuyQty]
NoRow == [state |-> "none", filled |-> 0]

\* A handler: where it is, what it handles, the report it read, the exit order it read, its copy
\* of the position with the columns it wrote, what becomes of line and order, the trigger it
\* armed and the one it cancelled or resized.
Op == [pc : {"free", "read", "place", "cancel", "arm", "resize", "commit"},
       of : Lines \cup {"none", "rearm"}, report : Report, was : OrderRow, pos : Position,
       cols : SUBSET Columns, line : {"PROPOSED", "SENT", "FILLED", "REJECTED"}, row : OrderRow,
       new : Gtts \cup {0}, moved : Gtts \cup {0}]
NoOp == [pc |-> "free", of |-> "none", report |-> NoReport, was |-> NoRow, pos |-> NoPos,
         cols |-> {}, line |-> "PROPOSED", row |-> NoRow, new |-> 0, moved |-> 0]

Init ==
  /\ line = [l \in Lines |-> "PROPOSED"]
  /\ row = [o \in Orders |-> NoRow]
  /\ pos = NoPos
  /\ lock = [r \in Rows |-> "none"]
  /\ op = [p \in Procs |-> NoOp]
  /\ key = [c \in Cids |-> "free"]
  /\ ord = [o \in Orders |-> NoReport]
  /\ gtt = [i \in Gtts |-> [live |-> FALSE, qty |-> 0, level |-> 0]]
  /\ armed = 0 /\ faults = 0 /\ stray = {}

-----------------------------------------------------------------------------
Fault == faults < MaxFaults /\ faults' = faults + 1
Larger(a, b) == IF a > b THEN a ELSE b

\* mutant: the recorded stop is forgotten while a trigger rests
RestingTriggerOnly(p) == IF p.trig = 0 THEN p.stop ELSE p.trig

\* resting_trigger
RestingTrigger(p) == Larger(p.stop, p.trig)

\* open_position_for, position_for_line
IsOpen == pos.open > 0 /\ ~pos.closed

\* What the handler wrote, over what is committed.
Merged(o) == [f \in Columns |-> IF f \in o.cols THEN o.pos[f] ELSE pos[f]]

Writes(o, fields, p) == [o EXCEPT !.cols = @ \cup fields, !.pos = p]
Ends(o, l, r)        == [o EXCEPT !.pc = "commit", !.line = l, !.row = r]

-----------------------------------------------------------------------------
\* The conditions of the four handlers that the book alone decides.
Admits(l) ==
  CASE l = "buy"  -> TRUE
    [] l = "sell" -> IsOpen /\ SellQty <= pos.open
    [] l = "arm"  -> IsOpen /\ pos.gtt = 0
    [] OTHER      -> IsOpen /\ RaiseTo[l] > RestingTrigger(pos)

\* execute_line: the line is PROPOSED, the plan's session row is free, and the handler goes on
\* to its first call of the broker ...
Confirm(l) ==
  /\ op["web"].pc = "free" /\ line[l] = "PROPOSED"
  /\ lock[PlanRow] = "none" /\ Admits(l)
  /\ lock' = [lock EXCEPT ![PlanRow] = "web"]
  /\ op' = [op EXCEPT !["web"] =
       [NoOp EXCEPT !.of = l, !.pos = pos,
                    !.pc = CASE l \in Orders -> "place"
                             [] l \in Raises /\ pos.gtt # 0 -> "cancel"
                             [] OTHER -> "arm"]]
  /\ UNCHANGED <<line, row, pos, key, broker, faults, stray>>

\* ... or refuses: the book, or (for all but a sale) the caps, the capital and the prices.
Refuse(l) ==
  /\ op["web"].pc = "free" /\ line[l] = "PROPOSED"
  /\ lock[PlanRow] = "none" /\ (l # "sell" \/ ~Admits(l))
  /\ line' = [line EXCEPT ![l] = "REJECTED"]
  /\ UNCHANGED <<row, pos, lock, op, key, broker, faults, stray>>

\* buy_at_open, sell_at_open: the order is accepted, is the duplicate of one accepted before a
\* death, is refused, or its reply is lost (the order is then unknown to the book).
Place(o) ==
  /\ op["web"].pc = "place" /\ op["web"].of = o
  /\ \/ /\ ord' = [ord EXCEPT ![o] = IF @.status = "none" THEN [@ EXCEPT !.status = "OPEN"] ELSE @]
        /\ op' = [op EXCEPT !["web"] = Ends(@, "SENT", [NoRow EXCEPT !.state = "SENT"])]
        /\ UNCHANGED faults
     \/ /\ ord[o].status = "none" /\ Fault
        /\ op' = [op EXCEPT !["web"] = Ends(@, "REJECTED", NoRow)]
        /\ UNCHANGED ord
  /\ UNCHANGED <<line, row, pos, lock, key, gtt, armed, stray>>

-----------------------------------------------------------------------------
\* cancel, of the trigger in the handler's copy: it is gone at the broker and the gateway says
\* so, or does not (no such trigger, a failure, a lost reply).
Deleted(p) ==
  /\ gtt[op[p].pos.gtt].live
  /\ gtt' = [gtt EXCEPT ![op[p].pos.gtt].live = FALSE]
  /\ UNCHANGED <<faults, stray>>
NotDeleted(p) ==
  LET i == op[p].pos.gtt
  IN  \/ ~gtt[i].live /\ UNCHANGED <<gtt, faults, stray>>
      \/ /\ gtt[i].live /\ Fault
         /\ \E there \in BOOLEAN : gtt' = [gtt EXCEPT ![i].live = there]
         /\ stray' = stray \cup {i}

\* raise_gtt_stop: without the old trigger cancelled nothing is armed.
CancelOld ==
  /\ op["web"].pc = "cancel"
  /\ \/ /\ Deleted("web")
        /\ op' = [op EXCEPT !["web"].pc = "arm", !["web"].moved = op["web"].pos.gtt]
     \/ /\ NotDeleted("web")
        /\ op' = [op EXCEPT !["web"] = Ends(@, "REJECTED", NoRow)]
  /\ UNCHANGED <<line, row, pos, lock, key, ord, armed>>

\* The client id and the level a handler arms with.
Cid(p)   == IF p = "pass" THEN "fill" ELSE op[p].of
Level(p) == CASE Cid(p) = "arm" -> ArmAt
              [] Cid(p) \in Raises -> RaiseTo[Cid(p)]
              [] OTHER -> RestingTrigger(op[p].pos)

\* The handler's record once the gateway answered GTT_PLACED with trigger i ...
ArmedWith(p, i) ==
  LET o == op[p]
      raised == IF o.of \in Raises THEN [o.pos EXCEPT !.stop = Level(p)] ELSE o.pos
  IN  [Writes(o, {"gtt", "trig"} \cup IF o.of \in Raises THEN {"stop"} ELSE {},
              [raised EXCEPT !.gtt = i, !.trig = Level(p)])
       EXCEPT !.pc = "commit", !.new = i, !.line = IF p = "web" THEN "FILLED" ELSE @]

\* mutant: after a raise that armed nothing the row still names the cancelled trigger
NotArmedKeeps(p) ==
  LET o == op[p]
  IN  CASE p = "pass" -> [o EXCEPT !.pc = "commit"]
        [] o.of \in Raises -> [Writes(o, {"stop"}, [o.pos EXCEPT !.stop = Level(p)])
                               EXCEPT !.pc = "commit", !.line = "REJECTED"]
        [] OTHER -> [o EXCEPT !.pc = "commit", !.line = "REJECTED"]

\* ... and once it answered anything else: the position is naked, the raised stop recorded.
NotArmed(p) ==
  LET o == op[p]
  IN  CASE p = "pass" -> [o EXCEPT !.pc = "commit"]
        [] o.of \in Raises ->
             [Writes(o, {"stop", "gtt", "trig"},
                     [o.pos EXCEPT !.stop = Level(p), !.gtt = 0, !.trig = 0])
              EXCEPT !.pc = "commit", !.line = "REJECTED"]
        [] OTHER -> [o EXCEPT !.pc = "commit", !.line = "REJECTED"]

Rests(p, i) ==
  /\ armed' = i
  /\ gtt' = [gtt EXCEPT ![i] = [live |-> TRUE, qty |-> op[p].pos.open, level |-> Level(p)]]

\* arm: the trigger rests; its client id is a duplicate; the gateway blocks it; the call fails,
\* with or without a trigger at the broker, and the client id stays reserved.
Arm(p) ==
  /\ op[p].pc = "arm"
  /\ \/ /\ key[Cid(p)] = "free" /\ armed < MaxGtts
        /\ Rests(p, armed + 1)
        /\ key' = [key EXCEPT ![Cid(p)] = "placed"]
        /\ op' = [op EXCEPT ![p] = ArmedWith(p, armed + 1)]
        /\ UNCHANGED <<faults, stray>>
     \/ /\ op' = [op EXCEPT ![p] = NotArmed(p)]
        /\ \/ key[Cid(p)] # "free" /\ UNCHANGED <<key, gtt, armed, faults, stray>>
           \/ key[Cid(p)] = "free" /\ Fault /\ UNCHANGED <<key, gtt, armed, stray>>
           \/ /\ key[Cid(p)] = "free" /\ Fault
              /\ key' = [key EXCEPT ![Cid(p)] = "pending"]
              /\ \/ UNCHANGED <<gtt, armed, stray>>
                 \/ /\ armed < MaxGtts /\ Rests(p, armed + 1)
                    /\ stray' = stray \cup {armed + 1}
  /\ UNCHANGED <<line, row, pos, lock, ord>>

-----------------------------------------------------------------------------
\* reconcile_orders: the pass has the broker's report of an open order, and its row.
ReadReport(o) ==
  /\ op["pass"].pc = "free" /\ op["web"].of # "rearm"
  /\ row[o].state \in {"SENT", "PARTIAL"} /\ ord[o].status # "none"
  /\ \/ ord[o].filled > row[o].filled
     \/ ord[o].status \in {"COMPLETE", "DEAD"}
  /\ op' = [op EXCEPT !["pass"] =
       [NoOp EXCEPT !.pc = "read", !.of = o, !.report = ord[o], !.was = row[o]]]
  /\ UNCHANGED <<line, row, pos, lock, key, broker, faults, stray>>

\* mutant: a report of any fill closes the order
RowAfterAnyFill(rep, filled, any) ==
  [state |-> IF any THEN "FILLED" ELSE "DEAD", filled |-> filled]

\* The order row and the line after a report; a dead order that sold or bought some is FILLED.
RowAfter(rep, filled, any) ==
  [state |-> CASE rep.status = "DEAD" -> IF any THEN "FILLED" ELSE "DEAD"
               [] rep.status = "COMPLETE" -> "FILLED"
               [] OTHER -> "PARTIAL",
   filled |-> filled]
LineAfter(r) ==
  CASE r.state = "FILLED" -> "FILLED" [] r.state = "DEAD" -> "REJECTED" [] OTHER -> "SENT"

\* mutant: the whole fill enters again
BoughtAgain(o, filled) ==
  IF pos.entered = 0
  THEN Writes(o, Columns, [NoPos EXCEPT !.entered = filled, !.open = filled, !.stop = InitialStop])
  ELSE Writes(o, {"entered", "open"}, [pos EXCEPT !.entered = filled, !.open = @ + filled])

\* apply_fill and grow_position: what is new enters the position.
Bought(o, filled) ==
  IF pos.entered = 0
  THEN Writes(o, Columns, [NoPos EXCEPT !.entered = filled, !.open = filled, !.stop = InitialStop])
  ELSE Writes(o, {"entered", "open"},
              [pos EXCEPT !.entered = filled, !.open = @ + (filled - pos.entered)])

\* on_order_update of the buy: today's row is locked, the order is read again, the fill is
\* written, and then the stop is armed or resized.  (A first fill leaves the line as it is.)
ApplyBuy ==
  LET o    == op["pass"]
      now  == row["buy"]
      more == o.report.filled > now.filled
      kept == Larger(o.report.filled, now.filled)
      r    == RowAfter(o.report, kept, kept > 0)
      new  == more /\ pos.entered = 0 /\ o.report.status # "DEAD"
      done == Ends([o EXCEPT !.pos = pos], IF new THEN line["buy"] ELSE LineAfter(r), r)
  IN  /\ o.pc = "read" /\ o.of = "buy" /\ lock["today"] = "none"
      /\ lock' = [lock EXCEPT !["today"] = "pass"]
      /\ op' = [op EXCEPT !["pass"] =
           IF more THEN [Bought(done, kept) EXCEPT !.pc = IF pos.gtt = 0 THEN "arm" ELSE "resize"]
           ELSE done]
      /\ UNCHANGED <<line, row, pos, key, broker, faults, stray>>

\* mutant: the whole fill is taken off again
SoldWhole(o) ==
  LET rest == Larger(0, pos.open - o.report.filled)
  IN  Writes(o, {"open"} \cup IF rest = 0 THEN {"closed"} ELSE {},
             [pos EXCEPT !.open = rest, !.closed = IF rest = 0 THEN TRUE ELSE @])

\* apply_exit_fill: what is new, against the exit order as it was read, leaves the position.
Sold(o) ==
  LET rest == Larger(0, pos.open - (o.report.filled - o.was.filled))
  IN  Writes(o, {"open"} \cup IF rest = 0 THEN {"closed"} ELSE {},
             [pos EXCEPT !.open = rest, !.closed = IF rest = 0 THEN TRUE ELSE @])

\* apply_exit_update: the sale is written, then the stop is cancelled or resized.
ApplySell ==
  LET o    == op["pass"]
      more == o.report.filled > o.was.filled
      kept == Larger(o.report.filled, o.was.filled)
      r    == RowAfter(o.report, kept, kept > 0)
      done == Ends([o EXCEPT !.pos = pos], LineAfter(r), r)
      sold == Sold(done)
  IN  /\ o.pc = "read" /\ o.of = "sell" /\ lock["today"] = "none"
      /\ lock' = [lock EXCEPT !["today"] = "pass"]
      /\ op' = [op EXCEPT !["pass"] =
           IF ~more THEN done
           ELSE [sold EXCEPT !.pc = CASE pos.gtt = 0 -> "commit"
                                      [] pos.gtt # 0 /\ sold.pos.open = 0 -> "cancel"
                                      [] OTHER -> "resize"]]
      /\ UNCHANGED <<line, row, pos, key, broker, faults, stray>>

\* The stop of a closed position is cancelled; when that fails the row keeps it.
CancelClosed ==
  /\ op["pass"].pc = "cancel"
  /\ \/ /\ Deleted("pass")
        /\ op' = [op EXCEPT !["pass"] =
             [Writes(@, {"gtt", "trig"}, [@.pos EXCEPT !.gtt = 0, !.trig = 0])
              EXCEPT !.pc = "commit", !.moved = op["pass"].pos.gtt]]
     \/ /\ NotDeleted("pass")
        /\ op' = [op EXCEPT !["pass"].pc = "commit"]
  /\ UNCHANGED <<line, row, pos, lock, key, ord, armed>>

\* mutant: the stop is left at the quantity it was armed for
ResizeNothing ==
  /\ op["pass"].pc = "resize"
  /\ op' = [op EXCEPT !["pass"].pc = "commit"]
  /\ UNCHANGED <<line, row, pos, lock, key, broker, faults, stray>>

\* resize_gtt, to what the position now holds; a failure is only reported.
Resize ==
  LET i == op["pass"].pos.gtt
  IN  /\ op["pass"].pc = "resize"
      /\ \/ /\ gtt[i].live
            /\ gtt' = [gtt EXCEPT ![i].qty = op["pass"].pos.open,
                                  ![i].level = RestingTrigger(op["pass"].pos)]
            /\ UNCHANGED <<faults, stray>>
         \/ ~gtt[i].live /\ UNCHANGED <<gtt, faults, stray>>
         \/ Fault /\ stray' = stray \cup {i} /\ UNCHANGED gtt
      /\ op' = [op EXCEPT !["pass"].pc = "commit", !["pass"].moved = i]
      /\ UNCHANGED <<line, row, pos, lock, key, ord, armed>>

\* leave_session_lock: the transaction commits and its row is free.  A confirm writes the
\* position just before; it waits while a report has written it and not committed.
Commit(p) ==
  LET o == op[p]
  IN  /\ o.pc = "commit" /\ (p = "web" /\ o.cols # {} => op["pass"].cols = {})
      /\ pos' = Merged(o)
      /\ line' = IF o.of \in Lines THEN [line EXCEPT ![o.of] = o.line] ELSE line
      /\ row' = IF o.of \in Orders /\ o.row # NoRow THEN [row EXCEPT ![o.of] = o.row] ELSE row
      /\ lock' = [r \in Rows |-> IF lock[r] = p THEN "none" ELSE lock[r]]
      /\ op' = [op EXCEPT ![p] = NoOp]
      /\ UNCHANGED <<key, broker, faults, stray>>

-----------------------------------------------------------------------------
\* rearm_gtt, sweep_naked: a stop for a naked position, without the session row.  (Its client
\* id is the day's: once that is spent another attempt is a duplicate and does nothing.)
Rearm ==
  /\ op["web"].pc = "free" /\ op["pass"].pc = "free"
  /\ IsOpen /\ pos.gtt = 0 /\ key["rearm"] = "free"
  /\ op' = [op EXCEPT !["web"] = [NoOp EXCEPT !.pc = "arm", !.of = "rearm", !.pos = pos]]
  /\ UNCHANGED <<line, row, pos, lock, key, broker, faults, stray>>

\* reconcile_gtts: a trigger found resting is attached to the naked position.
Attach(i) ==
  /\ op["web"].pc = "free" /\ op["pass"].pc = "free"
  /\ IsOpen /\ pos.gtt = 0 /\ gtt[i].live
  /\ pos' = [pos EXCEPT !.gtt = i, !.trig = gtt[i].level]
  /\ UNCHANGED <<line, row, lock, op, key, broker, faults, stray>>

\* The broker fills a share, or cancels or rejects what is left.
Fill(o) ==
  /\ ord[o].status = "OPEN"
  /\ ord' = [ord EXCEPT ![o] =
       [status |-> IF @.filled + 1 = Qty[o] THEN "COMPLETE" ELSE "OPEN", filled |-> @.filled + 1]]
  /\ UNCHANGED <<line, row, pos, lock, op, key, gtt, armed, faults, stray>>
Kill(o) ==
  /\ ord[o].status = "OPEN"
  /\ ord' = [ord EXCEPT ![o].status = "DEAD"]
  /\ UNCHANGED <<line, row, pos, lock, op, key, gtt, armed, faults, stray>>

\* A process dies and starts again: its transaction is rolled back, its reservations are
\* forgotten, what it journalled and what the broker did stays.
Die(p) ==
  /\ op[p].pc # "free" /\ Fault
  /\ op' = [op EXCEPT ![p] = NoOp]
  /\ lock' = [r \in Rows |-> IF lock[r] = p THEN "none" ELSE lock[r]]
  /\ key' = [c \in Cids |-> IF Owner(c) = p /\ key[c] = "pending" THEN "free" ELSE key[c]]
  /\ stray' = stray \cup ({op[p].new, op[p].moved} \ {0})
  /\ UNCHANGED <<line, row, pos, broker>>

Handle(p) == Arm(p) \/ Commit(p)
Pass == ApplyBuy \/ ApplySell \/ CancelClosed \/ Resize \/ Handle("pass")

Next ==
  \/ \E l \in Lines : Confirm(l) \/ Refuse(l)
  \/ \E o \in Orders : Place(o) \/ ReadReport(o) \/ Fill(o) \/ Kill(o)
  \/ CancelOld \/ Handle("web")
  \/ Pass
  \/ Rearm
  \/ \E i \in Gtts : Attach(i)
  \/ \E p \in Procs : Die(p)

Spec == Init /\ [][Next]_vars

(* The supervisor's pass runs on every tick, a handler's calls return, and a market order is     *)
(* filled or dies; nothing obliges the owner to confirm.                                         *)
Fairness ==
  /\ WF_vars(CancelOld) /\ WF_vars(Handle("web")) /\ WF_vars(\E o \in Orders : Place(o))
  /\ WF_vars(Pass)
  /\ \A o \in Orders : WF_vars(ReadReport(o)) /\ WF_vars(Fill(o) \/ Kill(o))

FairSpec == Spec /\ Fairness

-----------------------------------------------------------------------------
(* Every variable holds a value of its type, and a session row is held by a handler at work.     *)
TypeOK ==
  /\ line \in [Lines -> {"PROPOSED", "SENT", "FILLED", "REJECTED"}]
  /\ row \in [Orders -> OrderRow]
  /\ pos \in Position
  /\ lock \in [Rows -> Procs \cup {"none"}]
  /\ op \in [Procs -> Op]
  /\ key \in [Cids -> {"free", "pending", "placed"}]
  /\ ord \in [Orders -> Report]
  /\ gtt \in [Gtts -> [live : BOOLEAN, qty : 0 .. BuyQty, level : Levels]]
  /\ armed \in 0 .. MaxGtts /\ faults \in 0 .. MaxFaults /\ stray \subseteq Gtts
  /\ \A r \in Rows : lock[r] # "none" => op[lock[r]].pc \notin {"free", "read"}

(* However fills are split, however reports are repeated and whoever dies in between, the book   *)
(* counts each share once: what was entered is what the buy order reported, and what is open is  *)
(* that less what the sale reported.                                                             *)
SharesAddUp ==
  /\ pos.entered = row["buy"].filled /\ pos.entered <= ord["buy"].filled
  /\ pos.open + row["sell"].filled = pos.entered /\ row["sell"].filled <= ord["sell"].filled

Quiet == \A p \in Procs : op[p].pc = "free"

(* "Arming a second one would sell twice what is held when they fire": when nobody is at work,   *)
(* a trigger that rests at the broker is the one the position names, and it sells what is open;  *)
(* the exceptions are the triggers of failed calls, lost replies and deaths.                     *)
StopsMatchBook ==
  Quiet => \A i \in Gtts \ stray : gtt[i].live => pos.gtt = i /\ gtt[i].qty = pos.open

(* A position that names a trigger has it resting, unless a fault severed the two.               *)
NamedStopRests ==
  Quiet /\ pos.gtt # 0 /\ pos.gtt \notin stray => gtt[pos.gtt].live

(* "A stop never falls": whatever is raised, re-armed, attached or left naked, the level an open *)
(* position's next stop is judged against does not go down.                                      *)
StopNeverFalls ==
  [][IsOpen /\ IsOpen' => RestingTrigger(pos') >= RestingTrigger(pos)]_vars

(* What the broker filled is booked in the end, and the order row is closed.                     *)
EveryFillBooked ==
  \A o \in Orders : row[o].state = "SENT" ~> /\ row[o].state \in {"FILLED", "DEAD"}
                                             /\ row[o].filled = ord[o].filled
=============================================================================
