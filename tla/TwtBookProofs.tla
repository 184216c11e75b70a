--------------------------- MODULE TwtBookProofs ----------------------------
(* The shares of a TWT position add up, and its stop never falls, for every *)
(* plan, every quantity, every number of faults, and whichever session row  *)
(* the plan's date names.                                                   *)
EXTENDS TwtBook, TLAPS

WebOp  == op["web"]
PassOp == op["pass"]
Stops  == {"gtt", "trig", "stop"}
Arming == {"arm", "rearm"} \cup Raises

(* Where each process can be, and with what. *)
Shapes ==
  /\ \A p \in Procs : op[p].pc = "free" => op[p] = NoOp
  /\ WebOp.pc \in {"free", "place", "cancel", "arm", "commit"}
  /\ WebOp.pc # "free" => WebOp.of # "none"
  /\ WebOp.pc = "place" => WebOp.of \in Orders
  /\ WebOp.pc = "cancel" => WebOp.of \in Raises /\ WebOp.pos.gtt # 0
  /\ WebOp.pc = "arm" => WebOp.of \in Arming
  /\ WebOp.cols \subseteq Stops
  /\ PassOp.pc # "place" /\ (PassOp.pc # "free" => PassOp.of \in Orders)
  /\ PassOp.pc = "read" => PassOp.cols = {}
  /\ PassOp.pc = "arm" => PassOp.of = "buy"
  /\ PassOp.pc \in {"cancel", "resize"} => PassOp.pos.gtt # 0

(* A line that is still proposed has no order row; a confirm works on such a line, and what it *)
(* will write of an order is a row of an order the broker has.                                  *)
LinesFirst ==
  /\ \A o \in Orders : line[o] = "PROPOSED" => row[o] = NoRow
  /\ WebOp.of \in Orders => line[WebOp.of] = "PROPOSED"
  /\ WebOp.row # NoRow =>
       /\ WebOp.of \in Orders /\ WebOp.row = [state |-> "SENT", filled |-> 0]
       /\ WebOp.line = "SENT" /\ ord[WebOp.of].status # "none"

(* The broker's orders, and that a sale was confirmed against shares that were there. *)
OrdersSound ==
  /\ \A o \in Orders : ord[o].filled <= Qty[o]
  /\ \A o \in Orders : ord[o].status = "OPEN" => ord[o].filled < Qty[o]
  /\ \A o \in Orders : ord[o].status = "none" => ord[o].filled = 0
  /\ WebOp.of = "sell" => pos.entered >= SellQty
  /\ ord["sell"].status # "none" => pos.entered >= SellQty

(* What the pass read is still what the row says, and what it will commit adds up. *)
PassSound ==
  PassOp.pc # "free" =>
    /\ PassOp.was = row[PassOp.of] /\ row[PassOp.of].state \in {"SENT", "PARTIAL"}
    /\ PassOp.report.filled <= ord[PassOp.of].filled
    /\ PassOp.report.status # "none" /\ ord[PassOp.of].status # "none"
PassAddsUp ==
  PassOp.pc \notin {"free", "read"} =>
    LET o == PassOp
        m == Merged(PassOp)
    IN  /\ o.row.state # "none" /\ o.line # "PROPOSED"
        /\ row[o.of].filled <= o.row.filled /\ o.row.filled <= ord[o.of].filled
        /\ o.of = "buy" =>  /\ m.entered = o.row.filled
                            /\ m.open + row["sell"].filled = m.entered
        /\ o.of = "sell" => /\ m.entered = pos.entered
                            /\ m.open + o.row.filled = m.entered

(* Only a position that something was bought for names a stop. *)
Entered ==
  /\ pos.entered = 0 => pos.gtt = 0
  /\ WebOp.cols # {} => WebOp.of \in Arming
  /\ WebOp.of \in Arming => pos.entered > 0
  /\ PassOp.pc = "arm" => Merged(PassOp).entered > 0
  /\ PassOp.pc \notin {"free", "read"} /\ Merged(PassOp).entered = 0 => Merged(PassOp).gtt = 0

BookInv ==
  TypeOK /\ Shapes /\ LinesFirst /\ OrdersSound /\ PassSound /\ PassAddsUp /\ Entered /\ SharesAddUp

(* A naked position has no level, and a handler writes a trigger with its level. *)
Naked(o) ==
  /\ o.pos.gtt = 0 => o.pos.trig = 0
  /\ "gtt" \in o.cols <=> "trig" \in o.cols

(* A confirm that will move the stop moves it up, also from where the pass may leave it. *)
WebLevel(o) ==
  /\ o.of \in {"arm", "rearm"} => pos.trig <= pos.stop
  /\ o.of \in Raises => RaiseTo[o.of] > RestingTrigger(pos)
  /\ "stop" \in o.cols => o.of \in Raises /\ o.pos.stop = RaiseTo[o.of]
  /\ o.of \in Raises /\ "trig" \in o.cols => "stop" \in o.cols

(* A report that arms the stop of a position it finds naked arms it where it was, and one that *)
(* takes the stop away closes the position.                                                    *)
PassLevel(o) ==
  /\ o.pc = "arm" => o.cols # {}
  /\ o.pc = "cancel" => "open" \in o.cols /\ o.pos.open = 0
  /\ o.cols # {} /\ pos.entered > 0 =>
       /\ "stop" \notin o.cols
       /\ o.pc = "arm" => pos.trig = 0 /\ RestingTrigger(o.pos) = pos.stop
       /\ "trig" \in o.cols => /\ o.pos.trig <= RestingTrigger(pos)
                               /\ pos.trig = 0 \/ ("open" \in o.cols /\ o.pos.open = 0)

Levelled ==
  /\ pos.gtt = 0 => pos.trig = 0
  /\ Naked(WebOp) /\ Naked(PassOp) /\ WebLevel(WebOp) /\ PassLevel(PassOp)

-----------------------------------------------------------------------------
LEMMA Constants ==
  /\ BuyQty \in Nat /\ SellQty \in Nat /\ 1 <= SellQty /\ SellQty <= BuyQty
  /\ Qty["buy"] = BuyQty /\ Qty["sell"] = SellQty
  /\ Procs = {"web", "pass"} /\ Orders = {"buy", "sell"}
  /\ Orders \subseteq Lines /\ "arm" \in Lines /\ Raises \subseteq Lines
  /\ \A l \in Lines : l \in Orders \/ l = "arm" \/ l \in Raises
  /\ \A l \in Raises : l \notin Orders \cup {"arm", "fill", "rearm", "none"}
  /\ "none" \notin Lines /\ "rearm" \notin Lines
  /\ Levels \subseteq Nat /\ 0 \in Levels /\ InitialStop \in Levels /\ ArmAt \in Levels
  /\ \A l \in Raises : RaiseTo[l] \in Levels
  BY TwtAssumption DEF Qty, Procs, Orders, Lines, Raises, Levels

LEMMA NoOpTyped == NoOp \in Op /\ NoPos \in Position /\ NoRow \in OrderRow /\ NoReport \in Report
  BY Constants DEF NoOp, Op, NoPos, NoRow, NoReport, Position, OrderRow, Report, Columns


-----------------------------------------------------------------------------
\* TypeOK in three parts.
OpsOK  == op \in [Procs -> Op]
HeldOK == \A r \in Rows : lock[r] # "none" => op[lock[r]].pc \notin {"free", "read"}
RestOK ==
  /\ line \in [Lines -> {"PROPOSED", "SENT", "FILLED", "REJECTED"}]
  /\ row \in [Orders -> OrderRow]
  /\ pos \in Position
  /\ lock \in [Rows -> Procs \cup {"none"}]
  /\ key \in [Cids -> {"free", "pending", "placed"}]
  /\ ord \in [Orders -> Report]
  /\ gtt \in [Gtts -> [live : BOOLEAN, qty : 0 .. BuyQty, level : Levels]]
  /\ armed \in 0 .. MaxGtts /\ faults \in 0 .. MaxFaults /\ stray \subseteq Gtts

LEMMA Parts ==
  /\ TypeOK <=> OpsOK /\ HeldOK /\ RestOK
  /\ TypeOK' <=> OpsOK' /\ HeldOK' /\ RestOK'
  BY DEF TypeOK, OpsOK, HeldOK, RestOK

LEMMA FaultTyped == ASSUME RestOK, Fault PROVE faults' \in 0 .. MaxFaults
  BY TwtAssumption DEF RestOK, Fault

LEMMA Typed ==
  ASSUME BookInv
  PROVE  /\ TypeOK /\ OpsOK /\ HeldOK /\ RestOK /\ WebOp \in Op /\ PassOp \in Op
         /\ pos \in Position /\ pos.entered \in Nat /\ pos.open \in Nat
         /\ \A o \in Orders : /\ row[o] \in OrderRow /\ ord[o] \in Report
                              /\ row[o].filled \in 0 .. BuyQty /\ ord[o].filled \in 0 .. BuyQty
<1>1. TypeOK /\ OpsOK /\ HeldOK /\ RestOK
  BY Parts DEF BookInv
<1>2. WebOp \in Op /\ PassOp \in Op
  BY <1>1 DEF OpsOK, Procs, WebOp, PassOp
<1>3. pos \in Position /\ pos.entered \in Nat /\ pos.open \in Nat
  BY <1>1, Constants DEF RestOK, Position
<1> QED
  BY <1>1, <1>2, <1>3 DEF RestOK, OrderRow, Report

(* A step of one process leaves the other's handler as it was. *)
LEMMA OpStep ==
  ASSUME OpsOK, NEW p \in Procs, NEW x \in Op, op' = [op EXCEPT ![p] = x]
  PROVE  /\ OpsOK' /\ op'[p] = x
         /\ \A q \in Procs : q # p => op'[q] = op[q]
         /\ p = "web" => WebOp' = x /\ PassOp' = PassOp
         /\ p = "pass" => PassOp' = x /\ WebOp' = WebOp
<1>1. OpsOK' /\ op'[p] = x /\ \A q \in Procs : q # p => op'[q] = op[q]
  BY DEF OpsOK
<1> QED
  BY <1>1 DEF WebOp, PassOp, Procs

LEMMA HeldKeeps ==
  ASSUME HeldOK, RestOK, NEW p \in Procs, op'[p].pc \notin {"free", "read"},
         \A q \in Procs : q # p => op'[q] = op[q],
         \A r \in Rows : lock'[r] \in {lock[r], p}
  PROVE  HeldOK'
<1> SUFFICES ASSUME NEW r \in Rows, lock'[r] # "none" PROVE op'[lock'[r]].pc \notin {"free", "read"}
  BY DEF HeldOK
<1>1. CASE lock'[r] = p
  BY <1>1
<1>2. CASE lock'[r] # p
  <2>1. lock'[r] = lock[r] /\ lock[r] \in Procs
    BY <1>2 DEF RestOK
  <2> QED
    BY <1>2, <2>1 DEF HeldOK
<1> QED
  BY <1>1, <1>2

LEMMA HeldFreed ==
  ASSUME HeldOK, RestOK, NEW p \in Procs, \A q \in Procs : q # p => op'[q] = op[q],
         lock' = [r \in Rows |-> IF lock[r] = p THEN "none" ELSE lock[r]]
  PROVE  HeldOK' /\ lock' \in [Rows -> Procs \cup {"none"}]
<1>1. lock' \in [Rows -> Procs \cup {"none"}]
  BY DEF RestOK
<1>2. ASSUME NEW r \in Rows, lock'[r] # "none" PROVE op'[lock'[r]].pc \notin {"free", "read"}
  <2>1. lock'[r] = lock[r] /\ lock[r] \in Procs /\ lock[r] # p
    BY <1>2 DEF RestOK
  <2> QED
    BY <1>2, <2>1 DEF HeldOK
<1> QED
  BY <1>1, <1>2 DEF HeldOK

\* A step of the web process that writes nothing of the book leaves the pass's part alone ...
LEMMA WebOnly ==
  ASSUME BookInv, UNCHANGED <<row, pos, ord>>, PassOp' = PassOp
  PROVE  PassSound' /\ PassAddsUp' /\ SharesAddUp'
<1>1. Merged(PassOp)' = Merged(PassOp)
  BY DEF Merged
<1> QED
  BY <1>1 DEF BookInv, PassSound, PassAddsUp, SharesAddUp

\* ... and a step of the pass the web's.
LEMMA PassOnly ==
  ASSUME BookInv, UNCHANGED <<line, row, pos, ord>>, WebOp' = WebOp
  PROVE  LinesFirst' /\ OrdersSound' /\ SharesAddUp'
  BY DEF BookInv, LinesFirst, OrdersSound, SharesAddUp

\* The columns of a merged position.
LEMMA MergedTyped ==
  ASSUME BookInv, NEW o \in Op
  PROVE  /\ Merged(o) \in Position
         /\ Merged(o).entered = IF "entered" \in o.cols THEN o.pos.entered ELSE pos.entered
         /\ Merged(o).open = IF "open" \in o.cols THEN o.pos.open ELSE pos.open
         /\ Merged(o).closed = IF "closed" \in o.cols THEN o.pos.closed ELSE pos.closed
         /\ Merged(o).gtt = IF "gtt" \in o.cols THEN o.pos.gtt ELSE pos.gtt
         /\ Merged(o).trig = IF "trig" \in o.cols THEN o.pos.trig ELSE pos.trig
         /\ Merged(o).stop = IF "stop" \in o.cols THEN o.pos.stop ELSE pos.stop
<1>1. pos \in Position /\ o.pos \in Position /\ o.cols \in SUBSET Columns
  BY Typed DEF Op
<1>2. Merged(o) \in Position
  BY <1>1 DEF Merged, Position, Columns
<1> QED
  BY <1>1, <1>2 DEF Merged, Columns

-----------------------------------------------------------------------------
LEMMA ConfirmKeeps ==
  ASSUME BookInv, NEW l \in Lines, Confirm(l)
  PROVE  BookInv'
<1> DEFINE x == [NoOp EXCEPT !.of = l, !.pos = pos,
                    !.pc = CASE l \in Orders -> "place"
                             [] l \in Raises /\ pos.gtt # 0 -> "cancel"
                             [] OTHER -> "arm"]
<1>0. OpsOK /\ HeldOK /\ RestOK /\ pos \in Position
  BY Typed
<1>1. /\ x \in Op /\ x.of = l /\ x.pos = pos /\ x.cols = {} /\ x.row = NoRow
      /\ x.pc \in {"place", "cancel", "arm"}
      /\ x.pc = "place" <=> l \in Orders
      /\ x.pc = "cancel" => l \in Raises /\ pos.gtt # 0
      /\ x.pc = "arm" => l \in Arming
  BY <1>0, NoOpTyped, Constants DEF Op, NoOp, Arming
<1>2. /\ OpsOK' /\ WebOp' = x /\ PassOp' = PassOp /\ op'["web"] = x /\ op'["pass"] = op["pass"]
      /\ \A q \in Procs : q # "web" => op'[q] = op[q]
      /\ WebOp.pc = "free" /\ line[l] = "PROPOSED" /\ lock[PlanRow] = "none" /\ Admits(l)
      /\ lock' = [lock EXCEPT ![PlanRow] = "web"]
      /\ UNCHANGED <<line, row, pos, key, ord, gtt, armed, faults, stray>>
  <2>1. "web" \in Procs /\ "pass" \in Procs /\ op' = [op EXCEPT !["web"] = x]
    BY DEF Confirm, Procs
  <2> HIDE DEF x
  <2>2. OpsOK' /\ WebOp' = x /\ PassOp' = PassOp /\ op'["web"] = x /\ \A q \in Procs : q # "web" => op'[q] = op[q]
    BY <1>0, <1>1, <2>1, OpStep
  <2> QED
    BY <2>1, <2>2 DEF Confirm, broker, WebOp
<1> HIDE DEF x
<1>3. TypeOK'
  <2>1. lock' \in [Rows -> Procs \cup {"none"}] /\ \A r \in Rows : lock'[r] \in {lock[r], "web"}
    BY <1>0, <1>2, TwtAssumption DEF RestOK, Rows, Procs
  <2>2. RestOK'
    BY <1>0, <1>2, <2>1 DEF RestOK
  <2>3. HeldOK'
    BY <1>0, <1>1, <1>2, <2>1, HeldKeeps DEF Procs
  <2> QED
    BY <1>2, <2>2, <2>3, Parts
<1>4. Shapes'
  BY <1>1, <1>2, Constants DEF BookInv, Shapes
<1>5. LinesFirst'
  BY <1>1, <1>2 DEF BookInv, LinesFirst
<1>6. OrdersSound'
  <2>1. l = "sell" => pos.entered >= SellQty
    BY <1>2, Typed, Constants DEF BookInv, SharesAddUp, Admits
  <2> QED
    BY <1>1, <1>2, <2>1 DEF BookInv, OrdersSound
<1>7. PassSound' /\ PassAddsUp' /\ SharesAddUp'
  BY <1>2, WebOnly
<1>8. Entered'
  <2>1. l \in Arming => pos.open > 0
    BY <1>2, Constants DEF Admits, IsOpen, Arming
  <2>2. l \in Arming => pos.entered > 0
    BY <2>1, Typed, Constants DEF BookInv, SharesAddUp
  <2>3. Merged(PassOp)' = Merged(PassOp)
    BY <1>2 DEF Merged
  <2> QED
    BY <1>1, <1>2, <2>2, <2>3 DEF BookInv, Entered
<1> QED
  BY <1>3, <1>4, <1>5, <1>6, <1>7, <1>8 DEF BookInv

LEMMA RefuseKeeps ==
  ASSUME BookInv, NEW l \in Lines, Refuse(l)
  PROVE  BookInv'
<1>0. OpsOK /\ HeldOK /\ RestOK
  BY Typed
<1>1. /\ UNCHANGED <<row, pos, lock, op, key, ord, gtt, armed, faults, stray>> /\ WebOp' = WebOp /\ PassOp' = PassOp
      /\ WebOp.pc = "free" /\ line' = [line EXCEPT ![l] = "REJECTED"]
  BY DEF Refuse, broker, WebOp, PassOp
<1>2. TypeOK'
  BY <1>0, <1>1, Parts DEF OpsOK, HeldOK, RestOK
<1>3. WebOp = NoOp
  BY <1>1 DEF BookInv, Shapes, WebOp, Procs
<1>4. LinesFirst'
  <2>1. \A o \in Orders : line'[o] = "PROPOSED" => line[o] = "PROPOSED"
    BY <1>0, <1>1, Constants DEF RestOK
  <2>2. NoOp.of \notin Orders /\ NoOp.row = NoRow
    BY Constants DEF NoOp
  <2> QED
    BY <1>1, <1>3, <2>1, <2>2 DEF BookInv, LinesFirst
<1>5. Shapes' /\ OrdersSound'
  BY <1>1 DEF BookInv, Shapes, OrdersSound
<1>6. PassSound' /\ PassAddsUp' /\ SharesAddUp'
  BY <1>1, WebOnly
<1>7. Entered'
  <2>1. Merged(PassOp)' = Merged(PassOp)
    BY <1>1 DEF Merged
  <2> QED
    BY <1>1, <2>1 DEF BookInv, Entered
<1> QED
  BY <1>2, <1>4, <1>5, <1>6, <1>7 DEF BookInv

\* A handler's record when it ends.
LEMMA EndsTyped ==
  ASSUME NEW o \in Op, NEW l \in {"PROPOSED", "SENT", "FILLED", "REJECTED"}, NEW r \in OrderRow
  PROVE  /\ Ends(o, l, r) \in Op /\ Ends(o, l, r).pc = "commit"
         /\ Ends(o, l, r).line = l /\ Ends(o, l, r).row = r
         /\ Ends(o, l, r).of = o.of /\ Ends(o, l, r).pos = o.pos /\ Ends(o, l, r).cols = o.cols
         /\ Ends(o, l, r).report = o.report /\ Ends(o, l, r).was = o.was
  BY DEF Ends, Op

LEMMA PlaceKeeps ==
  ASSUME BookInv, NEW o \in Orders, Place(o)
  PROVE  BookInv'
<1>0. /\ OpsOK /\ HeldOK /\ RestOK /\ WebOp \in Op /\ "web" \in Procs
      /\ WebOp.pc = "place" /\ WebOp.of = o /\ WebOp.cols \subseteq Stops /\ WebOp # NoOp
  BY Typed DEF Place, WebOp, BookInv, Shapes, Procs, NoOp
<1>1. PICK x \in Op : /\ op' = [op EXCEPT !["web"] = x]
                      /\ x.pc = "commit" /\ x.of = o /\ x.cols = WebOp.cols
                      /\ \/ /\ x.row = [state |-> "SENT", filled |-> 0] /\ x.line = "SENT"
                            /\ ord' = [ord EXCEPT ![o] = IF @.status = "none" THEN [@ EXCEPT !.status = "OPEN"] ELSE @]
                            /\ faults' = faults
                         \/ x.row = NoRow /\ ord' = ord /\ Fault
  <2>1. CASE op' = [op EXCEPT !["web"] = Ends(@, "REJECTED", NoRow)] /\ ord' = ord /\ Fault
    <3> DEFINE y == Ends(WebOp, "REJECTED", NoRow)
    <3>1. op' = [op EXCEPT !["web"] = y]
      BY <1>0, <2>1 DEF OpsOK, WebOp
    <3>2. y \in Op /\ y.pc = "commit" /\ y.row = NoRow /\ y.of = o /\ y.cols = WebOp.cols
      BY <1>0, NoOpTyped DEF Ends, Op
    <3> HIDE DEF y
    <3> QED
      BY <2>1, <3>1, <3>2
  <2>2. CASE /\ op' = [op EXCEPT !["web"] = Ends(@, "SENT", [NoRow EXCEPT !.state = "SENT"])]
             /\ ord' = [ord EXCEPT ![o] = IF @.status = "none" THEN [@ EXCEPT !.status = "OPEN"] ELSE @]
             /\ faults' = faults
    <3> DEFINE y == Ends(WebOp, "SENT", [NoRow EXCEPT !.state = "SENT"])
    <3>1. op' = [op EXCEPT !["web"] = y]
      BY <1>0, <2>2 DEF OpsOK, WebOp
    <3>2. [NoRow EXCEPT !.state = "SENT"] = [state |-> "SENT", filled |-> 0] /\ [state |-> "SENT", filled |-> 0] \in OrderRow
      BY Constants DEF NoRow, OrderRow
    <3>3. /\ y \in Op /\ y.pc = "commit" /\ y.row = [state |-> "SENT", filled |-> 0] /\ y.line = "SENT"
          /\ y.of = o /\ y.cols = WebOp.cols
      BY <1>0, <3>2 DEF Ends, Op
    <3> HIDE DEF y
    <3> QED
      BY <2>2, <3>1, <3>3
  <2> QED
    BY <2>1, <2>2 DEF Place
<1>2. /\ OpsOK' /\ WebOp' = x /\ PassOp' = PassOp /\ op'["web"] = x /\ op'["pass"] = op["pass"]
      /\ \A q \in Procs : q # "web" => op'[q] = op[q]
      /\ UNCHANGED <<line, row, pos, lock, key, gtt, armed, stray>>
  <2>1. OpsOK' /\ WebOp' = x /\ PassOp' = PassOp /\ op'["web"] = x /\ \A q \in Procs : q # "web" => op'[q] = op[q]
    BY <1>0, <1>1, OpStep
  <2> QED
    BY <2>1 DEF Place, Procs
<1>3. /\ ord' \in [Orders -> Report]
      /\ \A k \in Orders : /\ ord'[k].filled = ord[k].filled
                           /\ ord'[k].status = ord[k].status \/ (k = o /\ ord[k].status = "none" /\ ord'[k].status = "OPEN")
  BY <1>0, <1>1 DEF RestOK, Report
<1>4. TypeOK'
  <2>1. faults' \in 0 .. MaxFaults
    BY <1>0, <1>1, FaultTyped DEF RestOK
  <2>2. HeldOK'
    BY <1>0, <1>1, <1>2, HeldKeeps
  <2>3. RestOK'
    BY <1>0, <1>2, <1>3, <2>1 DEF RestOK
  <2> QED
    BY <1>2, <2>2, <2>3, Parts
<1>5. Shapes'
  BY <1>0, <1>1, <1>2, Constants DEF BookInv, Shapes
<1>6. LinesFirst'
  <2>1. x.row # NoRow => x.line = "SENT" /\ x.row = [state |-> "SENT", filled |-> 0] /\ ord'[o].status # "none"
    BY <1>0, <1>1 DEF RestOK, Report
  <2>2. line[o] = "PROPOSED"
    BY <1>0 DEF BookInv, LinesFirst
  <2> QED
    BY <1>1, <1>2, <2>1, <2>2 DEF BookInv, LinesFirst
<1>7. OrdersSound'
  <2>1. \A k \in Orders : Qty[k] \in Nat /\ Qty[k] > 0
    BY Constants
  <2>2. o = "sell" => pos.entered >= SellQty
    BY <1>0 DEF BookInv, OrdersSound
  <2>3. \A k \in Orders : ord'[k].filled <= Qty[k] /\ (ord'[k].status = "none" => ord'[k].filled = 0)
    BY <1>3 DEF BookInv, OrdersSound
  <2>4. \A k \in Orders : ord'[k].status = "OPEN" => ord'[k].filled < Qty[k]
    BY <1>3, <2>1 DEF BookInv, OrdersSound
  <2>5. ord'["sell"].status # "none" => pos.entered >= SellQty
    BY <1>3, <2>2, Constants DEF BookInv, OrdersSound
  <2> QED
    BY <1>1, <1>2, <2>2, <2>3, <2>4, <2>5 DEF OrdersSound
<1>8. PassSound' /\ PassAddsUp' /\ SharesAddUp'
  <2>1. Merged(PassOp)' = Merged(PassOp)
    BY <1>2 DEF Merged
  <2>2. \A k \in Orders : ord[k].status # "none" => ord'[k].status # "none"
    BY <1>3
  <2>3. PassOp.pc # "free" => PassOp.of \in Orders
    BY DEF BookInv, Shapes
  <2>4. PassSound'
    BY <1>2, <1>3, <2>2, <2>3 DEF BookInv, PassSound
  <2>5. PassAddsUp'
    BY <1>2, <1>3, <2>1, <2>3 DEF BookInv, PassAddsUp
  <2>6. SharesAddUp'
    BY <1>2, <1>3, Constants DEF BookInv, SharesAddUp
  <2> QED
    BY <2>4, <2>5, <2>6
<1>9. Entered'
  <2>1. Merged(PassOp)' = Merged(PassOp)
    BY <1>2 DEF Merged
  <2>2. o \notin Arming
    BY Constants DEF Arming
  <2> QED
    BY <1>0, <1>1, <1>2, <2>1, <2>2 DEF BookInv, Entered
<1> QED
  BY <1>4, <1>5, <1>6, <1>7, <1>8, <1>9 DEF BookInv

\* A step of a confirm of a stop, or of a chore: nothing of the book is written yet.
LEMMA WebMoves ==
  ASSUME BookInv, RestOK', UNCHANGED <<line, row, pos, ord, lock>>,
         NEW x \in Op, op' = [op EXCEPT !["web"] = x],
         x.pc \in {"arm", "commit"}, x.pc = "arm" => x.of \in Arming,
         x.of \in Arming, x.row = NoRow, x.cols \subseteq Stops, pos.entered > 0
  PROVE  BookInv'
<1>0. OpsOK /\ HeldOK /\ RestOK /\ "web" \in Procs
  BY Typed DEF Procs
<1>1. /\ OpsOK' /\ WebOp' = x /\ PassOp' = PassOp /\ op'["web"] = x /\ op'["pass"] = op["pass"]
      /\ \A q \in Procs : q # "web" => op'[q] = op[q]
  BY <1>0, OpStep DEF Procs
<1>2. HeldOK'
  BY <1>0, <1>1, HeldKeeps
<1>3. x.of \notin Orders /\ x.of # "none" /\ x.of # "sell"
  BY Constants DEF Arming
<1>4. Shapes'
  BY <1>1, <1>3, Constants DEF BookInv, Shapes
<1>5. LinesFirst' /\ OrdersSound'
  BY <1>1, <1>3 DEF BookInv, LinesFirst, OrdersSound
<1>6. PassSound' /\ PassAddsUp' /\ SharesAddUp'
  BY <1>1, WebOnly
<1>7. Entered'
  <2>1. Merged(PassOp)' = Merged(PassOp)
    BY <1>1 DEF Merged
  <2> QED
    BY <1>1, <2>1 DEF BookInv, Entered
<1> QED
  BY <1>1, <1>2, <1>4, <1>5, <1>6, <1>7, Parts DEF BookInv

\* What a cancel does to the broker's triggers.
LEMMA CancelTyped ==
  ASSUME RestOK, NEW p \in Procs, op[p].pos.gtt \in Gtts, Deleted(p) \/ NotDeleted(p)
  PROVE  /\ gtt' \in [Gtts -> [live : BOOLEAN, qty : 0 .. BuyQty, level : Levels]]
         /\ faults' \in 0 .. MaxFaults /\ stray' \subseteq Gtts
<1> PICK i : i = op[p].pos.gtt
  OBVIOUS
<1>1. CASE gtt' = gtt
  BY <1>1, FaultTyped DEF RestOK, Deleted, NotDeleted
<1>2. CASE \E b \in BOOLEAN : gtt' = [gtt EXCEPT ![i].live = b]
  <2>1. gtt' \in [Gtts -> [live : BOOLEAN, qty : 0 .. BuyQty, level : Levels]]
    BY <1>2 DEF RestOK
  <2> QED
    BY <2>1, FaultTyped DEF RestOK, Deleted, NotDeleted
<1> QED
  BY <1>1, <1>2 DEF Deleted, NotDeleted

LEMMA CancelOldKeeps ==
  ASSUME BookInv, CancelOld
  PROVE  BookInv'
<1>0. /\ OpsOK /\ HeldOK /\ RestOK /\ WebOp \in Op /\ "web" \in Procs
      /\ WebOp.pc = "cancel" /\ WebOp.of \in Raises /\ WebOp.pos.gtt # 0 /\ WebOp.cols \subseteq Stops
      /\ WebOp.row = NoRow /\ WebOp.of \in Arming /\ pos.entered > 0
  BY Typed, Constants DEF CancelOld, WebOp, BookInv, Shapes, Procs, LinesFirst, Arming, Entered
<1>1. op["web"].pos.gtt \in Gtts
  BY <1>0 DEF Op, Position, WebOp
<1>2. RestOK'
  BY <1>0, <1>1, CancelTyped DEF CancelOld, RestOK
<1>3. CASE op' = [op EXCEPT !["web"].pc = "arm", !["web"].moved = op["web"].pos.gtt]
  <2> DEFINE x == [WebOp EXCEPT !.pc = "arm", !.moved = WebOp.pos.gtt]
  <2>1. op' = [op EXCEPT !["web"] = x]
    BY <1>0, <1>3 DEF OpsOK, WebOp
  <2>2. x \in Op /\ x.pc = "arm" /\ x.of = WebOp.of /\ x.row = NoRow /\ x.cols \subseteq Stops
    BY <1>0, <1>1 DEF Op, WebOp
  <2> HIDE DEF x
  <2> QED
    BY <1>0, <1>2, <2>1, <2>2, WebMoves DEF CancelOld
<1>4. CASE op' = [op EXCEPT !["web"] = Ends(@, "REJECTED", NoRow)]
  <2> DEFINE x == Ends(WebOp, "REJECTED", NoRow)
  <2>1. op' = [op EXCEPT !["web"] = x]
    BY <1>0, <1>4 DEF OpsOK, WebOp
  <2>2. x \in Op /\ x.pc = "commit" /\ x.of = WebOp.of /\ x.row = NoRow /\ x.cols \subseteq Stops
    BY <1>0, NoOpTyped DEF Ends, Op
  <2> HIDE DEF x
  <2> QED
    BY <1>0, <1>2, <2>1, <2>2, WebMoves DEF CancelOld
<1> QED
  BY <1>3, <1>4 DEF CancelOld

LEMMA RearmKeeps ==
  ASSUME BookInv, Rearm
  PROVE  BookInv'
<1> DEFINE x == [NoOp EXCEPT !.pc = "arm", !.of = "rearm", !.pos = pos]
<1>1. x \in Op /\ x.pc = "arm" /\ x.of \in Arming /\ x.row = NoRow /\ x.cols \subseteq Stops
  BY NoOpTyped, Typed DEF Op, NoOp, Arming
<1>2. op' = [op EXCEPT !["web"] = x] /\ UNCHANGED <<line, row, pos, ord, lock, key, gtt, armed, faults, stray>>
  BY DEF Rearm, broker
<1> HIDE DEF x
<1>3. RestOK'
  BY <1>2, Typed DEF RestOK
<1>4. pos.entered > 0
  BY Typed, Constants DEF Rearm, IsOpen, BookInv, SharesAddUp
<1> QED
  BY <1>1, <1>2, <1>3, <1>4, WebMoves

\* What a handler that armed, or armed nothing, has become.
LEMMA LevelTyped ==
  ASSUME BookInv, NEW p \in Procs, op[p].pc = "arm"
  PROVE  /\ Level(p) \in Levels /\ Cid(p) \in Cids
         /\ p = "web" /\ op[p].of \in Raises => Level(p) = RaiseTo[op[p].of]
<1>0. op[p] \in Op /\ op[p].pos \in Position
  BY Typed DEF OpsOK, Op
<1>1. RestingTrigger(op[p].pos) \in Levels
  BY <1>0 DEF RestingTrigger, Larger, Position
<1>2. p = "web" => op[p].of \in Arming
  BY DEF BookInv, Shapes, WebOp
<1>3. Cid(p) \in Cids
  BY <1>2 DEF Cid, Cids, Arming, Procs
<1>4. Level(p) \in Levels
  BY <1>1, Constants DEF Level
<1>5. p = "web" /\ op[p].of \in Raises => Level(p) = RaiseTo[op[p].of]
  BY Constants DEF Level, Cid
<1> QED
  BY <1>3, <1>4, <1>5

LEMMA ArmedMoves ==
  ASSUME BookInv, NEW p \in Procs, op[p].pc = "arm", NEW i \in Gtts
  PROVE  LET o == op[p]
             x == ArmedWith(p, i)
         IN  /\ x \in Op /\ x.pc = "commit" /\ x.of = o.of /\ x.report = o.report /\ x.was = o.was
             /\ x.row = o.row /\ x.line = (IF p = "web" THEN "FILLED" ELSE o.line)
             /\ x.cols = o.cols \cup {"gtt", "trig"} \cup (IF o.of \in Raises THEN {"stop"} ELSE {})
             /\ x.new = i /\ x.moved = o.moved
             /\ x.pos \in Position /\ x.pos.entered = o.pos.entered /\ x.pos.open = o.pos.open
             /\ x.pos.closed = o.pos.closed /\ x.pos.gtt = i /\ x.pos.trig = Level(p)
             /\ x.pos.stop = IF o.of \in Raises THEN Level(p) ELSE o.pos.stop
<1>0. op[p] \in Op /\ op[p].pos \in Position
  BY Typed DEF OpsOK, Op
<1>1. Level(p) \in Levels
  BY LevelTyped
<1> DEFINE o == op[p]
           c == {"gtt", "trig"} \cup IF o.of \in Raises THEN {"stop"} ELSE {}
           raised == IF o.of \in Raises THEN [o.pos EXCEPT !.stop = Level(p)] ELSE o.pos
           n == [raised EXCEPT !.gtt = i, !.trig = Level(p)]
<1>2. raised \in Position /\ raised.entered = o.pos.entered /\ raised.open = o.pos.open
      /\ raised.closed = o.pos.closed /\ raised.stop = IF o.of \in Raises THEN Level(p) ELSE o.pos.stop
  BY <1>0, <1>1 DEF Position
<1> HIDE DEF raised
<1>3. n \in Position /\ n.entered = raised.entered /\ n.open = raised.open /\ n.closed = raised.closed
      /\ n.gtt = i /\ n.trig = Level(p) /\ n.stop = raised.stop
  BY <1>1, <1>2 DEF Position
<1>4. ArmedWith(p, i) = [o EXCEPT !.cols = @ \cup c, !.pos = n, !.pc = "commit", !.new = i,
                                  !.line = IF p = "web" THEN "FILLED" ELSE @]
  BY <1>0 DEF ArmedWith, Writes, Op, raised
<1>5. c \subseteq Columns /\ o \in Op
  BY <1>0 DEF Columns
<1> DEFINE x == [o EXCEPT !.cols = @ \cup c, !.pos = n, !.pc = "commit", !.new = i,
                          !.line = IF p = "web" THEN "FILLED" ELSE @]
<1> HIDE DEF n, c, o
<1>6. /\ x \in Op /\ x.pc = "commit" /\ x.of = o.of /\ x.report = o.report /\ x.was = o.was
      /\ x.row = o.row /\ x.line = (IF p = "web" THEN "FILLED" ELSE o.line)
      /\ x.cols = o.cols \cup c /\ x.new = i /\ x.moved = o.moved /\ x.pos = n
  <2>1. o.cols \cup c \subseteq Columns /\ (IF p = "web" THEN "FILLED" ELSE o.line) \in {"PROPOSED", "SENT", "FILLED", "REJECTED"}
    BY <1>5 DEF Op
  <2> QED
    BY <1>3, <1>5, <2>1 DEF Op
<1> HIDE DEF x
<1>7. ArmedWith(p, i) = x
  BY <1>4 DEF x
<1>8. o.cols \cup c = o.cols \cup {"gtt", "trig"} \cup (IF o.of \in Raises THEN {"stop"} ELSE {})
  BY DEF c
<1> QED
  BY <1>2, <1>3, <1>6, <1>7, <1>8 DEF o

LEMMA NotArmedMoves ==
  ASSUME BookInv, NEW p \in Procs, op[p].pc = "arm"
  PROVE  LET o == op[p]
             x == NotArmed(p)
         IN  /\ x \in Op /\ x.pc = "commit" /\ x.of = o.of /\ x.report = o.report /\ x.was = o.was
             /\ x.row = o.row /\ x.line = (IF p = "web" THEN "REJECTED" ELSE o.line)
             /\ x.cols = o.cols \cup (IF o.of \in Raises THEN {"stop", "gtt", "trig"} ELSE {})
             /\ x.new = o.new /\ x.moved = o.moved
             /\ o.of \notin Raises => x.pos = o.pos
             /\ o.of \in Raises => /\ x.pos \in Position /\ x.pos.gtt = 0 /\ x.pos.trig = 0
                                   /\ x.pos.stop = Level(p)
<1>0. op[p] \in Op /\ op[p].pos \in Position
  BY Typed DEF OpsOK, Op
<1>1. Level(p) \in Levels /\ 0 \in Levels
  BY LevelTyped, Constants
<1>2. p = "pass" => op[p].of \notin Raises
  BY Constants DEF BookInv, Shapes, PassOp
<1> DEFINE o == op[p]
           n == [o.pos EXCEPT !.stop = Level(p), !.gtt = 0, !.trig = 0]
<1>3. n \in Position /\ n.gtt = 0 /\ n.trig = 0 /\ n.stop = Level(p)
  BY <1>0, <1>1 DEF Position
<1>4. CASE p = "pass"
  BY <1>0, <1>2, <1>4 DEF NotArmed, Op
<1>5. CASE p # "pass" /\ o.of \in Raises
  <2>1. NotArmed(p) = [o EXCEPT !.cols = @ \cup {"stop", "gtt", "trig"}, !.pos = n, !.pc = "commit", !.line = "REJECTED"]
    BY <1>0, <1>5 DEF NotArmed, Writes, Op
  <2>2. {"stop", "gtt", "trig"} \subseteq Columns /\ o \in Op /\ p = "web"
    BY <1>0, <1>5 DEF Columns, Procs
  <2> DEFINE x == [o EXCEPT !.cols = @ \cup {"stop", "gtt", "trig"}, !.pos = n, !.pc = "commit", !.line = "REJECTED"]
  <2> HIDE DEF n, o
  <2>3. /\ x \in Op /\ x.pc = "commit" /\ x.of = o.of /\ x.report = o.report /\ x.was = o.was
        /\ x.row = o.row /\ x.line = "REJECTED" /\ x.new = o.new /\ x.moved = o.moved
        /\ x.cols = o.cols \cup {"stop", "gtt", "trig"} /\ x.pos = n
    <3>1. o.cols \cup {"stop", "gtt", "trig"} \subseteq Columns
      BY <2>2 DEF Op
    <3> QED
      BY <1>3, <2>2, <3>1 DEF Op
  <2> HIDE DEF x
  <2>4. NotArmed(p) = x
    BY <2>1 DEF x
  <2> QED
    BY <1>3, <1>5, <2>2, <2>3, <2>4 DEF o
<1>6. CASE p # "pass" /\ o.of \notin Raises
  BY <1>0, <1>6 DEF NotArmed, Op, Procs
<1> QED
  BY <1>4, <1>5, <1>6

LEMMA ArmTyped ==
  ASSUME BookInv, NEW p \in Procs, Arm(p)
  PROVE  RestOK' /\ UNCHANGED <<line, row, pos, lock, ord>>
<1>0. RestOK /\ op[p].pos \in Position /\ op[p].pc = "arm" /\ armed \in Nat /\ MaxGtts \in Nat
  BY Typed, TwtAssumption DEF OpsOK, Op, Arm, RestOK
<1>1. Level(p) \in Levels /\ Cid(p) \in Cids /\ op[p].pos.open \in 0 .. BuyQty
  BY <1>0, LevelTyped DEF Position
<1>2. armed < MaxGtts /\ Rests(p, armed + 1) =>
        /\ gtt' \in [Gtts -> [live : BOOLEAN, qty : 0 .. BuyQty, level : Levels]]
        /\ armed' \in 0 .. MaxGtts /\ armed + 1 \in Gtts
  BY <1>0, <1>1 DEF RestOK, Rests, Gtts
<1>3. key' \in [Cids -> {"free", "pending", "placed"}]
  BY <1>0, <1>1 DEF Arm, RestOK
<1>4. faults' \in 0 .. MaxFaults
  BY <1>0, FaultTyped DEF Arm, RestOK
<1>5. /\ gtt' \in [Gtts -> [live : BOOLEAN, qty : 0 .. BuyQty, level : Levels]]
      /\ armed' \in 0 .. MaxGtts /\ stray' \subseteq Gtts
  BY <1>0, <1>2 DEF Arm, RestOK
<1> QED
  BY <1>0, <1>3, <1>4, <1>5 DEF Arm, RestOK

\* A report that is being applied; what it will commit adds up.
Applied(x) ==
  /\ x.pc \in {"cancel", "arm", "resize", "commit"} /\ (x.pc = "arm" => x.of = "buy")
  /\ x.pc \in {"cancel", "resize"} => x.pos.gtt # 0
  /\ x.of = PassOp.of /\ x.report = PassOp.report /\ x.was = PassOp.was
  /\ x.row.state # "none" /\ x.line # "PROPOSED"
  /\ row[x.of].filled <= x.row.filled /\ x.row.filled <= ord[x.of].filled
  /\ x.of = "buy" => /\ Merged(x).entered = x.row.filled
                     /\ Merged(x).open + row["sell"].filled = Merged(x).entered
  /\ x.of = "sell" => /\ Merged(x).entered = pos.entered
                      /\ Merged(x).open + x.row.filled = Merged(x).entered
  /\ x.pc = "arm" => Merged(x).entered > 0
  /\ Merged(x).entered = 0 => Merged(x).gtt = 0

LEMMA PassMoves ==
  ASSUME BookInv, RestOK', UNCHANGED <<line, row, pos, ord>>,
         \A r \in Rows : lock'[r] \in {lock[r], "pass"},
         NEW x \in Op, op' = [op EXCEPT !["pass"] = x], PassOp.pc # "free", Applied(x)
  PROVE  BookInv'
<1> USE DEF Applied
<1>0. OpsOK /\ HeldOK /\ RestOK /\ "pass" \in Procs
  BY Typed DEF Procs
<1>1. /\ OpsOK' /\ PassOp' = x /\ WebOp' = WebOp /\ op'["pass"] = x /\ op'["web"] = op["web"]
      /\ \A q \in Procs : q # "pass" => op'[q] = op[q]
  BY <1>0, OpStep DEF Procs
<1>2. HeldOK'
  BY <1>0, <1>1, HeldKeeps
<1>3. Shapes'
  BY <1>1, Constants DEF BookInv, Shapes
<1>4. LinesFirst' /\ OrdersSound' /\ SharesAddUp'
  BY <1>1, PassOnly
<1>5. PassSound'
  BY <1>1 DEF BookInv, PassSound
<1>6. Merged(PassOp)' = Merged(x)
  BY <1>1 DEF Merged
<1>7. PassAddsUp'
  BY <1>1, <1>6 DEF PassAddsUp
<1>8. Entered'
  BY <1>1, <1>6 DEF BookInv, Entered
<1> QED
  BY <1>1, <1>2, <1>3, <1>4, <1>5, <1>7, <1>8, Parts DEF BookInv

\* ... when it changed only what it will write of the stop.
LEMMA PassStops ==
  ASSUME BookInv, RestOK', UNCHANGED <<line, row, pos, ord, lock>>,
         NEW x \in Op, op' = [op EXCEPT !["pass"] = x],
         x.pc = "commit", PassOp.pc \notin {"free", "read"},
         x.of = PassOp.of, x.report = PassOp.report, x.was = PassOp.was,
         x.row = PassOp.row, x.line = PassOp.line,
         x.cols \subseteq PassOp.cols \cup {"gtt", "trig"}, PassOp.cols \subseteq x.cols,
         x.pos.entered = PassOp.pos.entered, x.pos.open = PassOp.pos.open,
         PassOp.pc = "arm" \/ x.pos.gtt = 0 \/ (x.cols = PassOp.cols /\ x.pos = PassOp.pos)
  PROVE  BookInv'
<1>1. PassOp \in Op /\ PassOp.of \in Orders
  BY Typed DEF BookInv, Shapes
<1>2. Merged(x).entered = Merged(PassOp).entered /\ Merged(x).open = Merged(PassOp).open
  BY <1>1, MergedTyped
<1>3. /\ PassOp.row.state # "none" /\ PassOp.line # "PROPOSED"
      /\ row[PassOp.of].filled <= PassOp.row.filled /\ PassOp.row.filled <= ord[PassOp.of].filled
      /\ PassOp.of = "buy" => /\ Merged(PassOp).entered = PassOp.row.filled
                              /\ Merged(PassOp).open + row["sell"].filled = Merged(PassOp).entered
      /\ PassOp.of = "sell" => /\ Merged(PassOp).entered = pos.entered
                               /\ Merged(PassOp).open + PassOp.row.filled = Merged(PassOp).entered
  BY DEF BookInv, PassAddsUp
<1>4. Merged(x).entered = 0 => Merged(x).gtt = 0
  <2> SUFFICES ASSUME Merged(x).entered = 0 PROVE Merged(x).gtt = 0
    OBVIOUS
  <2>1. Merged(PassOp).entered = 0 /\ Merged(PassOp).gtt = 0 /\ PassOp.pc # "arm"
    BY <1>2 DEF BookInv, Entered
  <2>2. ("gtt" \in PassOp.cols => PassOp.pos.gtt = 0) /\ ("gtt" \notin PassOp.cols => pos.gtt = 0)
    BY <1>1, <2>1, MergedTyped
  <2>3. ("gtt" \in x.cols => x.pos.gtt = 0) /\ ("gtt" \notin x.cols => pos.gtt = 0)
    BY <2>1, <2>2
  <2> QED
    BY <2>3, MergedTyped
<1>5. Applied(x)
  BY <1>2, <1>3, <1>4 DEF Applied
<1> QED
  BY <1>5, PassMoves

LEMMA ArmKeeps ==
  ASSUME BookInv, NEW p \in Procs, Arm(p)
  PROVE  BookInv'
<1>0. RestOK' /\ UNCHANGED <<line, row, pos, lock, ord>> /\ op[p].pc = "arm"
  BY ArmTyped DEF Arm
<1>1. CASE p = "web"
  <2>1. /\ op["web"] = WebOp /\ WebOp \in Op /\ WebOp.pc = "arm" /\ WebOp.of \in Arming
        /\ WebOp.row = NoRow /\ WebOp.cols \subseteq Stops /\ pos.entered > 0
    BY <1>0, <1>1, Typed, Constants DEF WebOp, BookInv, Shapes, LinesFirst, Arming, Entered
  <2>2. PICK x \in Op : /\ op' = [op EXCEPT !["web"] = x] /\ x.pc = "commit" /\ x.of = WebOp.of /\ x.row = NoRow
                        /\ x.cols \subseteq WebOp.cols \cup Stops
    <3>1. CASE op' = [op EXCEPT ![p] = NotArmed(p)]
      BY <1>0, <1>1, <2>1, <3>1, NotArmedMoves DEF Stops
    <3>2. CASE armed < MaxGtts /\ op' = [op EXCEPT ![p] = ArmedWith(p, armed + 1)]
      <4>1. armed + 1 \in Gtts
        BY <3>2, Typed, TwtAssumption DEF RestOK, Gtts
      <4>2. PICK i \in Gtts : i = armed + 1
        BY <4>1
      <4>3. op' = [op EXCEPT !["web"] = ArmedWith("web", i)]
        BY <1>1, <3>2, <4>2
      <4>4. LET y == ArmedWith("web", i)
            IN  /\ y \in Op /\ y.pc = "commit" /\ y.of = WebOp.of /\ y.row = NoRow
                /\ y.cols = WebOp.cols \cup {"gtt", "trig"} \cup (IF WebOp.of \in Raises THEN {"stop"} ELSE {})
        BY <1>0, <1>1, <2>1, ArmedMoves
      <4> QED
        BY <4>3, <4>4 DEF Stops
    <3> QED
      BY <3>1, <3>2 DEF Arm
  <2> QED
    BY <1>0, <2>1, <2>2, WebMoves DEF Stops
<1>2. CASE p = "pass"
  <2>1. op["pass"] = PassOp /\ PassOp \in Op /\ PassOp.pc = "arm" /\ PassOp.of = "buy" /\ PassOp.of \notin Raises
    BY <1>0, <1>2, Typed, Constants DEF PassOp, BookInv, Shapes
  <2>2. PICK x \in Op : /\ op' = [op EXCEPT !["pass"] = x] /\ x.pc = "commit"
                        /\ x.of = PassOp.of /\ x.report = PassOp.report /\ x.was = PassOp.was
                        /\ x.row = PassOp.row /\ x.line = PassOp.line
                        /\ x.cols \subseteq PassOp.cols \cup {"gtt", "trig"} /\ PassOp.cols \subseteq x.cols
                        /\ x.pos.entered = PassOp.pos.entered /\ x.pos.open = PassOp.pos.open
    <3>1. CASE op' = [op EXCEPT ![p] = NotArmed(p)]
      BY <1>0, <1>2, <2>1, <3>1, NotArmedMoves
    <3>2. CASE armed < MaxGtts /\ op' = [op EXCEPT ![p] = ArmedWith(p, armed + 1)]
      <4>1. armed + 1 \in Gtts
        BY <3>2, Typed, TwtAssumption DEF RestOK, Gtts
      <4>2. PICK i \in Gtts : i = armed + 1
        BY <4>1
      <4>3. op' = [op EXCEPT !["pass"] = ArmedWith("pass", i)]
        BY <1>2, <3>2, <4>2
      <4>4. LET y == ArmedWith("pass", i)
            IN  /\ y \in Op /\ y.pc = "commit" /\ y.of = PassOp.of /\ y.report = PassOp.report
                /\ y.was = PassOp.was /\ y.row = PassOp.row /\ y.line = PassOp.line
                /\ y.cols = PassOp.cols \cup {"gtt", "trig"}
                /\ y.pos.entered = PassOp.pos.entered /\ y.pos.open = PassOp.pos.open
        BY <1>0, <1>2, <2>1, ArmedMoves
      <4> QED
        BY <4>3, <4>4
    <3> QED
      BY <3>1, <3>2 DEF Arm
  <2> QED
    BY <1>0, <2>1, <2>2, PassStops
<1> QED
  BY <1>1, <1>2 DEF Procs

LEMMA ResizeKeeps ==
  ASSUME BookInv, Resize
  PROVE  BookInv'
<1>0. /\ OpsOK /\ RestOK /\ PassOp \in Op /\ PassOp.pos \in Position /\ PassOp.pc = "resize" /\ PassOp.pos.gtt # 0
      /\ PassOp.pos.gtt \in Gtts
  BY Typed DEF BookInv, Shapes, Resize, PassOp, Op, Position
<1> DEFINE x == [PassOp EXCEPT !.pc = "commit", !.moved = PassOp.pos.gtt]
<1>1. op' = [op EXCEPT !["pass"] = x]
  BY <1>0 DEF Resize, OpsOK, PassOp
<1>2. /\ x \in Op /\ x.pc = "commit" /\ x.of = PassOp.of /\ x.report = PassOp.report /\ x.was = PassOp.was
      /\ x.row = PassOp.row /\ x.line = PassOp.line /\ x.cols = PassOp.cols /\ x.pos = PassOp.pos
  BY <1>0 DEF Op
<1> HIDE DEF x
<1>3. RestOK'
  <2>1. RestingTrigger(PassOp.pos) \in Levels /\ PassOp.pos.open \in 0 .. BuyQty
    BY <1>0 DEF RestingTrigger, Larger, Position
  <2>2. gtt' \in [Gtts -> [live : BOOLEAN, qty : 0 .. BuyQty, level : Levels]]
    BY <1>0, <2>1 DEF Resize, PassOp, RestOK
  <2>3. faults' \in 0 .. MaxFaults /\ stray' \subseteq Gtts
    BY <1>0, FaultTyped DEF Resize, PassOp, RestOK
  <2> QED
    BY <1>0, <2>2, <2>3 DEF Resize, RestOK
<1> QED
  BY <1>0, <1>1, <1>2, <1>3, PassStops DEF Resize

LEMMA CancelClosedKeeps ==
  ASSUME BookInv, CancelClosed
  PROVE  BookInv'
<1>0. /\ OpsOK /\ RestOK /\ PassOp \in Op /\ PassOp.pos \in Position /\ PassOp.pc = "cancel" /\ PassOp.pos.gtt # 0
      /\ PassOp.pos.gtt \in Gtts /\ "pass" \in Procs
  BY Typed DEF BookInv, Shapes, CancelClosed, PassOp, Op, Position, Procs
<1>1. RestOK'
  BY <1>0, CancelTyped DEF CancelClosed, RestOK, PassOp
<1>2. CASE op' = [op EXCEPT !["pass"].pc = "commit"]
  <2> DEFINE x == [PassOp EXCEPT !.pc = "commit"]
  <2>1. op' = [op EXCEPT !["pass"] = x]
    BY <1>0, <1>2 DEF OpsOK, PassOp
  <2>2. /\ x \in Op /\ x.pc = "commit" /\ x.of = PassOp.of /\ x.report = PassOp.report /\ x.was = PassOp.was
        /\ x.row = PassOp.row /\ x.line = PassOp.line /\ x.cols = PassOp.cols /\ x.pos = PassOp.pos
    BY <1>0 DEF Op
  <2> HIDE DEF x
  <2> QED
    BY <1>0, <1>1, <2>1, <2>2, PassStops DEF CancelClosed
<1>3. CASE op' = [op EXCEPT !["pass"] =
             [Writes(@, {"gtt", "trig"}, [@.pos EXCEPT !.gtt = 0, !.trig = 0])
              EXCEPT !.pc = "commit", !.moved = op["pass"].pos.gtt]]
  <2> DEFINE n == [PassOp.pos EXCEPT !.gtt = 0, !.trig = 0]
             x == [PassOp EXCEPT !.cols = @ \cup {"gtt", "trig"}, !.pos = n, !.pc = "commit", !.moved = PassOp.pos.gtt]
  <2>1. op' = [op EXCEPT !["pass"] = x]
    BY <1>0, <1>3 DEF OpsOK, PassOp, Writes, Op
  <2>2. n \in Position /\ n.entered = PassOp.pos.entered /\ n.open = PassOp.pos.open /\ n.gtt = 0
    BY <1>0, Constants DEF Position
  <2> HIDE DEF n
  <2>3. /\ x \in Op /\ x.pc = "commit" /\ x.of = PassOp.of /\ x.report = PassOp.report /\ x.was = PassOp.was
        /\ x.row = PassOp.row /\ x.line = PassOp.line /\ x.cols = PassOp.cols \cup {"gtt", "trig"} /\ x.pos = n
    <3>1. PassOp.cols \cup {"gtt", "trig"} \subseteq Columns
      BY <1>0 DEF Op, Columns
    <3> QED
      BY <1>0, <2>2, <3>1 DEF Op
  <2> HIDE DEF x
  <2> QED
    BY <1>0, <1>1, <2>1, <2>2, <2>3, PassStops DEF CancelClosed
<1> QED
  BY <1>2, <1>3 DEF CancelClosed

-----------------------------------------------------------------------------
LEMMA ReadReportKeeps ==
  ASSUME BookInv, NEW o \in Orders, ReadReport(o)
  PROVE  BookInv'
<1> DEFINE x == [NoOp EXCEPT !.pc = "read", !.of = o, !.report = ord[o], !.was = row[o]]
<1>0. OpsOK /\ HeldOK /\ RestOK /\ "pass" \in Procs /\ row[o] \in OrderRow /\ ord[o] \in Report
  BY Typed DEF Procs
<1>1. /\ x \in Op /\ x.pc = "read" /\ x.of = o /\ x.report = ord[o] /\ x.was = row[o] /\ x.cols = {}
  BY <1>0, NoOpTyped, Constants DEF Op, NoOp
<1>2. /\ op' = [op EXCEPT !["pass"] = x] /\ UNCHANGED <<line, row, pos, lock, key, ord, gtt, armed, faults, stray>>
      /\ PassOp.pc = "free" /\ row[o].state \in {"SENT", "PARTIAL"} /\ ord[o].status # "none"
  BY DEF ReadReport, broker, PassOp
<1> HIDE DEF x
<1>3. /\ OpsOK' /\ PassOp' = x /\ WebOp' = WebOp /\ op'["pass"] = x /\ op'["web"] = op["web"]
  BY <1>0, <1>1, <1>2, OpStep DEF Procs
<1>4. RestOK'
  BY <1>0, <1>2 DEF RestOK
<1>5. HeldOK'
  <2>1. \A r \in Rows : lock[r] \in {"web", "none"}
    BY <1>0, <1>2 DEF RestOK, HeldOK, Procs, PassOp
  <2> QED
    BY <1>0, <1>2, <1>3, <2>1 DEF HeldOK
<1>6. Shapes'
  BY <1>1, <1>3, Constants DEF BookInv, Shapes
<1>7. LinesFirst' /\ OrdersSound' /\ SharesAddUp'
  BY <1>2, <1>3, PassOnly
<1>8. PassSound' /\ PassAddsUp' /\ Entered'
  <2>1. ord[o].filled <= ord[o].filled
    BY Typed
  <2> QED
    BY <1>1, <1>2, <1>3, <2>1 DEF BookInv, PassSound, PassAddsUp, Entered
<1> QED
  BY <1>3, <1>4, <1>5, <1>6, <1>7, <1>8, Parts DEF BookInv

LEMMA RowAfterTyped ==
  ASSUME NEW rep \in Report, NEW filled \in 0 .. BuyQty, NEW any \in BOOLEAN
  PROVE  LET r == RowAfter(rep, filled, any)
         IN  /\ r \in OrderRow /\ r.filled = filled /\ r.state # "none"
             /\ LineAfter(r) \in {"SENT", "FILLED", "REJECTED"}
<1>1. RowAfter(rep, filled, any).state \in {"FILLED", "DEAD", "PARTIAL"} /\ RowAfter(rep, filled, any).filled = filled
  BY DEF RowAfter
<1>2. RowAfter(rep, filled, any) \in OrderRow
  BY DEF RowAfter, OrderRow
<1> QED
  BY <1>1, <1>2 DEF LineAfter

\* The columns apply_fill and grow_position write.
LEMMA BoughtMoves ==
  ASSUME BookInv, NEW o \in Op, o.cols = {}, NEW n \in 0 .. BuyQty, pos.entered < n
  PROVE  LET x == Bought(o, n)
         IN  /\ x \in Op /\ x.of = o.of /\ x.report = o.report /\ x.was = o.was
             /\ x.row = o.row /\ x.line = o.line /\ x.new = o.new /\ x.moved = o.moved
             /\ x.pos \in Position /\ x.pos.entered = n /\ x.pos.open + row["sell"].filled = n
             /\ x.pos.gtt = (IF pos.entered = 0 THEN 0 ELSE pos.gtt)
             /\ x.pos.trig = (IF pos.entered = 0 THEN 0 ELSE pos.trig)
             /\ x.pos.stop = (IF pos.entered = 0 THEN InitialStop ELSE pos.stop)
             /\ x.cols = (IF pos.entered = 0 THEN Columns ELSE {"entered", "open"})
<1>0. /\ pos \in Position /\ n \in Nat /\ pos.open + row["sell"].filled = pos.entered
      /\ pos.open \in Nat /\ pos.entered \in Nat /\ row["sell"].filled \in Nat /\ BuyQty \in Nat
  BY Typed, Constants DEF BookInv, SharesAddUp
<1> DEFINE a == [NoPos EXCEPT !.entered = n, !.open = n, !.stop = InitialStop]
           b == [pos EXCEPT !.entered = n, !.open = @ + (n - pos.entered)]
<1>1. a \in Position /\ a.entered = n /\ a.open = n /\ a.gtt = 0 /\ a.trig = 0 /\ a.stop = InitialStop
  BY <1>0, Constants DEF Position, NoPos
<1>2. b \in Position /\ b.entered = n /\ b.open = pos.open + (n - pos.entered)
      /\ b.gtt = pos.gtt /\ b.trig = pos.trig /\ b.stop = pos.stop
  <2>1. pos.open + (n - pos.entered) \in 0 .. BuyQty
    BY <1>0
  <2> QED
    BY <1>0, <2>1 DEF Position
<1> HIDE DEF a, b
<1>3. CASE pos.entered = 0
  <2>1. Bought(o, n) = [o EXCEPT !.cols = Columns, !.pos = a]
    <3>1. Bought(o, n) = [o EXCEPT !.cols = @ \cup Columns, !.pos = a]
      BY <1>3 DEF Bought, Writes, a
    <3>2. [o EXCEPT !.cols = @ \cup Columns, !.pos = a] = [o EXCEPT !.cols = Columns, !.pos = a]
      BY DEF Op
    <3> QED
      BY <3>1, <3>2
  <2>2. n + row["sell"].filled = n
    BY <1>0, <1>3
  <2>3. Bought(o, n).pos = a /\ Bought(o, n).cols = Columns /\ Bought(o, n) \in Op
    BY <1>1, <2>1 DEF Op
  <2>4. /\ Bought(o, n).of = o.of /\ Bought(o, n).report = o.report /\ Bought(o, n).was = o.was
        /\ Bought(o, n).row = o.row /\ Bought(o, n).line = o.line
        /\ Bought(o, n).new = o.new /\ Bought(o, n).moved = o.moved
    BY <2>1 DEF Op
  <2> QED
    BY <1>1, <1>3, <2>2, <2>3, <2>4
<1>4. CASE pos.entered # 0
  <2>1. Bought(o, n) = [o EXCEPT !.cols = {"entered", "open"}, !.pos = b]
    <3>1. Bought(o, n) = [o EXCEPT !.cols = @ \cup {"entered", "open"}, !.pos = b]
      BY <1>4 DEF Bought, Writes, b
    <3>2. [o EXCEPT !.cols = @ \cup {"entered", "open"}, !.pos = b] = [o EXCEPT !.cols = {"entered", "open"}, !.pos = b]
      BY DEF Op
    <3> QED
      BY <3>1, <3>2
  <2>2. b.open + row["sell"].filled = n
    BY <1>0, <1>2
  <2>3. Bought(o, n).pos = b /\ Bought(o, n).cols = {"entered", "open"} /\ Bought(o, n) \in Op
    <3>1. {"entered", "open"} \in SUBSET Columns
      BY DEF Columns
    <3> QED
      BY <1>2, <2>1, <3>1 DEF Op
  <2>4. /\ Bought(o, n).of = o.of /\ Bought(o, n).report = o.report /\ Bought(o, n).was = o.was
        /\ Bought(o, n).row = o.row /\ Bought(o, n).line = o.line
        /\ Bought(o, n).new = o.new /\ Bought(o, n).moved = o.moved
    BY <2>1 DEF Op
  <2> QED
    BY <1>2, <1>4, <2>2, <2>3, <2>4
<1> QED
  BY <1>3, <1>4

\* The record of a report that was applied to the buy: what a fill adds, or nothing.
LEMMA BuyMoves ==
  ASSUME BookInv, ApplyBuy
  PROVE  /\ PassOp.pc = "read" /\ PassOp.of = "buy" /\ lock["today"] = "none"
         /\ lock' = [lock EXCEPT !["today"] = "pass"]
         /\ UNCHANGED <<line, row, pos, key, ord, gtt, armed, faults, stray>>
         /\ \E x \in Op :
              /\ op' = [op EXCEPT !["pass"] = x]
              /\ x.of = "buy" /\ x.report = PassOp.report /\ x.was = PassOp.was
              /\ x.row.state # "none" /\ x.line # "PROPOSED"
              /\ x.new = PassOp.new /\ x.moved = PassOp.moved
              /\ \/ /\ x.pc = "commit" /\ x.cols = {} /\ x.pos = pos /\ x.row.filled = row["buy"].filled
                 \/ /\ x.pc = (IF pos.gtt = 0 THEN "arm" ELSE "resize")
                    /\ pos.entered < x.row.filled /\ x.row.filled = PassOp.report.filled
                    /\ x.pos \in Position /\ x.pos.entered = x.row.filled
                    /\ x.pos.open + row["sell"].filled = x.row.filled
                    /\ x.pos.gtt = (IF pos.entered = 0 THEN 0 ELSE pos.gtt)
                    /\ x.pos.trig = (IF pos.entered = 0 THEN 0 ELSE pos.trig)
                    /\ x.pos.stop = (IF pos.entered = 0 THEN InitialStop ELSE pos.stop)
                    /\ x.cols = (IF pos.entered = 0 THEN Columns ELSE {"entered", "open"})
<1>0. /\ OpsOK /\ RestOK /\ PassOp \in Op /\ pos \in Position /\ BuyQty \in Nat
      /\ PassOp.report \in Report /\ PassOp.report.filled \in 0 .. BuyQty
      /\ row["buy"].filled \in 0 .. BuyQty /\ pos.entered = row["buy"].filled
      /\ line["buy"] \in {"PROPOSED", "SENT", "FILLED", "REJECTED"}
  BY Typed, Constants DEF Op, Report, BookInv, SharesAddUp, RestOK
<1> DEFINE o    == op["pass"]
           more == o.report.filled > row["buy"].filled
           kept == Larger(o.report.filled, row["buy"].filled)
           r    == RowAfter(o.report, kept, kept > 0)
           new  == more /\ pos.entered = 0 /\ o.report.status # "DEAD"
           l    == IF new THEN line["buy"] ELSE LineAfter(r)
           z    == [o EXCEPT !.pos = pos]
           done == Ends(z, l, r)
           big  == [Bought(done, kept) EXCEPT !.pc = IF pos.gtt = 0 THEN "arm" ELSE "resize"]
<1>1. /\ PassOp.pc = "read" /\ PassOp.of = "buy" /\ lock["today"] = "none" /\ o = PassOp
      /\ lock' = [lock EXCEPT !["today"] = "pass"]
      /\ UNCHANGED <<line, row, pos, key, ord, gtt, armed, faults, stray>>
      /\ op' = [op EXCEPT !["pass"] = IF more THEN big ELSE done]
  BY DEF ApplyBuy, PassOp, broker
<1>2. PassOp.cols = {} /\ line["buy"] # "PROPOSED"
  <2>1. row["buy"].state # "none"
    BY <1>1 DEF BookInv, PassSound
  <2> QED
    BY <1>1, <2>1, Constants DEF BookInv, Shapes, LinesFirst, NoRow
<1>3. /\ kept \in 0 .. BuyQty /\ (more => kept = PassOp.report.filled /\ pos.entered < kept)
      /\ (~more => kept = row["buy"].filled) /\ (kept > 0) \in BOOLEAN
  BY <1>0, <1>1 DEF Larger
<1> HIDE DEF kept, more
<1>4. r \in OrderRow /\ r.filled = kept /\ r.state # "none" /\ LineAfter(r) \in {"SENT", "FILLED", "REJECTED"}
  BY <1>0, <1>1, <1>3, RowAfterTyped
<1> HIDE DEF r
<1>5. l \in {"SENT", "FILLED", "REJECTED"}
  BY <1>0, <1>2, <1>4
<1> HIDE DEF l
<1>6. z \in Op /\ z.pc = "read" /\ z.of = "buy" /\ z.report = PassOp.report /\ z.was = PassOp.was /\ z.cols = {} /\ z.pos = pos
      /\ z.new = PassOp.new /\ z.moved = PassOp.moved
  BY <1>0, <1>1, <1>2 DEF Op
<1> HIDE DEF z, o
<1>7. /\ done \in Op /\ done.pc = "commit" /\ done.line = l /\ done.row = r /\ done.of = "buy" /\ done.pos = pos
      /\ done.cols = {} /\ done.report = PassOp.report /\ done.was = PassOp.was
      /\ done.new = PassOp.new /\ done.moved = PassOp.moved
  BY <1>4, <1>5, <1>6 DEF Ends, Op
<1> HIDE DEF done
<1>8. CASE ~more
  <2>1. op' = [op EXCEPT !["pass"] = done]
    BY <1>1, <1>8
  <2> QED
    BY <1>1, <1>3, <1>4, <1>5, <1>7, <1>8, <2>1
<1>9. CASE more
  <2>1. op' = [op EXCEPT !["pass"] = big]
    BY <1>1, <1>9
  <2> DEFINE y == Bought(done, kept)
  <2>2. /\ y \in Op /\ y.of = "buy" /\ y.report = PassOp.report /\ y.was = PassOp.was
        /\ y.row = r /\ y.line = l /\ y.new = PassOp.new /\ y.moved = PassOp.moved
        /\ y.pos \in Position /\ y.pos.entered = kept /\ y.pos.open + row["sell"].filled = kept
        /\ y.pos.gtt = (IF pos.entered = 0 THEN 0 ELSE pos.gtt)
        /\ y.pos.trig = (IF pos.entered = 0 THEN 0 ELSE pos.trig)
        /\ y.pos.stop = (IF pos.entered = 0 THEN InitialStop ELSE pos.stop)
        /\ y.cols = (IF pos.entered = 0 THEN Columns ELSE {"entered", "open"})
    BY <1>3, <1>7, <1>9, BoughtMoves
  <2> HIDE DEF y
  <2>3. big = [y EXCEPT !.pc = IF pos.gtt = 0 THEN "arm" ELSE "resize"]
    BY DEF y
  <2>4. /\ big \in Op /\ big.pc = (IF pos.gtt = 0 THEN "arm" ELSE "resize")
        /\ big.of = y.of /\ big.report = y.report /\ big.was = y.was /\ big.row = y.row /\ big.line = y.line
        /\ big.pos = y.pos /\ big.cols = y.cols /\ big.new = y.new /\ big.moved = y.moved
    BY <2>2, <2>3 DEF Op
  <2> HIDE DEF big
  <2>5. /\ big.of = "buy" /\ big.report = PassOp.report /\ big.was = PassOp.was
        /\ big.row.state # "none" /\ big.line # "PROPOSED"
        /\ big.new = PassOp.new /\ big.moved = PassOp.moved
        /\ big.pc = (IF pos.gtt = 0 THEN "arm" ELSE "resize")
        /\ pos.entered < big.row.filled /\ big.row.filled = PassOp.report.filled
        /\ big.pos \in Position /\ big.pos.entered = big.row.filled
        /\ big.pos.open + row["sell"].filled = big.row.filled
        /\ big.pos.gtt = (IF pos.entered = 0 THEN 0 ELSE pos.gtt)
        /\ big.pos.trig = (IF pos.entered = 0 THEN 0 ELSE pos.trig)
        /\ big.pos.stop = (IF pos.entered = 0 THEN InitialStop ELSE pos.stop)
        /\ big.cols = (IF pos.entered = 0 THEN Columns ELSE {"entered", "open"})
    BY <1>3, <1>4, <1>5, <1>9, <2>2, <2>4
  <2> QED
    BY <1>1, <2>1, <2>4, <2>5
<1> QED
  BY <1>8, <1>9

LEMMA ApplyBuyKeeps ==
  ASSUME BookInv, ApplyBuy
  PROVE  BookInv'
<1>0. OpsOK /\ HeldOK /\ RestOK /\ PassOp \in Op /\ BuyQty \in Nat
  BY Typed, Constants
<1>1. PICK x \in Op :
              /\ op' = [op EXCEPT !["pass"] = x]
              /\ x.of = "buy" /\ x.report = PassOp.report /\ x.was = PassOp.was
              /\ x.row.state # "none" /\ x.line # "PROPOSED"
              /\ \/ /\ x.pc = "commit" /\ x.cols = {} /\ x.pos = pos /\ x.row.filled = row["buy"].filled
                 \/ /\ x.pc = (IF pos.gtt = 0 THEN "arm" ELSE "resize")
                    /\ pos.entered < x.row.filled /\ x.row.filled = PassOp.report.filled
                    /\ x.pos.entered = x.row.filled
                    /\ x.pos.open + row["sell"].filled = x.row.filled
                    /\ x.pos.gtt = (IF pos.entered = 0 THEN 0 ELSE pos.gtt)
                    /\ x.cols = (IF pos.entered = 0 THEN Columns ELSE {"entered", "open"})
  BY BuyMoves
<1>2. /\ PassOp.pc = "read" /\ PassOp.of = "buy"
      /\ lock' = [lock EXCEPT !["today"] = "pass"]
      /\ UNCHANGED <<line, row, pos, key, ord, gtt, armed, faults, stray>>
  BY BuyMoves
<1>3. lock' \in [Rows -> Procs \cup {"none"}] /\ \A r \in Rows : lock'[r] \in {lock[r], "pass"}
  BY <1>0, <1>2 DEF RestOK, Rows, Procs
<1>4. RestOK'
  BY <1>0, <1>2, <1>3 DEF RestOK
<1>5. /\ pos.entered = row["buy"].filled /\ pos.entered <= ord["buy"].filled
      /\ pos.open + row["sell"].filled = pos.entered /\ pos.entered \in Nat /\ ord["buy"].filled \in Nat
      /\ PassOp.report.filled <= ord["buy"].filled /\ PassOp.report.filled \in Nat
      /\ (pos.entered = 0 => pos.gtt = 0)
  BY <1>0, <1>2, Typed, Constants DEF BookInv, SharesAddUp, PassSound, Entered, Op, Report
<1>6. CASE x.pc = "commit"
  <2>1. Merged(x).entered = pos.entered /\ Merged(x).open = pos.open /\ Merged(x).gtt = pos.gtt
    BY <1>1, <1>6, MergedTyped
  <2>2. x.row.filled = row["buy"].filled
    BY <1>1, <1>6
  <2>3. Applied(x)
    BY <1>1, <1>2, <1>5, <1>6, <2>1, <2>2 DEF Applied
  <2> QED
    BY <1>1, <1>2, <1>3, <1>4, <2>3, PassMoves
<1>7. CASE x.pc # "commit"
  <2>1. /\ "entered" \in x.cols /\ "open" \in x.cols
        /\ x.pc \in {"arm", "resize"} /\ (x.pc = "resize" => x.pos.gtt # 0)
        /\ pos.entered < x.row.filled /\ x.row.filled = PassOp.report.filled
        /\ x.pos.entered = x.row.filled /\ x.pos.open + row["sell"].filled = x.row.filled
    BY <1>1, <1>5, <1>7 DEF Columns
  <2>2. Merged(x).entered = x.pos.entered /\ Merged(x).open = x.pos.open
    BY <2>1, MergedTyped
  <2>3. row["buy"].filled <= x.row.filled /\ x.row.filled <= ord["buy"].filled /\ x.row.filled > 0 /\ x.row.filled # 0
    BY <1>5, <2>1
  <2>4. Applied(x)
    BY <1>1, <1>2, <2>1, <2>2, <2>3 DEF Applied
  <2> QED
    BY <1>1, <1>2, <1>3, <1>4, <2>4, PassMoves
<1> QED
  BY <1>6, <1>7

\* The record of a report that was applied to the sale.
LEMMA SellMoves ==
  ASSUME BookInv, ApplySell
  PROVE  /\ PassOp.pc = "read" /\ PassOp.of = "sell" /\ lock["today"] = "none"
         /\ lock' = [lock EXCEPT !["today"] = "pass"]
         /\ UNCHANGED <<line, row, pos, key, ord, gtt, armed, faults, stray>>
         /\ \E x \in Op :
              /\ op' = [op EXCEPT !["pass"] = x]
              /\ x.of = "sell" /\ x.report = PassOp.report /\ x.was = PassOp.was
              /\ x.row.state # "none" /\ x.line # "PROPOSED"
              /\ x.row.filled \in 0 .. BuyQty /\ row["sell"].filled <= x.row.filled
              /\ x.row.filled <= ord["sell"].filled
              /\ x.pc \in {"commit", "cancel", "resize"}
              /\ x.pos \in Position /\ x.pos.entered = pos.entered /\ x.pos.gtt = pos.gtt
              /\ x.pos.trig = pos.trig /\ x.pos.stop = pos.stop
              /\ x.pos.open + x.row.filled = pos.entered
              /\ x.pc = "cancel" => x.pos.open = 0 /\ "open" \in x.cols
              /\ x.pc # "commit" => pos.gtt # 0
              /\ x.pc = "commit" /\ x.cols # {} => pos.gtt = 0
              /\ x.pc # "commit" => x.cols # {}
              /\ x.new = PassOp.new /\ x.moved = PassOp.moved
              /\ x.cols \subseteq {"open", "closed"}
              /\ x.cols = {} => x.pos.open = pos.open
              /\ x.cols # {} => "open" \in x.cols
<1>0. /\ OpsOK /\ RestOK /\ PassOp \in Op /\ pos \in Position /\ BuyQty \in Nat
      /\ PassOp.report \in Report /\ PassOp.report.filled \in 0 .. BuyQty
      /\ row["sell"].filled \in 0 .. BuyQty /\ ord["sell"].filled \in 0 .. BuyQty
      /\ pos.entered \in Nat /\ pos.open \in Nat /\ SellQty \in Nat
  BY Typed, Constants DEF Op, Report
<1> DEFINE o    == op["pass"]
           more == o.report.filled > o.was.filled
           kept == Larger(o.report.filled, o.was.filled)
           r    == RowAfter(o.report, kept, kept > 0)
           l    == LineAfter(r)
           z    == [o EXCEPT !.pos = pos]
           done == Ends(z, l, r)
           sold == Sold(done)
           big  == [sold EXCEPT !.pc = CASE pos.gtt = 0 -> "commit"
                                         [] pos.gtt # 0 /\ sold.pos.open = 0 -> "cancel"
                                         [] OTHER -> "resize"]
<1>1. /\ PassOp.pc = "read" /\ PassOp.of = "sell" /\ lock["today"] = "none" /\ o = PassOp
      /\ lock' = [lock EXCEPT !["today"] = "pass"]
      /\ UNCHANGED <<line, row, pos, key, ord, gtt, armed, faults, stray>>
      /\ op' = [op EXCEPT !["pass"] = IF ~more THEN done ELSE big]
  BY DEF ApplySell, PassOp, broker
<1>2. PassOp.cols = {} /\ PassOp.was = row["sell"] /\ PassOp.report.filled <= ord["sell"].filled
      /\ ord["sell"].filled <= pos.entered /\ pos.open + row["sell"].filled = pos.entered
  <2>1. PassOp.was = row["sell"] /\ PassOp.report.filled <= ord["sell"].filled /\ ord["sell"].status # "none"
    BY <1>1 DEF BookInv, PassSound
  <2>2. ord["sell"].filled <= SellQty /\ pos.entered >= SellQty
    BY <2>1, Constants DEF BookInv, OrdersSound
  <2> QED
    BY <1>0, <1>1, <2>1, <2>2 DEF BookInv, Shapes, SharesAddUp
<1>3. /\ kept \in 0 .. BuyQty /\ (more => kept = PassOp.report.filled /\ row["sell"].filled < kept)
      /\ (~more => kept = row["sell"].filled) /\ (kept > 0) \in BOOLEAN
  BY <1>0, <1>1, <1>2 DEF Larger
<1> HIDE DEF kept, more
<1>4. r \in OrderRow /\ r.filled = kept /\ r.state # "none" /\ l \in {"SENT", "FILLED", "REJECTED"}
  BY <1>0, <1>1, <1>3, RowAfterTyped
<1> HIDE DEF r, l
<1>5. z \in Op /\ z.of = "sell" /\ z.report = PassOp.report /\ z.was = PassOp.was /\ z.cols = {} /\ z.pos = pos
      /\ z.new = PassOp.new /\ z.moved = PassOp.moved
  BY <1>0, <1>1, <1>2 DEF Op
<1> HIDE DEF z, o
<1>6. /\ done \in Op /\ done.pc = "commit" /\ done.line = l /\ done.row = r /\ done.of = "sell" /\ done.pos = pos
      /\ done.cols = {} /\ done.report = PassOp.report /\ done.was = PassOp.was
      /\ done.new = PassOp.new /\ done.moved = PassOp.moved
  BY <1>4, <1>5 DEF Ends, Op
<1> HIDE DEF done
<1>7. row["sell"].filled <= ord["sell"].filled
  BY DEF BookInv, SharesAddUp
<1>8. CASE ~more
  <2>1. op' = [op EXCEPT !["pass"] = done]
    BY <1>1, <1>8
  <2>2. done.row.filled = row["sell"].filled /\ done.pos.open + done.row.filled = pos.entered
    BY <1>2, <1>3, <1>4, <1>6, <1>8
  <2>3. /\ done.row.state # "none" /\ done.line # "PROPOSED" /\ done.row.filled \in 0 .. BuyQty
        /\ row["sell"].filled <= done.row.filled /\ done.row.filled <= ord["sell"].filled
    BY <1>0, <1>4, <1>6, <1>7, <2>2
  <2> QED
    BY <1>0, <1>1, <1>6, <2>1, <2>2, <2>3
<1>9. CASE more
  <2>1. op' = [op EXCEPT !["pass"] = big]
    BY <1>1, <1>9
  <2> DEFINE rest == Larger(0, pos.open - (done.report.filled - done.was.filled))
             n    == [pos EXCEPT !.open = rest, !.closed = IF rest = 0 THEN TRUE ELSE @]
             c    == {"open"} \cup IF rest = 0 THEN {"closed"} ELSE {}
  <2>2. rest \in 0 .. BuyQty /\ rest + kept = pos.entered
    <3>1. done.report.filled = kept /\ done.was.filled = row["sell"].filled
      BY <1>2, <1>3, <1>6, <1>9
    <3>2. pos.open \in 0 .. BuyQty
      BY <1>0 DEF Position
    <3>3. pos.open - (kept - row["sell"].filled) = pos.entered - kept /\ kept <= pos.entered
      BY <1>0, <1>2, <1>3, <1>9
    <3> QED
      BY <1>0, <1>3, <1>9, <3>1, <3>2, <3>3 DEF Larger
  <2> HIDE DEF rest
  <2>3. n \in Position /\ n.entered = pos.entered /\ n.gtt = pos.gtt /\ n.trig = pos.trig /\ n.stop = pos.stop /\ n.open = rest
    BY <1>0, <2>2 DEF Position
  <2>4. c \in SUBSET Columns /\ c \subseteq {"open", "closed"} /\ "open" \in c
    BY DEF Columns
  <2>5. sold = [done EXCEPT !.cols = @ \cup c, !.pos = n]
    BY DEF Sold, Writes, rest
  <2> HIDE DEF n, c, sold
  <2>6. /\ sold \in Op /\ sold.line = l /\ sold.row = r /\ sold.of = "sell" /\ sold.pos = n
        /\ sold.cols = c /\ sold.report = PassOp.report /\ sold.was = PassOp.was
        /\ sold.new = PassOp.new /\ sold.moved = PassOp.moved
    <3>1. {} \cup c = c
      OBVIOUS
    <3> QED
      BY <1>6, <2>3, <2>4, <2>5, <3>1 DEF Op
  <2>7. /\ big \in Op /\ big.line = l /\ big.row = r /\ big.of = "sell" /\ big.pos = n
        /\ big.cols = c /\ big.report = PassOp.report /\ big.was = PassOp.was
        /\ big.new = PassOp.new /\ big.moved = PassOp.moved
        /\ big.pc \in {"commit", "cancel", "resize"} /\ (big.pc = "cancel" => n.open = 0)
        /\ big.pc # "commit" <=> pos.gtt # 0
    <3> DEFINE d == CASE pos.gtt = 0 -> "commit"
                      [] pos.gtt # 0 /\ sold.pos.open = 0 -> "cancel"
                      [] OTHER -> "resize"
    <3>1. big = [sold EXCEPT !.pc = d]
      OBVIOUS
    <3>2. d \in {"commit", "cancel", "resize"} /\ (d = "cancel" => n.open = 0) /\ (d # "commit" <=> pos.gtt # 0)
      <4>1. CASE pos.gtt = 0
        <5>1. d = "commit"
          BY <4>1
        <5> QED
          BY <5>1
      <4>2. CASE pos.gtt # 0 /\ sold.pos.open = 0
        <5>1. d = "cancel"
          BY <4>2
        <5> QED
          BY <2>6, <4>2, <5>1
      <4>3. CASE pos.gtt # 0 /\ sold.pos.open # 0
        <5>1. d = "resize"
          BY <4>3
        <5> QED
          BY <4>3, <5>1
      <4> QED
        BY <4>1, <4>2, <4>3
    <3> HIDE DEF d
    <3> QED
      BY <2>6, <3>1, <3>2 DEF Op
  <2> HIDE DEF big
  <2>8. /\ big.row.state # "none" /\ big.line # "PROPOSED" /\ big.row.filled = kept /\ kept \in 0 .. BuyQty
        /\ row["sell"].filled <= kept /\ kept <= ord["sell"].filled
        /\ big.pc \in {"commit", "cancel", "resize"} /\ (big.pc = "cancel" => big.pos.open = 0)
        /\ (big.pc # "commit" <=> pos.gtt # 0) /\ big.pos.open + big.row.filled = pos.entered
    <3>1. row["sell"].filled <= kept /\ kept <= ord["sell"].filled
      BY <1>0, <1>2, <1>3, <1>9
    <3>2. big.pos.open + big.row.filled = pos.entered
      BY <1>4, <2>2, <2>3, <2>7
    <3> QED
      BY <1>3, <1>4, <2>7, <3>1, <3>2
  <2> QED
    BY <1>1, <2>1, <2>3, <2>4, <2>7, <2>8
<1> QED
  BY <1>8, <1>9

LEMMA ApplySellKeeps ==
  ASSUME BookInv, ApplySell
  PROVE  BookInv'
<1>0. OpsOK /\ HeldOK /\ RestOK
  BY Typed
<1>1. PICK x \in Op :
              /\ op' = [op EXCEPT !["pass"] = x]
              /\ x.of = "sell" /\ x.report = PassOp.report /\ x.was = PassOp.was
              /\ x.row.state # "none" /\ x.line # "PROPOSED"
              /\ row["sell"].filled <= x.row.filled /\ x.row.filled <= ord["sell"].filled
              /\ x.pc \in {"commit", "cancel", "resize"}
              /\ x.pos.entered = pos.entered /\ x.pos.gtt = pos.gtt
              /\ x.pos.open + x.row.filled = pos.entered
              /\ x.pc # "commit" => pos.gtt # 0
              /\ x.cols \subseteq {"open", "closed"}
              /\ x.cols = {} => x.pos.open = pos.open
              /\ x.cols # {} => "open" \in x.cols
  BY SellMoves
<1>2. /\ PassOp.pc = "read" /\ PassOp.of = "sell"
      /\ lock' = [lock EXCEPT !["today"] = "pass"]
      /\ UNCHANGED <<line, row, pos, key, ord, gtt, armed, faults, stray>>
  BY SellMoves
<1>3. lock' \in [Rows -> Procs \cup {"none"}] /\ \A r \in Rows : lock'[r] \in {lock[r], "pass"}
  BY <1>0, <1>2 DEF RestOK, Rows, Procs
<1>4. RestOK'
  BY <1>0, <1>2, <1>3 DEF RestOK
<1>5. Merged(x).entered = pos.entered /\ Merged(x).open = x.pos.open /\ Merged(x).gtt = pos.gtt
  <2>1. "entered" \notin x.cols /\ "gtt" \notin x.cols /\ ("open" \notin x.cols => x.pos.open = pos.open)
    BY <1>1
  <2> QED
    BY <2>1, MergedTyped
<1>6. pos.entered = 0 => pos.gtt = 0
  BY DEF BookInv, Entered
<1>7. Applied(x)
  BY <1>1, <1>2, <1>5, <1>6 DEF Applied
<1> QED
  BY <1>1, <1>2, <1>3, <1>4, <1>7, PassMoves

-----------------------------------------------------------------------------
\* A commit of the web process: a line and its order row, or what it wrote of the stop.
LEMMA WebCommitKeeps ==
  ASSUME BookInv, Commit("web")
  PROVE  BookInv'
<1>0. /\ OpsOK /\ HeldOK /\ RestOK /\ WebOp \in Op /\ PassOp \in Op /\ op["web"] = WebOp /\ op["pass"] = PassOp
      /\ "web" \in Procs /\ pos \in Position /\ NoOp \in Op
  BY Typed, NoOpTyped DEF WebOp, PassOp, Procs
<1>1. /\ WebOp.pc = "commit" /\ WebOp.cols \subseteq Stops /\ (WebOp.cols # {} => PassOp.cols = {})
      /\ pos' = Merged(WebOp)
      /\ line' = IF WebOp.of \in Lines THEN [line EXCEPT ![WebOp.of] = WebOp.line] ELSE line
      /\ row' = IF WebOp.of \in Orders /\ WebOp.row # NoRow THEN [row EXCEPT ![WebOp.of] = WebOp.row] ELSE row
      /\ lock' = [r \in Rows |-> IF lock[r] = "web" THEN "none" ELSE lock[r]]
      /\ op' = [op EXCEPT !["web"] = NoOp]
      /\ UNCHANGED <<key, ord, gtt, armed, faults, stray>>
  BY <1>0 DEF Commit, broker, BookInv, Shapes
<1>2. /\ OpsOK' /\ WebOp' = NoOp /\ PassOp' = PassOp /\ op'["web"] = NoOp /\ op'["pass"] = op["pass"]
      /\ \A q \in Procs : q # "web" => op'[q] = op[q]
  BY <1>0, <1>1, OpStep DEF Procs
<1>3. /\ pos' \in Position /\ pos'.entered = pos.entered /\ pos'.open = pos.open
      /\ (WebOp.cols = {} => pos'.gtt = pos.gtt)
  <2>1. "entered" \notin WebOp.cols /\ "open" \notin WebOp.cols
    BY <1>1 DEF Stops
  <2> QED
    BY <1>0, <1>1, <2>1, MergedTyped
<1>4. /\ row' \in [Orders -> OrderRow] /\ line' \in [Lines -> {"PROPOSED", "SENT", "FILLED", "REJECTED"}]
      /\ \A o \in Orders : /\ row'[o] = row[o] \/ (row[o] = NoRow /\ line'[o] = "SENT" /\ row'[o] = [state |-> "SENT", filled |-> 0])
                           /\ line'[o] = "PROPOSED" => row'[o] = NoRow
  <2>1. row' \in [Orders -> OrderRow] /\ line' \in [Lines -> {"PROPOSED", "SENT", "FILLED", "REJECTED"}]
    BY <1>0, <1>1 DEF RestOK, Op
  <2>2. CASE WebOp.row # NoRow
    <3>1. /\ WebOp.of \in Orders /\ WebOp.of \in Lines /\ WebOp.line = "SENT" /\ line[WebOp.of] = "PROPOSED"
          /\ WebOp.row = [state |-> "SENT", filled |-> 0]
      BY <2>2, Constants DEF BookInv, LinesFirst
    <3>2. row' = [row EXCEPT ![WebOp.of] = WebOp.row] /\ line' = [line EXCEPT ![WebOp.of] = "SENT"]
      BY <1>1, <2>2, <3>1
    <3>3. \A o \in Orders : line[o] = "PROPOSED" => row[o] = NoRow
      BY DEF BookInv, LinesFirst
    <3> QED
      BY <1>0, <2>1, <3>1, <3>2, <3>3, Constants DEF RestOK
  <2>3. CASE WebOp.row = NoRow
    <3>1. row' = row
      BY <1>1, <2>3
    <3>2. \A o \in Orders : line'[o] = "PROPOSED" => row[o] = NoRow
      <4>1. \A o \in Orders : line[o] = "PROPOSED" => row[o] = NoRow
        BY DEF BookInv, LinesFirst
      <4>2. ASSUME NEW o \in Orders, o = WebOp.of PROVE row[o] = NoRow
        BY <4>1, <4>2 DEF BookInv, LinesFirst
      <4>3. ASSUME NEW o \in Orders, o # WebOp.of PROVE line'[o] = line[o]
        BY <1>0, <1>1, <4>3, Constants DEF RestOK
      <4> QED
        BY <4>1, <4>2, <4>3
    <3> QED
      BY <2>1, <3>1, <3>2
  <2> QED
    BY <2>2, <2>3
<1>5. HeldOK' /\ lock' \in [Rows -> Procs \cup {"none"}]
  BY <1>0, <1>1, <1>2, HeldFreed
<1>6. RestOK'
  BY <1>0, <1>1, <1>3, <1>4, <1>5 DEF RestOK
<1>7. NoOp.pc = "free" /\ NoOp.of = "none" /\ NoOp.cols = {} /\ NoOp.row = NoRow
  BY DEF NoOp
<1>8. Shapes'
  BY <1>2, <1>7, Constants DEF BookInv, Shapes
<1>9. LinesFirst' /\ OrdersSound'
  BY <1>1, <1>2, <1>3, <1>4, <1>7, Constants DEF BookInv, LinesFirst, OrdersSound
<1>10. /\ \A o \in Orders : row'[o].filled = row[o].filled
       /\ PassOp.pc # "free" => row'[PassOp.of] = row[PassOp.of]
  <2>1. \A o \in Orders : row'[o].filled = row[o].filled
    BY <1>4 DEF NoRow
  <2>2. PassOp.pc # "free" => row'[PassOp.of] = row[PassOp.of]
    BY <1>4 DEF BookInv, Shapes, PassSound, NoRow
  <2> QED
    BY <2>1, <2>2
<1>11. PassSound'
  BY <1>1, <1>2, <1>10 DEF BookInv, PassSound
<1>12. /\ Merged(PassOp)'.entered = Merged(PassOp).entered /\ Merged(PassOp)'.open = Merged(PassOp).open
       /\ WebOp.cols = {} => Merged(PassOp)'.gtt = Merged(PassOp).gtt
       /\ WebOp.cols # {} => Merged(PassOp)'.entered = pos.entered
  <2>1. pos \in Position /\ pos' \in Position /\ PassOp.pos \in Position
    BY <1>0, <1>3 DEF Op
  <2>2. Merged(PassOp)' = [f \in Columns |-> IF f \in PassOp.cols THEN PassOp.pos[f] ELSE pos'[f]]
    BY <1>2 DEF Merged
  <2>3. /\ Merged(PassOp)'.entered = IF "entered" \in PassOp.cols THEN PassOp.pos.entered ELSE pos'.entered
        /\ Merged(PassOp)'.open = IF "open" \in PassOp.cols THEN PassOp.pos.open ELSE pos'.open
        /\ Merged(PassOp)'.gtt = IF "gtt" \in PassOp.cols THEN PassOp.pos.gtt ELSE pos'.gtt
    BY <2>1, <2>2 DEF Columns, Position
  <2> QED
    BY <1>0, <1>1, <1>3, <2>3, MergedTyped
<1>13. PassAddsUp'
  <2>1. PassOp.pc # "free" => PassOp.of \in Orders
    BY DEF BookInv, Shapes
  <2> QED
    BY <1>1, <1>2, <1>3, <1>10, <1>12, <2>1, Constants DEF BookInv, PassAddsUp
<1>14. Entered'
  <2>1. CASE WebOp.cols = {}
    BY <1>2, <1>3, <1>7, <1>12, <2>1, Constants DEF BookInv, Entered, Arming
  <2>2. CASE WebOp.cols # {}
    <3>1. pos.entered > 0 /\ pos.entered # 0
      BY <2>2, Typed DEF BookInv, Entered
    <3> QED
      BY <1>2, <1>3, <1>7, <1>12, <2>2, <3>1, Constants DEF BookInv, Entered, Arming
  <2> QED
    BY <2>1, <2>2
<1>15. SharesAddUp'
  BY <1>1, <1>3, <1>10, Constants DEF BookInv, SharesAddUp
<1> QED
  BY <1>2, <1>5, <1>6, <1>8, <1>9, <1>11, <1>13, <1>14, <1>15, Parts DEF BookInv

\* A commit of the pass: the order row, its line and the position as the report left them.
LEMMA PassCommitKeeps ==
  ASSUME BookInv, Commit("pass")
  PROVE  BookInv'
<1>0. /\ OpsOK /\ HeldOK /\ RestOK /\ PassOp \in Op /\ op["pass"] = PassOp
      /\ "pass" \in Procs /\ pos \in Position /\ NoOp \in Op
      /\ pos.entered \in Nat /\ row["buy"].filled \in Nat /\ row["sell"].filled \in Nat
      /\ ord["buy"].filled \in Nat /\ ord["sell"].filled \in Nat /\ PassOp.row.filled \in Nat
  BY Typed, NoOpTyped, Constants DEF PassOp, Procs, Op, OrderRow
<1>1. /\ PassOp.pc = "commit" /\ PassOp.of \in Orders /\ PassOp.of \in Lines /\ PassOp.row.state # "none"
      /\ PassOp.row # NoRow /\ PassOp.line # "PROPOSED"
      /\ pos' = Merged(PassOp) /\ line' = [line EXCEPT ![PassOp.of] = PassOp.line]
      /\ row' = [row EXCEPT ![PassOp.of] = PassOp.row]
      /\ lock' = [r \in Rows |-> IF lock[r] = "pass" THEN "none" ELSE lock[r]]
      /\ op' = [op EXCEPT !["pass"] = NoOp]
      /\ UNCHANGED <<key, ord, gtt, armed, faults, stray>>
  <2>1. PassOp.pc = "commit"
    BY <1>0 DEF Commit
  <2>2. PassOp.of \in Orders /\ PassOp.of \in Lines /\ PassOp.row.state # "none" /\ PassOp.line # "PROPOSED"
    BY <2>1, Constants DEF BookInv, Shapes, PassAddsUp
  <2>3. PassOp.row # NoRow
    BY <2>2 DEF NoRow
  <2> QED
    BY <1>0, <2>1, <2>2, <2>3 DEF Commit, broker
<1>2. /\ OpsOK' /\ PassOp' = NoOp /\ WebOp' = WebOp /\ op'["pass"] = NoOp /\ op'["web"] = op["web"]
      /\ \A q \in Procs : q # "pass" => op'[q] = op[q]
  BY <1>0, <1>1, OpStep DEF Procs
<1>3. /\ pos' \in Position /\ pos'.entered \in Nat
      /\ row[PassOp.of].filled <= PassOp.row.filled /\ PassOp.row.filled <= ord[PassOp.of].filled
      /\ PassOp.of = "buy" => pos'.entered = PassOp.row.filled /\ pos'.open + row["sell"].filled = pos'.entered
      /\ PassOp.of = "sell" => pos'.entered = pos.entered /\ pos'.open + PassOp.row.filled = pos'.entered
  <2>1. pos' \in Position /\ pos'.entered \in Nat
    BY <1>0, <1>1, MergedTyped, Constants DEF Position
  <2> QED
    BY <1>1, <2>1 DEF BookInv, PassAddsUp
<1>4. /\ row' \in [Orders -> OrderRow] /\ line' \in [Lines -> {"PROPOSED", "SENT", "FILLED", "REJECTED"}]
      /\ row'[PassOp.of] = PassOp.row /\ line'[PassOp.of] = PassOp.line
      /\ \A o \in Orders : o # PassOp.of => row'[o] = row[o] /\ line'[o] = line[o]
  BY <1>0, <1>1, Constants DEF RestOK, Op
<1>5. HeldOK' /\ lock' \in [Rows -> Procs \cup {"none"}]
  BY <1>0, <1>1, <1>2, HeldFreed
<1>6. RestOK'
  BY <1>0, <1>1, <1>3, <1>4, <1>5 DEF RestOK
<1>7. NoOp.pc = "free" /\ NoOp.of = "none" /\ NoOp.cols = {} /\ NoOp.row = NoRow
  BY DEF NoOp
<1>8. Shapes'
  BY <1>2, <1>7, Constants DEF BookInv, Shapes
<1>9. pos'.entered >= pos.entered
  BY <1>0, <1>1, <1>3, Constants DEF BookInv, SharesAddUp
<1>10. LinesFirst'
  <2>1. WebOp.of \in Orders => WebOp.of # PassOp.of
    <3>1. row[PassOp.of].state # "none"
      BY <1>1 DEF BookInv, PassSound
    <3> QED
      BY <3>1 DEF BookInv, LinesFirst, NoRow
  <2>2. \A o \in Orders : line'[o] = "PROPOSED" => row'[o] = NoRow
    BY <1>1, <1>4 DEF BookInv, LinesFirst
  <2>3. WebOp.of \in Orders => line'[WebOp.of] = line[WebOp.of]
    BY <1>4, <2>1
  <2> QED
    BY <1>1, <1>2, <2>2, <2>3 DEF BookInv, LinesFirst
<1>11. OrdersSound'
  BY <1>0, <1>1, <1>2, <1>3, <1>9, Constants DEF BookInv, OrdersSound
<1>12. PassSound' /\ PassAddsUp'
  BY <1>2, <1>7 DEF PassSound, PassAddsUp
<1>13. Entered'
  <2>1. pos'.entered = 0 => pos'.gtt = 0
    BY <1>1 DEF BookInv, Entered
  <2> QED
    BY <1>0, <1>2, <1>3, <1>7, <1>9, <2>1 DEF BookInv, Entered
<1>14. SharesAddUp'
  <2>1. CASE PassOp.of = "buy"
    BY <1>0, <1>1, <1>3, <1>4, <2>1, Constants DEF BookInv, SharesAddUp
  <2>2. CASE PassOp.of = "sell"
    BY <1>0, <1>1, <1>3, <1>4, <2>2, Constants DEF BookInv, SharesAddUp
  <2> QED
    BY <1>1, <2>1, <2>2, Constants
<1> QED
  BY <1>2, <1>5, <1>6, <1>8, <1>10, <1>11, <1>12, <1>13, <1>14, Parts DEF BookInv

LEMMA AttachKeeps ==
  ASSUME BookInv, NEW i \in Gtts, Attach(i)
  PROVE  BookInv'
<1>0. OpsOK /\ HeldOK /\ RestOK /\ pos \in Position /\ pos.open \in Nat /\ pos.entered \in Nat /\ row["sell"].filled \in Nat
  BY Typed, Constants
<1>1. /\ UNCHANGED <<line, row, lock, op, key, ord, gtt, armed, faults, stray>> /\ WebOp' = WebOp /\ PassOp' = PassOp
      /\ pos' = [pos EXCEPT !.gtt = i, !.trig = gtt[i].level] /\ WebOp = NoOp /\ PassOp = NoOp /\ pos.open > 0
  BY DEF Attach, broker, WebOp, PassOp, IsOpen, BookInv, Shapes, Procs
<1>2. gtt[i].level \in Levels
  BY <1>0 DEF RestOK
<1>3. pos' \in Position /\ pos'.entered = pos.entered /\ pos'.open = pos.open
  BY <1>0, <1>1, <1>2 DEF Position
<1>4. RestOK' /\ OpsOK' /\ HeldOK'
  BY <1>0, <1>1, <1>3 DEF RestOK, OpsOK, HeldOK
<1>5. NoOp.pc = "free" /\ NoOp.of = "none" /\ NoOp.cols = {} /\ NoOp.row = NoRow
  BY DEF NoOp
<1>6. pos.entered > 0
  BY <1>0, <1>1 DEF BookInv, SharesAddUp
<1>7. Shapes' /\ LinesFirst' /\ OrdersSound' /\ SharesAddUp'
  BY <1>1, <1>3 DEF BookInv, Shapes, LinesFirst, OrdersSound, SharesAddUp
<1>8. PassSound' /\ PassAddsUp' /\ Entered'
  BY <1>0, <1>1, <1>3, <1>5, <1>6 DEF BookInv, PassSound, PassAddsUp, Entered
<1> QED
  BY <1>4, <1>7, <1>8, Parts DEF BookInv

LEMMA BrokerKeeps ==
  ASSUME BookInv, NEW o \in Orders, Fill(o) \/ Kill(o)
  PROVE  BookInv'
<1>0. /\ OpsOK /\ HeldOK /\ RestOK /\ Qty[o] \in Nat /\ Qty[o] <= BuyQty /\ BuyQty \in Nat
      /\ \A k \in Orders : ord[k] \in Report /\ ord[k].filled \in Nat /\ row[k].filled \in Nat
  BY Typed, Constants
<1>1. UNCHANGED <<line, row, pos, lock, op, key, gtt, armed, faults, stray>> /\ WebOp' = WebOp /\ PassOp' = PassOp
      /\ ord[o].status = "OPEN"
  BY DEF Fill, Kill, WebOp, PassOp
<1>2. ord[o].filled < Qty[o]
  BY <1>1 DEF BookInv, OrdersSound
<1>3. /\ ord' \in [Orders -> Report]
      /\ \A k \in Orders : /\ ord[k].filled <= ord'[k].filled
                           /\ (ord'[k].status = "none" <=> ord[k].status = "none")
                           /\ k # o => ord'[k] = ord[k]
      /\ ord'[o].status # "none" /\ ord'[o].filled <= Qty[o] /\ (ord'[o].status = "OPEN" => ord'[o].filled < Qty[o])
  <2>1. CASE Fill(o)
    <3> DEFINE x == [status |-> IF ord[o].filled + 1 = Qty[o] THEN "COMPLETE" ELSE "OPEN", filled |-> ord[o].filled + 1]
    <3>1. ord' = [ord EXCEPT ![o] = x]
      BY <1>0, <2>1 DEF Fill, RestOK
    <3>2. /\ x \in Report /\ x.status # "none" /\ x.filled = ord[o].filled + 1 /\ x.filled <= Qty[o]
          /\ x.status = "OPEN" => x.filled < Qty[o]
      BY <1>0, <1>2 DEF Report
    <3> HIDE DEF x
    <3> QED
      BY <1>0, <1>1, <3>1, <3>2 DEF RestOK
  <2>2. CASE Kill(o)
    <3> DEFINE x == [ord[o] EXCEPT !.status = "DEAD"]
    <3>1. ord' = [ord EXCEPT ![o] = x]
      BY <1>0, <2>2 DEF Kill, RestOK
    <3>2. x \in Report /\ x.status = "DEAD" /\ x.filled = ord[o].filled
      BY <1>0 DEF Report
    <3> HIDE DEF x
    <3> QED
      BY <1>0, <1>1, <1>2, <3>1, <3>2 DEF RestOK
  <2> QED
    BY <2>1, <2>2
<1>4. RestOK' /\ OpsOK' /\ HeldOK'
  BY <1>0, <1>1, <1>3 DEF RestOK, OpsOK, HeldOK
<1>5. Shapes' /\ Entered'
  <2>1. Merged(PassOp)' = Merged(PassOp)
    BY <1>1 DEF Merged
  <2> QED
    BY <1>1, <2>1 DEF BookInv, Shapes, Entered
<1>6. LinesFirst'
  BY <1>1, <1>3 DEF BookInv, LinesFirst
<1>7. OrdersSound'
  <2>1. \A k \in Orders : k # o => /\ ord'[k].filled <= Qty[k] /\ (ord'[k].status = "OPEN" => ord'[k].filled < Qty[k])
                                   /\ ord'[k].status = "none" => ord'[k].filled = 0
    BY <1>3 DEF BookInv, OrdersSound
  <2>2. ord'["sell"].status # "none" => pos.entered >= SellQty
    BY <1>3, Constants DEF BookInv, OrdersSound
  <2> QED
    BY <1>1, <1>3, <2>1, <2>2 DEF BookInv, OrdersSound
<1>8. PassOp.pc # "free" => PassOp.of \in Orders /\ PassOp.report.filled \in Nat /\ PassOp.row.filled \in Nat
  BY Typed, Constants DEF BookInv, Shapes, Op, Report, OrderRow
<1>9. \A k \in Orders, n \in Nat : n <= ord[k].filled => n <= ord'[k].filled
  <2>1. \A k \in Orders : ord'[k].filled \in Nat
    BY <1>0, <1>3 DEF Report
  <2> QED
    BY <1>0, <1>3, <2>1
<1>10. PassSound'
  BY <1>1, <1>3, <1>8, <1>9 DEF BookInv, PassSound
<1>11. PassAddsUp'
  <2>1. Merged(PassOp)' = Merged(PassOp)
    BY <1>1 DEF Merged
  <2> QED
    BY <1>1, <1>8, <1>9, <2>1 DEF BookInv, PassAddsUp
<1>12. SharesAddUp'
  <2>1. pos.entered \in Nat /\ "buy" \in Orders /\ "sell" \in Orders
    BY Typed, Constants
  <2> QED
    BY <1>0, <1>1, <1>9, <2>1 DEF BookInv, SharesAddUp
<1> QED
  BY <1>4, <1>5, <1>6, <1>7, <1>10, <1>11, <1>12, Parts DEF BookInv

LEMMA DieKeeps ==
  ASSUME BookInv, NEW p \in Procs, Die(p)
  PROVE  BookInv'
<1>0. OpsOK /\ HeldOK /\ RestOK /\ NoOp \in Op /\ op[p] \in Op
  BY Typed, NoOpTyped DEF OpsOK
<1>1. /\ op' = [op EXCEPT ![p] = NoOp] /\ UNCHANGED <<line, row, pos, ord, gtt, armed>> /\ Fault
      /\ lock' = [r \in Rows |-> IF lock[r] = p THEN "none" ELSE lock[r]]
      /\ key' \in [Cids -> {"free", "pending", "placed"}]
      /\ stray' \subseteq Gtts
  BY <1>0 DEF Die, broker, RestOK, Op
<1>2. /\ OpsOK' /\ op'[p] = NoOp /\ \A q \in Procs : q # p => op'[q] = op[q]
      /\ p = "web" => WebOp' = NoOp /\ PassOp' = PassOp
      /\ p = "pass" => PassOp' = NoOp /\ WebOp' = WebOp
  BY <1>0, <1>1, OpStep
<1>3. HeldOK' /\ lock' \in [Rows -> Procs \cup {"none"}]
  BY <1>0, <1>1, <1>2, HeldFreed
<1>4. RestOK'
  BY <1>0, <1>1, <1>3, FaultTyped DEF RestOK
<1>5. NoOp.pc = "free" /\ NoOp.of = "none" /\ NoOp.cols = {} /\ NoOp.row = NoRow
  BY DEF NoOp
<1>6. CASE p = "web"
  <2>1. Shapes'
    BY <1>2, <1>5, <1>6, Constants DEF BookInv, Shapes
  <2>2. LinesFirst' /\ OrdersSound'
    BY <1>1, <1>2, <1>5, <1>6, Constants DEF BookInv, LinesFirst, OrdersSound
  <2>3. PassSound' /\ PassAddsUp' /\ SharesAddUp'
    BY <1>1, <1>2, <1>6, WebOnly
  <2>4. Entered'
    <3>1. Merged(PassOp)' = Merged(PassOp)
      BY <1>1, <1>2, <1>6 DEF Merged
    <3> QED
      BY <1>1, <1>2, <1>5, <1>6, <3>1, Constants DEF BookInv, Entered, Arming
  <2> QED
    BY <1>2, <1>3, <1>4, <2>1, <2>2, <2>3, <2>4, Parts DEF BookInv
<1>7. CASE p = "pass"
  <2>1. Shapes'
    BY <1>2, <1>5, <1>7, Constants DEF BookInv, Shapes
  <2>2. LinesFirst' /\ OrdersSound' /\ SharesAddUp'
    BY <1>1, <1>2, <1>7, PassOnly
  <2>3. PassSound' /\ PassAddsUp' /\ Entered'
    BY <1>1, <1>2, <1>5, <1>7 DEF BookInv, PassSound, PassAddsUp, Entered
  <2> QED
    BY <1>2, <1>3, <1>4, <2>1, <2>2, <2>3, Parts DEF BookInv
<1> QED
  BY <1>6, <1>7 DEF Procs

LEMMA StutterKeeps ==
  ASSUME BookInv, UNCHANGED vars
  PROVE  BookInv'
<1>1. UNCHANGED <<line, row, pos, lock, op, key, ord, gtt, armed, faults, stray>> /\ WebOp' = WebOp /\ PassOp' = PassOp
  BY DEF vars, WebOp, PassOp
<1>2. Merged(PassOp)' = Merged(PassOp)
  BY <1>1 DEF Merged
<1> QED
  BY <1>1, <1>2
  DEF BookInv, TypeOK, Shapes, LinesFirst, OrdersSound, PassSound, PassAddsUp, Entered, SharesAddUp

LEMMA BookInit == Init => BookInv
<1> SUFFICES ASSUME Init PROVE BookInv
  OBVIOUS
<1>0. NoOp \in Op /\ NoPos \in Position /\ NoRow \in OrderRow /\ NoReport \in Report /\ MaxGtts \in Nat /\ MaxFaults \in Nat
  BY NoOpTyped, TwtAssumption
<1>1. /\ NoOp.pc = "free" /\ NoOp.of = "none" /\ NoOp.cols = {} /\ NoOp.row = NoRow /\ NoOp.pos = NoPos
      /\ NoPos.entered = 0 /\ NoPos.open = 0 /\ NoPos.gtt = 0 /\ NoRow.filled = 0
      /\ NoReport.filled = 0 /\ NoReport.status = "none"
  BY DEF NoOp, NoPos, NoRow, NoReport
<1>2. WebOp = NoOp /\ PassOp = NoOp /\ pos = NoPos
  BY DEF Init, WebOp, PassOp, Procs
<1>3. TypeOK
  <2>1. OpsOK /\ HeldOK
    BY <1>0 DEF Init, OpsOK, HeldOK
  <2>2. RestOK
    BY <1>0, Constants DEF Init, RestOK
  <2> QED
    BY <2>1, <2>2, Parts
<1>4. Shapes
  BY <1>1, <1>2, Constants DEF Init, Shapes
<1>5. LinesFirst /\ OrdersSound
  BY <1>1, <1>2, Constants DEF Init, LinesFirst, OrdersSound
<1>6. PassSound /\ PassAddsUp /\ Entered
  BY <1>1, <1>2, Constants DEF Init, PassSound, PassAddsUp, Entered, Arming
<1>7. SharesAddUp
  BY <1>1, <1>2, Constants DEF Init, SharesAddUp
<1> QED
  BY <1>3, <1>4, <1>5, <1>6, <1>7 DEF BookInv

\* Every step keeps the book's invariant.
LEMMA BookStep == BookInv /\ [Next]_vars => BookInv'
<1> SUFFICES ASSUME BookInv, [Next]_vars PROVE BookInv'
  OBVIOUS
<1>1. ASSUME NEW l \in Lines, Confirm(l) \/ Refuse(l) PROVE BookInv'
  BY <1>1, ConfirmKeeps, RefuseKeeps
<1>2. ASSUME NEW o \in Orders, Place(o) \/ ReadReport(o) \/ Fill(o) \/ Kill(o) PROVE BookInv'
  BY <1>2, PlaceKeeps, ReadReportKeeps, BrokerKeeps
<1>3. CASE CancelOld \/ Handle("web")
  BY <1>3, CancelOldKeeps, ArmKeeps, WebCommitKeeps DEF Handle, Procs
<1>4. CASE Pass
  BY <1>4, ApplyBuyKeeps, ApplySellKeeps, CancelClosedKeeps, ResizeKeeps, ArmKeeps, PassCommitKeeps
  DEF Pass, Handle, Procs
<1>5. ASSUME NEW i \in Gtts, Attach(i) PROVE BookInv'
  BY <1>5, AttachKeeps
<1>6. ASSUME NEW p \in Procs, Die(p) PROVE BookInv'
  BY <1>6, DieKeeps
<1> QED
  BY <1>1, <1>2, <1>3, <1>4, <1>5, <1>6, RearmKeeps, StutterKeeps DEF Next

(* Every variable holds a value of its type, and a session row is held by a handler at work.     *)
THEOREM TypeCorrect == Spec => []TypeOK
<1>1. BookInv => TypeOK
  BY DEF BookInv
<1> QED
  BY <1>1, BookInit, BookStep, PTL DEF Spec

(* However fills are split, however reports are repeated and whoever dies in between, the book   *)
(* counts each share once (apply_fill, grow_position and apply_exit_fill, each in the transaction *)
(* that also writes the order row they are measured against).                                    *)
THEOREM SharesCounted == Spec => []SharesAddUp
<1>1. BookInv => SharesAddUp
  BY DEF BookInv
<1> QED
  BY <1>1, BookInit, BookStep, PTL DEF Spec

-----------------------------------------------------------------------------
(* The level of the stop.                                                                        *)
LEMMA LevelsAre ==
  ASSUME BookInv
  PROVE  /\ pos.stop \in Nat /\ pos.trig \in Nat
         /\ RestingTrigger(pos) \in Nat /\ pos.stop <= RestingTrigger(pos) /\ pos.trig <= RestingTrigger(pos)
         /\ RestingTrigger(pos) \in {pos.stop, pos.trig}
         /\ \A l \in Raises : RaiseTo[l] \in Nat
<1>1. pos.stop \in Nat /\ pos.trig \in Nat
  BY Typed, Constants DEF Position
<1>2. \A l \in Raises : RaiseTo[l] \in Nat
  BY Constants
<1>3. /\ RestingTrigger(pos) \in Nat /\ pos.stop <= RestingTrigger(pos) /\ pos.trig <= RestingTrigger(pos)
      /\ RestingTrigger(pos) \in {pos.stop, pos.trig}
  BY <1>1 DEF RestingTrigger, Larger
<1> QED
  BY <1>1, <1>2, <1>3

LEMMA NoOpLevel == Naked(NoOp) /\ WebLevel(NoOp) /\ PassLevel(NoOp)
  BY Constants DEF Naked, WebLevel, PassLevel, NoOp, NoPos

\* Steps that leave the committed position alone.
LEMMA WebLevelKeeps ==
  ASSUME BookInv, Levelled, pos' = pos, PassOp' = PassOp, Naked(WebOp'), WebLevel(WebOp')
  PROVE  Levelled'
  BY DEF Levelled, Naked, WebLevel, PassLevel

LEMMA PassLevelKeeps ==
  ASSUME BookInv, Levelled, pos' = pos, WebOp' = WebOp, Naked(PassOp'), PassLevel(PassOp')
  PROVE  Levelled'
  BY DEF Levelled, Naked, WebLevel, PassLevel

\* What the web process's handlers hold of the stop.
LEMMA WebSteps ==
  ASSUME BookInv, Levelled,
         \/ \E l \in Lines : Confirm(l)
         \/ \E o \in Orders : Place(o)
         \/ CancelOld \/ Rearm \/ Arm("web")
  PROVE  Levelled'
<1>0. /\ OpsOK /\ op["web"] = WebOp /\ op["pass"] = PassOp /\ WebOp \in Op /\ "web" \in Procs /\ "pass" \in Procs
      /\ pos \in Position /\ NoOp \in Op /\ (pos.gtt = 0 => pos.trig = 0) /\ Naked(WebOp) /\ WebLevel(WebOp)
  BY Typed, NoOpTyped DEF Levelled, WebOp, PassOp, Procs
<1>1. ASSUME NEW l \in Lines, Confirm(l) PROVE Levelled'
  <2> PICK c : c = CASE l \in Orders -> "place" [] l \in Raises /\ pos.gtt # 0 -> "cancel" [] OTHER -> "arm"
    OBVIOUS
  <2> DEFINE x == [NoOp EXCEPT !.of = l, !.pos = pos, !.pc = c]
  <2>1. op' = [op EXCEPT !["web"] = x] /\ pos' = pos /\ Admits(l)
    BY <1>1 DEF Confirm
  <2>2. x.of = l /\ x.pos = pos /\ x.cols = {}
    BY DEF NoOp
  <2> HIDE DEF x
  <2>3. WebOp' = x /\ PassOp' = PassOp
    BY <1>0, <2>1 DEF OpsOK, WebOp, PassOp
  <2>4. Naked(x) /\ WebLevel(x)
    <3>1. l = "arm" => pos.trig <= pos.stop
      BY <1>0, <2>1, LevelsAre DEF Admits
    <3>2. l \in Raises => RaiseTo[l] > RestingTrigger(pos)
      BY <2>1, Constants DEF Admits
    <3>3. l # "rearm"
      BY Constants
    <3> QED
      BY <1>0, <2>2, <3>1, <3>2, <3>3 DEF Naked, WebLevel
  <2> QED
    BY <2>1, <2>3, <2>4, WebLevelKeeps
<1>2. ASSUME NEW x, op' = [op EXCEPT !["web"] = x], pos' = pos, x.of = WebOp.of, x.pos = WebOp.pos, x.cols = WebOp.cols
      PROVE  Levelled'
  <2>1. WebOp' = x /\ PassOp' = PassOp
    BY <1>0, <1>2 DEF OpsOK, WebOp, PassOp
  <2>2. Naked(x) /\ WebLevel(x)
    BY <1>0, <1>2 DEF Naked, WebLevel
  <2> QED
    BY <1>2, <2>1, <2>2, WebLevelKeeps
<1>3. ASSUME NEW o \in Orders, Place(o) PROVE Levelled'
  <2>1. pos' = pos
    BY <1>3 DEF Place
  <2>2. PICK l, r : op' = [op EXCEPT !["web"] = Ends(WebOp, l, r)]
    BY <1>0, <1>3 DEF Place, OpsOK
  <2>3. LET y == Ends(WebOp, l, r) IN y.of = WebOp.of /\ y.pos = WebOp.pos /\ y.cols = WebOp.cols
    BY <1>0 DEF Ends, Op
  <2> QED
    BY <1>2, <2>1, <2>2, <2>3
<1>4. CASE CancelOld
  <2>1. pos' = pos
    BY <1>4 DEF CancelOld
  <2>2. CASE op' = [op EXCEPT !["web"].pc = "arm", !["web"].moved = op["web"].pos.gtt]
    <3> DEFINE x == [WebOp EXCEPT !.pc = "arm", !.moved = WebOp.pos.gtt]
    <3>1. op' = [op EXCEPT !["web"] = x]
      BY <1>0, <2>2 DEF OpsOK
    <3>2. x.of = WebOp.of /\ x.pos = WebOp.pos /\ x.cols = WebOp.cols
      BY <1>0 DEF Op
    <3> QED
      BY <1>2, <2>1, <3>1, <3>2
  <2>3. CASE op' = [op EXCEPT !["web"] = Ends(@, "REJECTED", NoRow)]
    <3>1. op' = [op EXCEPT !["web"] = Ends(WebOp, "REJECTED", NoRow)]
      BY <1>0, <2>3 DEF OpsOK
    <3>2. LET y == Ends(WebOp, "REJECTED", NoRow) IN y.of = WebOp.of /\ y.pos = WebOp.pos /\ y.cols = WebOp.cols
      BY <1>0 DEF Ends, Op
    <3> QED
      BY <1>2, <2>1, <3>1, <3>2
  <2> QED
    BY <1>4, <2>2, <2>3 DEF CancelOld
<1>5. CASE Rearm
  <2> DEFINE x == [NoOp EXCEPT !.pc = "arm", !.of = "rearm", !.pos = pos]
  <2>1. op' = [op EXCEPT !["web"] = x] /\ pos' = pos /\ pos.gtt = 0
    BY <1>5 DEF Rearm
  <2>2. x.of = "rearm" /\ x.pos = pos /\ x.cols = {}
    BY DEF NoOp
  <2> HIDE DEF x
  <2>3. WebOp' = x /\ PassOp' = PassOp
    BY <1>0, <2>1 DEF OpsOK, WebOp, PassOp
  <2>4. Naked(x) /\ WebLevel(x)
    BY <1>0, <2>1, <2>2, LevelsAre, Constants DEF Naked, WebLevel
  <2> QED
    BY <2>1, <2>3, <2>4, WebLevelKeeps
<1>6. CASE Arm("web")
  <2>0. pos' = pos /\ WebOp.pc = "arm" /\ WebOp.of \in Arming
    BY <1>0, <1>6 DEF Arm, BookInv, Shapes
  <2>1. ASSUME NEW x, op' = [op EXCEPT !["web"] = x], Naked(x), WebLevel(x) PROVE Levelled'
    <3>1. WebOp' = x /\ PassOp' = PassOp
      BY <1>0, <2>1 DEF OpsOK, WebOp, PassOp
    <3> QED
      BY <2>0, <2>1, <3>1, WebLevelKeeps
  <2>2. CASE op' = [op EXCEPT !["web"] = NotArmed("web")]
    <3> DEFINE y == NotArmed("web")
    <3>1. /\ y.of = WebOp.of
          /\ y.cols = WebOp.cols \cup (IF WebOp.of \in Raises THEN {"stop", "gtt", "trig"} ELSE {})
          /\ WebOp.of \notin Raises => y.pos = WebOp.pos
          /\ WebOp.of \in Raises => y.pos.gtt = 0 /\ y.pos.trig = 0 /\ y.pos.stop = RaiseTo[WebOp.of]
      BY <1>0, <2>0, NotArmedMoves, LevelTyped
    <3> HIDE DEF y
    <3>2. Naked(y) /\ WebLevel(y)
      <4>1. CASE WebOp.of \in Raises
        BY <1>0, <3>1, <4>1 DEF Naked, WebLevel
      <4>2. CASE WebOp.of \notin Raises
        BY <1>0, <3>1, <4>2 DEF Naked, WebLevel
      <4> QED
        BY <4>1, <4>2
    <3> QED
      BY <2>1, <2>2, <3>2 DEF y
  <2>3. CASE armed < MaxGtts /\ op' = [op EXCEPT !["web"] = ArmedWith("web", armed + 1)]
    <3>1. PICK i \in Gtts : i = armed + 1
      BY <2>3, Typed, TwtAssumption DEF RestOK, Gtts
    <3> DEFINE y == ArmedWith("web", i)
    <3>2. /\ y.of = WebOp.of
          /\ y.cols = WebOp.cols \cup {"gtt", "trig"} \cup (IF WebOp.of \in Raises THEN {"stop"} ELSE {})
          /\ y.pos.gtt = i
          /\ WebOp.of \in Raises => y.pos.stop = RaiseTo[WebOp.of]
      BY <1>0, <2>0, ArmedMoves, LevelTyped
    <3>3. op' = [op EXCEPT !["web"] = y] /\ i # 0
      BY <2>3, <3>1 DEF Gtts
    <3> HIDE DEF y
    <3>4. Naked(y) /\ WebLevel(y)
      <4>1. CASE WebOp.of \in Raises
        BY <1>0, <3>2, <3>3, <4>1 DEF Naked, WebLevel
      <4>2. CASE WebOp.of \notin Raises
        BY <1>0, <3>2, <3>3, <4>2 DEF Naked, WebLevel
      <4> QED
        BY <4>1, <4>2
    <3> QED
      BY <2>1, <3>3, <3>4
  <2> QED
    BY <1>6, <2>2, <2>3 DEF Arm
<1> QED
  BY <1>1, <1>3, <1>4, <1>5, <1>6

\* What a report that is being applied holds of the stop.
LEMMA PassSteps ==
  ASSUME BookInv, Levelled,
         \/ \E o \in Orders : ReadReport(o)
         \/ ApplyBuy \/ ApplySell \/ CancelClosed \/ Resize \/ Arm("pass")
  PROVE  Levelled'
<1>0. /\ OpsOK /\ op["web"] = WebOp /\ op["pass"] = PassOp /\ PassOp \in Op /\ "web" \in Procs /\ "pass" \in Procs
      /\ pos \in Position /\ NoOp \in Op /\ (pos.gtt = 0 => pos.trig = 0) /\ Naked(PassOp) /\ PassLevel(PassOp)
      /\ pos.entered \in Nat
  BY Typed, NoOpTyped DEF Levelled, WebOp, PassOp, Procs
<1>1. ASSUME NEW x, op' = [op EXCEPT !["pass"] = x], pos' = pos, Naked(x), PassLevel(x)
      PROVE  Levelled'
  <2>1. PassOp' = x /\ WebOp' = WebOp
    BY <1>0, <1>1 DEF OpsOK, WebOp, PassOp
  <2> QED
    BY <1>1, <2>1, PassLevelKeeps
<1>2. ASSUME NEW o \in Orders, ReadReport(o) PROVE Levelled'
  <2> DEFINE x == [NoOp EXCEPT !.pc = "read", !.of = o, !.report = ord[o], !.was = row[o]]
  <2>1. op' = [op EXCEPT !["pass"] = x] /\ pos' = pos
    BY <1>2 DEF ReadReport
  <2>2. x.pc = "read" /\ x.cols = {} /\ x.pos.gtt = 0 /\ x.pos.trig = 0
    BY DEF NoOp, NoPos
  <2> HIDE DEF x
  <2>3. Naked(x) /\ PassLevel(x)
    BY <2>2 DEF Naked, PassLevel
  <2> QED
    BY <1>1, <2>1, <2>3
<1>3. CASE ApplyBuy
  <2>1. PICK x \in Op :
          /\ op' = [op EXCEPT !["pass"] = x]
          /\ \/ x.pc = "commit" /\ x.cols = {} /\ x.pos = pos
             \/ /\ x.pc = (IF pos.gtt = 0 THEN "arm" ELSE "resize")
                /\ x.pos.gtt = (IF pos.entered = 0 THEN 0 ELSE pos.gtt)
                /\ x.pos.trig = (IF pos.entered = 0 THEN 0 ELSE pos.trig)
                /\ x.pos.stop = (IF pos.entered = 0 THEN InitialStop ELSE pos.stop)
                /\ x.cols = (IF pos.entered = 0 THEN Columns ELSE {"entered", "open"})
    BY <1>3, BuyMoves
  <2>2. pos' = pos
    BY <1>3, BuyMoves
  <2>3. CASE x.pc = "commit"
    <3>1. x.cols = {} /\ x.pos = pos
      BY <2>1, <2>3
    <3>2. Naked(x) /\ PassLevel(x)
      BY <1>0, <2>3, <3>1 DEF Naked, PassLevel
    <3> QED
      BY <1>1, <2>1, <2>2, <3>2
  <2>4. CASE x.pc # "commit" /\ pos.entered = 0
    <3>1. x.pc \in {"arm", "resize"} /\ x.cols = Columns /\ x.pos.gtt = 0 /\ x.pos.trig = 0
      BY <2>1, <2>4
    <3>2. Naked(x) /\ PassLevel(x)
      BY <2>4, <3>1 DEF Naked, PassLevel, Columns
    <3> QED
      BY <1>1, <2>1, <2>2, <3>2
  <2>5. CASE x.pc # "commit" /\ pos.entered # 0
    <3>1. /\ x.pc \in {"arm", "resize"} /\ (x.pc = "arm" => pos.gtt = 0) /\ x.cols = {"entered", "open"}
          /\ x.pos.gtt = pos.gtt /\ x.pos.trig = pos.trig /\ x.pos.stop = pos.stop
      BY <2>1, <2>5
    <3>2. x.pc = "arm" => pos.trig = 0 /\ RestingTrigger(x.pos) = pos.stop
      BY <1>0, <3>1, LevelsAre DEF RestingTrigger, Larger
    <3>3. Naked(x) /\ PassLevel(x)
      BY <1>0, <3>1, <3>2 DEF Naked, PassLevel
    <3> QED
      BY <1>1, <2>1, <2>2, <3>3
  <2> QED
    BY <2>3, <2>4, <2>5
<1>4. CASE ApplySell
  <2>1. PICK x \in Op :
          /\ op' = [op EXCEPT !["pass"] = x] /\ x.pc \in {"commit", "cancel", "resize"}
          /\ x.pos.gtt = pos.gtt /\ x.pos.trig = pos.trig
          /\ x.pc = "cancel" => x.pos.open = 0 /\ "open" \in x.cols
          /\ x.cols \subseteq {"open", "closed"}
    BY <1>4, SellMoves
  <2>2. pos' = pos
    BY <1>4, SellMoves
  <2>3. Naked(x) /\ PassLevel(x)
    BY <1>0, <2>1 DEF Naked, PassLevel
  <2> QED
    BY <1>1, <2>1, <2>2, <2>3
<1>5. CASE Resize
  <2> DEFINE x == [PassOp EXCEPT !.pc = "commit", !.moved = PassOp.pos.gtt]
  <2>1. op' = [op EXCEPT !["pass"] = x] /\ pos' = pos
    BY <1>0, <1>5 DEF Resize, OpsOK
  <2>2. x.pc = "commit" /\ x.cols = PassOp.cols /\ x.pos = PassOp.pos
    BY <1>0 DEF Op
  <2> HIDE DEF x
  <2>3. Naked(x) /\ PassLevel(x)
    BY <1>0, <2>2 DEF Naked, PassLevel
  <2> QED
    BY <1>1, <2>1, <2>3
<1>6. CASE CancelClosed
  <2>0. pos' = pos /\ PassOp.pc = "cancel" /\ PassOp.pos \in Position
    BY <1>0, <1>6 DEF CancelClosed, Op
  <2>1. CASE op' = [op EXCEPT !["pass"].pc = "commit"]
    <3> DEFINE x == [PassOp EXCEPT !.pc = "commit"]
    <3>1. op' = [op EXCEPT !["pass"] = x]
      BY <1>0, <2>1 DEF OpsOK
    <3>2. x.pc = "commit" /\ x.cols = PassOp.cols /\ x.pos = PassOp.pos
      BY <1>0 DEF Op
    <3> HIDE DEF x
    <3>3. Naked(x) /\ PassLevel(x)
      BY <1>0, <3>2 DEF Naked, PassLevel
    <3> QED
      BY <1>1, <2>0, <3>1, <3>3
  <2>2. CASE op' = [op EXCEPT !["pass"] =
             [Writes(@, {"gtt", "trig"}, [@.pos EXCEPT !.gtt = 0, !.trig = 0])
              EXCEPT !.pc = "commit", !.moved = op["pass"].pos.gtt]]
    <3> DEFINE n == [PassOp.pos EXCEPT !.gtt = 0, !.trig = 0]
               x == [PassOp EXCEPT !.cols = @ \cup {"gtt", "trig"}, !.pos = n, !.pc = "commit", !.moved = PassOp.pos.gtt]
    <3>1. op' = [op EXCEPT !["pass"] = x]
      BY <1>0, <2>2 DEF OpsOK, Writes, Op
    <3>2. n.gtt = 0 /\ n.trig = 0 /\ n.open = PassOp.pos.open
      BY <2>0 DEF Position
    <3> HIDE DEF n
    <3>3. x.pc = "commit" /\ x.cols = PassOp.cols \cup {"gtt", "trig"} /\ x.pos = n
      BY <1>0 DEF Op
    <3> HIDE DEF x
    <3>4. PassOp.cols # {} /\ "open" \in PassOp.cols /\ PassOp.pos.open = 0
      BY <1>0, <2>0 DEF PassLevel
    <3>5. Naked(x) /\ PassLevel(x)
      BY <1>0, <3>2, <3>3, <3>4, LevelsAre DEF Naked, PassLevel
    <3> QED
      BY <1>1, <2>0, <3>1, <3>5
  <2> QED
    BY <1>6, <2>1, <2>2 DEF CancelClosed
<1>7. CASE Arm("pass")
  <2>0. pos' = pos /\ PassOp.pc = "arm" /\ PassOp.of \notin Raises
    BY <1>0, <1>7, Constants DEF Arm, BookInv, Shapes
  <2>1. CASE op' = [op EXCEPT !["pass"] = NotArmed("pass")]
    <3> DEFINE y == NotArmed("pass")
    <3>1. y.pc = "commit" /\ y.cols = PassOp.cols \cup {} /\ y.pos = PassOp.pos
      BY <1>0, <2>0, NotArmedMoves
    <3> HIDE DEF y
    <3>2. Naked(y) /\ PassLevel(y)
      BY <1>0, <3>1 DEF Naked, PassLevel
    <3> QED
      BY <1>1, <2>0, <2>1, <3>2 DEF y
  <2>2. CASE armed < MaxGtts /\ op' = [op EXCEPT !["pass"] = ArmedWith("pass", armed + 1)]
    <3>1. PICK i \in Gtts : i = armed + 1
      BY <2>2, Typed, TwtAssumption DEF RestOK, Gtts
    <3> DEFINE y == ArmedWith("pass", i)
    <3>2. y.pc = "commit" /\ y.cols = PassOp.cols \cup {"gtt", "trig"} \cup {} /\ y.pos.gtt = i /\ y.pos.trig = Level("pass")
      BY <1>0, <2>0, ArmedMoves
    <3>3. op' = [op EXCEPT !["pass"] = y] /\ i # 0
      BY <2>2, <3>1 DEF Gtts
    <3>4. Level("pass") = RestingTrigger(PassOp.pos)
      BY <1>0, Constants DEF Level, Cid
    <3> HIDE DEF y
    <3>5. Naked(y) /\ PassLevel(y)
      <4>1. Naked(y)
        BY <3>2, <3>3 DEF Naked
      <4>2. pos.entered > 0 => /\ "stop" \notin PassOp.cols /\ pos.trig = 0
                               /\ y.pos.trig = pos.stop /\ pos.stop <= RestingTrigger(pos)
        BY <1>0, <2>0, <3>2, <3>4, LevelsAre DEF PassLevel
      <4> QED
        BY <3>2, <4>1, <4>2 DEF PassLevel
    <3> QED
      BY <1>1, <2>0, <3>3, <3>5
  <2> QED
    BY <1>7, <2>1, <2>2 DEF Arm
<1> QED
  BY <1>2, <1>3, <1>4, <1>5, <1>6, <1>7

LEMMA MergedNothing ==
  ASSUME BookInv, NEW o \in Op, o.cols = {}
  PROVE  Merged(o) = pos
<1>1. pos \in Position
  BY Typed
<1> QED
  BY <1>1 DEF Merged, Position, Columns

\* A commit: what is raised goes up, and nothing else brings the level down.
LEMMA WebCommitRaises ==
  ASSUME BookInv, Levelled, Commit("web")
  PROVE  Levelled' /\ RestingTrigger(pos') >= RestingTrigger(pos)
<1>0. /\ OpsOK /\ op["web"] = WebOp /\ op["pass"] = PassOp /\ WebOp \in Op /\ PassOp \in Op /\ pos \in Position
      /\ pos.gtt = 0 => pos.trig = 0
      /\ Naked(WebOp) /\ Naked(PassOp) /\ WebLevel(WebOp) /\ PassLevel(PassOp)
  BY Typed DEF Levelled, WebOp, PassOp
<1>1. /\ pos' = Merged(WebOp) /\ (WebOp.cols # {} => PassOp.cols = {}) /\ op' = [op EXCEPT !["web"] = NoOp]
      /\ PassOp.pc \in {"arm", "cancel"} => PassOp.cols # {}
  BY <1>0 DEF Commit, PassLevel
<1>2. WebOp' = NoOp /\ PassOp' = PassOp
  BY <1>0, <1>1 DEF OpsOK, WebOp, PassOp, Procs
<1>3. CASE WebOp.cols = {}
  <2>1. pos' = pos
    BY <1>0, <1>1, <1>3, MergedNothing
  <2>2. Naked(NoOp) /\ WebLevel(NoOp)
    BY NoOpLevel
  <2> QED
    BY <1>2, <2>1, <2>2, LevelsAre, WebLevelKeeps
<1>4. CASE WebOp.cols # {}
  <2>1. /\ pos'.gtt = IF "gtt" \in WebOp.cols THEN WebOp.pos.gtt ELSE pos.gtt
        /\ pos'.trig = IF "trig" \in WebOp.cols THEN WebOp.pos.trig ELSE pos.trig
        /\ pos'.stop = IF "stop" \in WebOp.cols THEN WebOp.pos.stop ELSE pos.stop
        /\ pos' \in Position
    BY <1>0, <1>1, MergedTyped
  <2>2. pos'.gtt = 0 => pos'.trig = 0
    BY <1>0, <2>1 DEF Naked
  <2>3. PassOp.cols = {} /\ PassOp.pc \notin {"arm", "cancel"}
    BY <1>1, <1>4
  <2>4. Levelled'
    <3>1. WebLevel(WebOp)'
      BY <1>2, Constants DEF WebLevel, NoOp
    <3>2. PassLevel(PassOp)'
      BY <1>2, <2>3 DEF PassLevel
    <3>3. Naked(WebOp)' /\ Naked(PassOp)'
      BY <1>0, <1>2, NoOpLevel DEF Naked
    <3> QED
      BY <2>2, <3>1, <3>2, <3>3 DEF Levelled
  <2>5. pos'.stop \in Nat /\ pos'.trig \in Nat
    BY <2>1, Constants DEF Position
  <2>6. /\ RestingTrigger(pos') \in Nat /\ pos'.stop <= RestingTrigger(pos') /\ pos'.trig <= RestingTrigger(pos')
    BY <2>5 DEF RestingTrigger, Larger
  <2>7. WebOp.of \in Arming
    BY <1>4 DEF BookInv, Entered
  <2>8. CASE WebOp.of \in Raises
    <3>1. "stop" \in WebOp.cols
      <4>1. WebOp.cols \subseteq Stops
        BY DEF BookInv, Shapes
      <4> QED
        BY <1>0, <1>4, <2>8, <4>1 DEF Stops, Naked, WebLevel
    <3>2. pos'.stop = RaiseTo[WebOp.of] /\ RaiseTo[WebOp.of] > RestingTrigger(pos) /\ RaiseTo[WebOp.of] \in Nat
      BY <1>0, <2>1, <2>8, <3>1, LevelsAre DEF WebLevel
    <3> QED
      BY <2>4, <2>5, <2>6, <3>2, LevelsAre
  <2>9. CASE WebOp.of \in {"arm", "rearm"}
    <3>1. WebOp.of \notin Raises
      BY <2>9, Constants
    <3>2. pos'.stop = pos.stop /\ pos.trig <= pos.stop
      BY <1>0, <2>1, <2>9, <3>1 DEF WebLevel
    <3>3. RestingTrigger(pos) = pos.stop
      BY <3>2, LevelsAre
    <3> QED
      BY <2>4, <2>6, <3>2, <3>3
  <2> QED
    BY <2>7, <2>8, <2>9 DEF Arming
<1> QED
  BY <1>3, <1>4

\* A commit of the pass leaves the level of a position that stays open where it was, or brings it
\* back there; it never lifts it over a raise that is on its way.
LEMMA PassCommitLevels ==
  ASSUME BookInv, Levelled, Commit("pass")
  PROVE  Levelled' /\ (IsOpen /\ IsOpen' => RestingTrigger(pos') >= RestingTrigger(pos))
<1>0. /\ OpsOK /\ op["web"] = WebOp /\ op["pass"] = PassOp /\ WebOp \in Op /\ PassOp \in Op /\ pos \in Position
      /\ pos.gtt = 0 => pos.trig = 0
      /\ pos.entered \in Nat /\ pos.open \in Nat /\ row["sell"].filled \in Nat
      /\ Naked(WebOp) /\ Naked(PassOp) /\ WebLevel(WebOp) /\ PassLevel(PassOp)
  BY Typed, Constants DEF Levelled, WebOp, PassOp
<1>1. pos' = Merged(PassOp) /\ op' = [op EXCEPT !["pass"] = NoOp]
  BY <1>0 DEF Commit
<1>2. PassOp' = NoOp /\ WebOp' = WebOp
  BY <1>0, <1>1 DEF OpsOK, WebOp, PassOp, Procs
<1>3. CASE PassOp.cols = {}
  <2>1. pos' = pos
    BY <1>0, <1>1, <1>3, MergedNothing
  <2>2. Naked(NoOp) /\ PassLevel(NoOp)
    BY NoOpLevel
  <2> QED
    BY <1>2, <2>1, <2>2, LevelsAre, PassLevelKeeps
<1>4. CASE PassOp.cols # {}
  <2>1. /\ pos'.open = IF "open" \in PassOp.cols THEN PassOp.pos.open ELSE pos.open
        /\ pos'.gtt = IF "gtt" \in PassOp.cols THEN PassOp.pos.gtt ELSE pos.gtt
        /\ pos'.trig = IF "trig" \in PassOp.cols THEN PassOp.pos.trig ELSE pos.trig
        /\ pos'.stop = IF "stop" \in PassOp.cols THEN PassOp.pos.stop ELSE pos.stop
        /\ pos' \in Position
    BY <1>0, <1>1, MergedTyped
  <2>2. pos'.gtt = 0 => pos'.trig = 0
    BY <1>0, <2>1 DEF Naked
  <2>3. /\ pos'.stop \in Nat /\ pos'.trig \in Nat /\ RestingTrigger(pos') \in {pos'.stop, pos'.trig}
        /\ RestingTrigger(pos') \in Nat /\ pos'.stop <= RestingTrigger(pos') /\ pos'.trig <= RestingTrigger(pos')
    <3>1. pos'.stop \in Nat /\ pos'.trig \in Nat
      BY <2>1, Constants DEF Position
    <3> QED
      BY <3>1 DEF RestingTrigger, Larger
  <2>4. pos.entered > 0 =>
          /\ pos'.stop = pos.stop /\ pos'.trig <= RestingTrigger(pos)
          /\ pos'.trig = pos.trig \/ pos.trig = 0 \/ pos'.open = 0
    BY <1>0, <1>4, <2>1, LevelsAre DEF PassLevel
  <2>5. WebLevel(WebOp)'
    <3>1. CASE pos.entered > 0
      <4>1. RestingTrigger(pos') <= RestingTrigger(pos)
        BY <2>3, <2>4, <3>1, LevelsAre
      <4>2. WebOp.of \in {"arm", "rearm"} => pos'.trig <= pos'.stop
        <5>1. pos.trig <= pos.stop => RestingTrigger(pos) = pos.stop
          BY LevelsAre
        <5> QED
          BY <1>0, <2>4, <3>1, <5>1 DEF WebLevel
      <4>3. WebOp.of \in Raises => RaiseTo[WebOp.of] > RestingTrigger(pos')
        BY <1>0, <2>3, <4>1, LevelsAre DEF WebLevel
      <4> QED
        BY <1>0, <1>2, <4>2, <4>3 DEF WebLevel
    <3>2. CASE ~(pos.entered > 0)
      <4>1. WebOp.of \notin Arming
        BY <3>2 DEF BookInv, Entered
      <4> QED
        BY <1>0, <1>2, <4>1 DEF WebLevel, Arming
    <3> QED
      BY <3>1, <3>2
  <2>6. PassLevel(PassOp)' /\ Naked(WebOp)' /\ Naked(PassOp)'
    BY <1>0, <1>2, NoOpLevel DEF PassLevel, Naked, NoOp
  <2>7. Levelled'
    BY <2>2, <2>5, <2>6 DEF Levelled
  <2>8. ASSUME IsOpen, IsOpen' PROVE RestingTrigger(pos') >= RestingTrigger(pos)
    <3>1. pos.entered > 0
      BY <1>0, <2>8 DEF IsOpen, BookInv, SharesAddUp
    <3>2. pos'.open # 0
      BY <2>8, <2>1, Constants DEF IsOpen, Position
    <3> QED
      BY <2>3, <2>4, <3>1, <3>2, LevelsAre
  <2> QED
    BY <2>7, <2>8
<1> QED
  BY <1>3, <1>4

\* A trigger attached to a naked position has no level to fall below.
LEMMA AttachLevels ==
  ASSUME BookInv, Levelled, NEW i \in Gtts, Attach(i)
  PROVE  Levelled' /\ RestingTrigger(pos') >= RestingTrigger(pos)
<1>0. pos \in Position /\ gtt[i].level \in Levels /\ gtt[i].level \in Nat
  BY Typed, Constants DEF RestOK
<1>1. /\ pos' = [pos EXCEPT !.gtt = i, !.trig = gtt[i].level] /\ pos.gtt = 0 /\ WebOp' = NoOp /\ PassOp' = NoOp
  BY DEF Attach, WebOp, PassOp, BookInv, Shapes, Procs
<1>2. pos'.gtt = i /\ pos'.trig = gtt[i].level /\ pos'.stop = pos.stop /\ i # 0
  BY <1>0, <1>1 DEF Position, Gtts
<1>3. RestingTrigger(pos) = pos.stop
  BY <1>1, LevelsAre DEF Levelled
<1>4. RestingTrigger(pos') >= pos.stop
  BY <1>0, <1>2, LevelsAre DEF RestingTrigger, Larger
<1>5. Levelled'
  <2>1. WebLevel(WebOp)' /\ PassLevel(PassOp)'
    BY <1>1, Constants DEF WebLevel, PassLevel, NoOp
  <2>2. Naked(WebOp)' /\ Naked(PassOp)'
    BY <1>1, NoOpLevel DEF Naked
  <2> QED
    BY <1>2, <2>1, <2>2 DEF Levelled
<1> QED
  BY <1>3, <1>4, <1>5

LEMMA OtherLevels ==
  ASSUME BookInv, Levelled,
         \/ \E l \in Lines : Refuse(l)
         \/ \E o \in Orders : Fill(o) \/ Kill(o)
         \/ \E p \in Procs : Die(p)
         \/ UNCHANGED vars
  PROVE  Levelled' /\ pos' = pos
<1>1. CASE \E p \in Procs : Die(p)
  <2>1. PICK p \in Procs : Die(p)
    BY <1>1
  <2>2. pos' = pos /\ op' = [op EXCEPT ![p] = NoOp] /\ op \in [Procs -> Op]
    BY <2>1, Typed DEF Die, OpsOK
  <2>3. CASE p = "web"
    <3>1. WebOp' = NoOp /\ PassOp' = PassOp
      BY <2>2, <2>3 DEF WebOp, PassOp, Procs
    <3> QED
      BY <2>2, <3>1, NoOpLevel, WebLevelKeeps
  <2>4. CASE p = "pass"
    <3>1. PassOp' = NoOp /\ WebOp' = WebOp
      BY <2>2, <2>4 DEF WebOp, PassOp, Procs
    <3> QED
      BY <2>2, <3>1, NoOpLevel, PassLevelKeeps
  <2> QED
    BY <2>3, <2>4 DEF Procs
<1>2. CASE ~(\E p \in Procs : Die(p))
  <2>1. UNCHANGED <<pos, op>>
    BY <1>2 DEF Refuse, Fill, Kill, vars
  <2> QED
    BY <2>1, WebLevelKeeps DEF Levelled, WebOp, PassOp
<1> QED
  BY <1>1, <1>2

StopInv == BookInv /\ Levelled

LEMMA StopStep ==
  ASSUME StopInv, [Next]_vars
  PROVE  StopInv' /\ (IsOpen /\ IsOpen' => RestingTrigger(pos') >= RestingTrigger(pos))
<1>0. BookInv /\ Levelled /\ BookInv' /\ (pos' = pos => RestingTrigger(pos') >= RestingTrigger(pos))
  BY BookStep, LevelsAre DEF StopInv
<1>1. CASE \/ \E l \in Lines : Confirm(l)
           \/ \E o \in Orders : Place(o)
           \/ CancelOld \/ Rearm \/ Arm("web")
  <2>1. pos' = pos
    BY <1>1 DEF Confirm, Place, CancelOld, Rearm, Arm
  <2> QED
    BY <1>0, <1>1, <2>1, WebSteps DEF StopInv
<1>2. CASE \/ \E o \in Orders : ReadReport(o)
           \/ ApplyBuy \/ ApplySell \/ CancelClosed \/ Resize \/ Arm("pass")
  <2>1. pos' = pos
    BY <1>2 DEF ReadReport, ApplyBuy, ApplySell, CancelClosed, Resize, Arm
  <2> QED
    BY <1>0, <1>2, <2>1, PassSteps DEF StopInv
<1>3. CASE Commit("web")
  BY <1>0, <1>3, WebCommitRaises DEF StopInv
<1>4. CASE Commit("pass")
  BY <1>0, <1>4, PassCommitLevels DEF StopInv
<1>5. ASSUME NEW i \in Gtts, Attach(i)
      PROVE  StopInv' /\ (IsOpen /\ IsOpen' => RestingTrigger(pos') >= RestingTrigger(pos))
  BY <1>0, <1>5, AttachLevels DEF StopInv
<1>6. CASE \/ \E l \in Lines : Refuse(l)
           \/ \E o \in Orders : Fill(o) \/ Kill(o)
           \/ \E p \in Procs : Die(p)
           \/ UNCHANGED vars
  BY <1>0, <1>6, OtherLevels DEF StopInv
<1> QED
  BY <1>1, <1>2, <1>3, <1>4, <1>5, <1>6 DEF Next, Pass, Handle

LEMMA StopInit == Init => StopInv
<1> SUFFICES ASSUME Init PROVE StopInv
  OBVIOUS
<1>1. WebOp = NoOp /\ PassOp = NoOp /\ pos = NoPos
  BY DEF Init, WebOp, PassOp, Procs
<1> QED
  BY <1>1, BookInit, NoOpLevel DEF StopInv, Levelled, NoPos

(* "A stop never falls": whatever is confirmed, reported, re-armed, attached or left naked, in   *)
(* any order and with any faults, the level an open position's next stop is judged against does  *)
(* not go down (resting_trigger, raise_gtt_stop, apply_fill).                                    *)
THEOREM StopKept == Spec => StopNeverFalls
<1>1. StopInv /\ [Next]_vars => StopInv'
  BY StopStep
<1>2. StopInv /\ [Next]_vars =>
        [IsOpen /\ IsOpen' => RestingTrigger(pos') >= RestingTrigger(pos)]_vars
  BY StopStep
<1> QED
  BY <1>1, <1>2, StopInit, PTL DEF Spec, StopNeverFalls
=============================================================================
